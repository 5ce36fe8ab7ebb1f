----------------------------- MODULE BatchReader -----------------------------
(***************************************************************************)
(* Object reads through one long-lived git cat-file --batch process        *)
(* (git_batch.rs, git_ops.rs with_batch, batch_blob, show_file_bytes,      *)
(* list_tree_files).                                                       *)
(*                                                                         *)
(* The program writes one name per line and reads a header, the data and a *)
(* newline; the process answers in its own time, may die with any part of  *)
(* a reply in the pipe, and may say something that is no reply. The mutex  *)
(* of the slot makes calls take turns. Objects are never taken away, but a *)
(* fetch may bring a missing one while a call runs.                        *)
(***************************************************************************)
EXTENDS Naturals, Sequences, SequencesExt, Option

CONSTANTS
    Store,          \* by name: [kind, data]; data of a tree is its entries
    Reads,          \* calls: [op |-> "blob" | "list", name]
    MultiLine,      \* names with a newline in them
    MaxDepth,       \* bound on the depth of trees
    MaxFaults       \* bound on deaths, garbled replies and failing git calls

ASSUME StoreAssumption ==
    \A n \in DOMAIN Store :
        Store[n].kind = "tree" => \A i \in DOMAIN Store[n].data :
            Store[n].data[i].mode \in {"40000", "100644", "160000"}

VARIABLES
    present,    \* the names that name an object
    slot,       \* BatchSlot: [running, failures]
    pipe,       \* what lies between the two processes
    call,       \* the call that holds the mutex
    answer,     \* the call that ended last
    faults

batchVars == <<present, slot, pipe, call, answer, faults>>

NoPipe == [asked |-> <<>>, out |-> <<>>, dead |-> FALSE]
NoCall == [read |-> None, phase |-> "none", todo |-> <<>>, files |-> <<>>,
           header |-> None, atStart |-> {}, result |-> None, trusted |-> TRUE]

-----------------------------------------------------------------------------
(* What git cat-file -p and git ls-tree -r print: the reference.            *)

IsTree(n, there) == n \in there /\ Store[n].kind = "tree"

Subtree(entry) == entry.mode = "40000"

(* The paths below a tree, subtrees in place; None if a part is missing.    *)
Paths(root, there) ==
    LET below[d \in 0..MaxDepth, n \in DOMAIN Store] ==
            IF ~IsTree(n, there) THEN None
            ELSE LET entries == Store[n].data
                     sub == [i \in DOMAIN entries |->
                                IF ~Subtree(entries[i]) THEN <<<<entries[i].name>>>>
                                ELSE IF d = 0 THEN None ELSE below[d - 1, entries[i].id]]
                 IN  IF \E i \in DOMAIN sub : sub[i] = None THEN None
                     ELSE FlattenSeq([i \in DOMAIN sub |->
                              IF Subtree(entries[i])
                              THEN [j \in DOMAIN sub[i] |-> <<entries[i].name>> \o sub[i][j]]
                              ELSE sub[i]])
    IN  IF root \in DOMAIN Store THEN below[MaxDepth, root] ELSE None

Direct(read, there) ==
    IF read.op = "list" THEN Paths(read.name, there)
    ELSE IF read.name \in there THEN Store[read.name].data ELSE None

-----------------------------------------------------------------------------
(* The mutex and the loop of with_batch.                                    *)

(* The trees still to read and files still to list, in order.               *)
Fresh(read) == << [tree |-> read.op = "list", name |-> read.name, path |-> <<>>] >>

Begin(read) ==
    /\ call.phase = "none"
    /\ call' = [NoCall EXCEPT !.read = read, !.phase = "attempt", !.todo = Fresh(read),
                              !.atStart = present]
    /\ UNCHANGED <<present, slot, pipe, answer, faults>>

Step(next) ==
    /\ call' = next
    /\ UNCHANGED <<present, slot, pipe, answer, faults>>

OldWay == [call EXCEPT !.phase = "direct"]

TurnedOff ==
    /\ call.phase = "attempt"
    /\ slot.failures >= 2
    /\ Step(OldWay)

Start ==
    /\ call.phase = "attempt" /\ slot.failures < 2 /\ ~slot.running
    /\ \/ /\ slot' = [slot EXCEPT !.running = TRUE]
          /\ pipe' = NoPipe
          /\ UNCHANGED faults
       \/ /\ faults < MaxFaults
          /\ faults' = faults + 1
          /\ slot' = [slot EXCEPT !.failures = @ + 1]
          /\ UNCHANGED pipe
    /\ UNCHANGED <<present, call, answer>>

(* Mutant of Attempt: the second attempt adds to the list of the first.     *)
Attempt_Resumes ==
    /\ call.phase = "attempt" /\ slot.failures < 2 /\ slot.running
    /\ Step([call EXCEPT !.phase = "ask", !.todo = Fresh(call.read)])

Attempt ==
    /\ call.phase = "attempt" /\ slot.failures < 2 /\ slot.running
    /\ Step([call EXCEPT !.phase = "ask", !.todo = Fresh(call.read), !.files = <<>>])

(* read answered Err: the reader is dropped, its process killed.            *)
Fail ==
    /\ slot' = [running |-> FALSE, failures |-> slot.failures + 1]
    /\ pipe' = NoPipe
    /\ call' = [call EXCEPT !.phase = "attempt"]
    /\ UNCHANGED <<present, answer, faults>>

-----------------------------------------------------------------------------
(* BatchReader::read, and walk over the trees.                              *)

Item == Head(call.todo)

(* Ok(None) without a word to the process: the name spans lines.            *)
Unaskable ==
    /\ call.phase = "ask"
    /\ Item.name \in MultiLine
    /\ Step(OldWay)

(* The end of a pipe to a process that died may be noticed on writing.      *)
Write ==
    /\ call.phase = "ask"
    /\ Item.name \notin MultiLine
    /\ \/ /\ pipe' = IF pipe.dead THEN pipe ELSE [pipe EXCEPT !.asked = Append(@, Item.name)]
          /\ call' = [call EXCEPT !.phase = "header"]
          /\ UNCHANGED <<present, slot, answer, faults>>
       \/ pipe.dead /\ Fail

Took(next) ==
    /\ call' = next
    /\ pipe' = [pipe EXCEPT !.out = Tail(@)]
    /\ UNCHANGED <<present, slot, answer, faults>>

NoMoreToRead == pipe.out = <<>> /\ pipe.dead

ReadHeader ==
    /\ call.phase = "header"
    /\ \/ NoMoreToRead /\ Fail
       \/ /\ pipe.out # <<>>
          /\ LET reply == Head(pipe.out)
             IN  CASE reply.part = "header" ->
                          Took([call EXCEPT !.phase = "data", !.header = reply.object])
                   [] reply.part = "missing" -> Took(OldWay)
                   [] OTHER -> Fail

Answered(result) == [call EXCEPT !.phase = "done", !.result = result]

(* Files at the head of what is to do are listed at once.                   *)
Walked(todo, files) ==
    LET trees == { i \in DOMAIN todo : todo[i].tree }
        n == IF trees = {} THEN Len(todo)
             ELSE (CHOOSE i \in trees : \A j \in trees : i <= j) - 1
        all == files \o [i \in 1..n |-> todo[i].path]
    IN  IF trees = {} THEN Answered(all)
        ELSE [call EXCEPT !.phase = "ask", !.files = all, !.todo = SubSeq(todo, n + 1, Len(todo))]

Entries(item, data) ==
    [i \in DOMAIN data |-> [ tree |-> Subtree(data[i]), name |-> data[i].id,
                             path |-> Append(item.path, data[i].name) ]]

GotObject(object) ==
    CASE call.read.op = "blob" /\ object.kind = "blob" -> Answered(object.data)
      [] call.read.op = "list" /\ object.kind = "tree" ->
             Walked(Entries(Item, object.data) \o Tail(call.todo), call.files)
      [] OTHER -> OldWay

ReadData ==
    /\ call.phase = "data"
    /\ \/ NoMoreToRead /\ Fail
       \/ /\ pipe.out # <<>>
          /\ IF Head(pipe.out).part = "data" THEN Took(GotObject(Head(pipe.out).object))
             ELSE Fail

(* The old way: one git process for this call, which may fail.              *)
ReadDirectly ==
    /\ call.phase = "direct"
    /\ \/ Step(Answered(Direct(call.read, present)))
       \/ /\ faults < MaxFaults
          /\ faults' = faults + 1
          /\ call' = [Answered(None) EXCEPT !.trusted = FALSE]
          /\ UNCHANGED <<present, slot, pipe, answer>>

Return ==
    /\ call.phase = "done"
    /\ answer' = call
    /\ call' = NoCall
    /\ UNCHANGED <<present, slot, pipe, faults>>

-----------------------------------------------------------------------------
(* The process, and what goes wrong with it.                                *)

Reply(n) ==
    IF n \in present
    THEN << [part |-> "header", object |-> Store[n]], [part |-> "data", object |-> Store[n]] >>
    ELSE << [part |-> "missing", object |-> None] >>

Answer ==
    /\ ~pipe.dead /\ pipe.asked # <<>>
    /\ pipe' = [pipe EXCEPT !.asked = Tail(@), !.out = @ \o Reply(Head(pipe.asked))]
    /\ UNCHANGED <<present, slot, call, answer, faults>>

(* Dead, with any part of its output in the pipe.                           *)
Die ==
    /\ slot.running /\ ~pipe.dead
    /\ faults < MaxFaults
    /\ faults' = faults + 1
    /\ \E n \in 0..Len(pipe.out) :
          pipe' = [asked |-> <<>>, out |-> SubSeq(pipe.out, 1, n), dead |-> TRUE]
    /\ UNCHANGED <<present, slot, call, answer>>

(* A line that is no header, before a reply.                                *)
Garble ==
    /\ ~pipe.dead /\ pipe.asked # <<>>
    /\ faults < MaxFaults
    /\ faults' = faults + 1
    /\ pipe' = [pipe EXCEPT !.asked = Tail(@),
                    !.out = @ \o << [part |-> "garbage", object |-> None] >>
                              \o Reply(Head(pipe.asked))]
    /\ UNCHANGED <<present, slot, call, answer>>

Arrive ==
    /\ \E n \in DOMAIN Store \ present : present' = present \cup {n}
    /\ UNCHANGED <<slot, pipe, call, answer, faults>>

BatchInit ==
    /\ present \in { DOMAIN Store, DOMAIN Store \ { n \in DOMAIN Store : Store[n].late } }
    /\ slot = [running |-> FALSE, failures |-> 0]
    /\ pipe = NoPipe
    /\ call = NoCall
    /\ answer = NoCall
    /\ faults = 0

BatchNext ==
    \/ \E read \in Reads : Begin(read)
    \/ TurnedOff \/ Start \/ Attempt \/ Unaskable \/ Write \/ ReadHeader \/ ReadData
    \/ ReadDirectly \/ Return
    \/ Answer \/ Die \/ Garble \/ Arrive

BatchSpec == BatchInit /\ [][BatchNext]_batchVars

-----------------------------------------------------------------------------
(* Properties.                                                              *)

(* "Results and errors are unchanged" (git_ops.rs:420): whatever becomes of *)
(* the process in the middle of a call, its answer is what git would have   *)
(* printed at some moment of the call; it fails only when a part is missing *)
(* at its start, or git itself failed.                                      *)
AnswersTrue ==
    answer.phase = "done" =>
        IF answer.result # None THEN answer.result = Direct(answer.read, present)
        ELSE answer.trusted => Direct(answer.read, answer.atStart) = None
==============================================================================
