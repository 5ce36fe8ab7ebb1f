----------------------------- MODULE IndexRepair -----------------------------
(***************************************************************************)
(* git forum hook fix-index, which doctor runs too, and the commits of the *)
(* code branch with the commit-msg hook (commands/hook.rs).                *)
(*                                                                         *)
(* fix-index lists the index, asks for each blob, and stages the file of   *)
(* the working tree where the blob is gone; then it does the same for the  *)
(* blobs of HEAD. Every step is a git process of its own: the user edits,  *)
(* stages and commits in between, and a step fails when another git holds  *)
(* the lock of the index.                                                  *)
(***************************************************************************)
EXTENDS Naturals, Sequences, SequencesExt, FiniteSets, Option

CONSTANTS
    FilePaths,      \* paths of files
    Modules,        \* paths of submodules: an index entry, and no blob for it
    Contents,       \* blobs
    MaxUser         \* bound on the user's steps

(* Git keeps finitely many paths, and a path is a file or a submodule.      *)
ASSUME PathsAssumption ==
    /\ IsFiniteSet(FilePaths) /\ IsFiniteSet(Modules)
    /\ FilePaths \cap Modules = {}

VARIABLES
    tree,       \* by file: the content in the working tree
    index,      \* by file: the blobs of its stages, of which one when merged
    head,       \* by file: the blob in HEAD
    blobs,      \* the objects that are there
    fix,        \* fix-index
    user,       \* steps of the user
    \* history
    settled     \* no object lost, and no reset, since fix-index began

repairVars == <<tree, index, head, blobs, fix, user, settled>>

Present(ids) == ids \subseteq blobs
Merged(path) == Cardinality(index[path]) <= 1

-----------------------------------------------------------------------------
(* fix_index_blobs: pass 1 over the index, pass 2 over HEAD.                *)

NoFix == [at |-> "none", todo |-> <<>>, fixed |-> {}, warnings |-> {}, staged |-> {}]

LineOf(path, blob) == [path |-> path, blob |-> blob]

(* Mutant of IndexLines: the stages of a conflict are passed over.          *)
IndexLines_Merged ==
    LET staged(path) == IF Merged(path) THEN index[path] ELSE {}
    IN  SetToSeq((UNION { { LineOf(path, blob) : blob \in staged(path) } : path \in FilePaths })
                 \cup { LineOf(module, None) : module \in Modules })

(* What pass 1 has to look at: one line for each stage, also of submodules. *)
(* Git lists them by path; what a line needs does not depend on the lines   *)
(* before it, so that one order stands for all.                             *)
IndexLines ==
    SetToSeq((UNION { { LineOf(path, blob) : blob \in index[path] } : path \in FilePaths })
             \cup { LineOf(module, None) : module \in Modules })

(* Pass 2 asks for blobs alone.                                             *)
HeadLines ==
    SetToSeq({ LineOf(path, head[path]) : path \in { p \in FilePaths : head[p] # None } })

InPass == {"index", "head"}
Line == Head(fix.todo)
Gone(line) == line.blob \notin blobs
InTree(line) == line.path \in FilePaths /\ tree[line.path] # None

(* Nothing to do for a line: the blob is there, or pass 1 staged a repair.  *)
Skips(line) == ~Gone(line) \/ (fix.at = "head" /\ line.path \in fix.fixed)

Unfixed == UNCHANGED <<tree, index, head, blobs, user, settled>>

BeginFix ==
    /\ fix.at \in {"none", "done", "failed"}
    /\ fix' = [NoFix EXCEPT !.at = "index", !.todo = IndexLines,
                            !.staged = { path \in FilePaths : index[path] # {} }]
    /\ settled' = TRUE
    /\ UNCHANGED <<tree, index, head, blobs, user>>

PassOver ==
    /\ fix.at \in InPass /\ fix.todo # <<>>
    /\ Skips(Line)
    /\ fix' = [fix EXCEPT !.todo = Tail(@)]
    /\ Unfixed

Warn ==
    /\ fix.at \in InPass /\ fix.todo # <<>>
    /\ ~Skips(Line) /\ ~InTree(Line)
    /\ fix' = [fix EXCEPT !.todo = Tail(@), !.warnings = @ \cup {Line.path}]
    /\ Unfixed

(* update-index --force-remove: every stage of the path.                    *)
ForceRemove ==
    /\ fix.at \in InPass /\ fix.todo # <<>>
    /\ ~Skips(Line) /\ InTree(Line)
    /\ index' = [index EXCEPT ![Line.path] = {}]
    /\ fix' = [fix EXCEPT !.at = IF fix.at = "index" THEN "add index" ELSE "add head"]
    /\ UNCHANGED <<tree, head, blobs, user, settled>>

(* git add of whatever the file holds now.                                  *)
AddBack ==
    /\ fix.at \in {"add index", "add head"}
    /\ tree[Line.path] # None
    /\ index' = [index EXCEPT ![Line.path] = {tree[Line.path]}]
    /\ blobs' = blobs \cup {tree[Line.path]}
    /\ fix' = [fix EXCEPT !.at = IF fix.at = "add index" THEN "index" ELSE "head",
                          !.todo = Tail(@), !.fixed = @ \cup {Line.path}]
    /\ UNCHANGED <<tree, head, user, settled>>

(* A git process fails: the lock is held, the path is ignored, the file is  *)
(* gone. In pass 2 a failing removal goes unnoticed; git add then decides.  *)
FixFails ==
    /\ \/ fix.at \in {"add index", "add head"}
       \/ fix.at = "index" /\ fix.todo # <<>> /\ ~Skips(Line) /\ InTree(Line)
    /\ fix' = [fix EXCEPT !.at = "failed", !.todo = <<>>]
    /\ Unfixed

NextPass ==
    /\ fix.at \in InPass /\ fix.todo = <<>>
    /\ fix' = IF fix.at = "index" THEN [fix EXCEPT !.at = "head", !.todo = HeadLines]
              ELSE [fix EXCEPT !.at = "done"]
    /\ Unfixed

-----------------------------------------------------------------------------
(* The user, another terminal, and whatever loses an object.                *)

UserStep == user < MaxUser /\ user' = user + 1

EditFile(path) ==
    /\ UserStep
    /\ \E content \in Contents \cup {None} : tree' = [tree EXCEPT ![path] = content]
    /\ UNCHANGED <<index, head, blobs, fix, settled>>

(* git add, or git rm --cached.                                             *)
StageFile(path) ==
    /\ UserStep
    /\ \/ /\ tree[path] # None
          /\ index' = [index EXCEPT ![path] = {tree[path]}]
          /\ blobs' = blobs \cup {tree[path]}
          /\ UNCHANGED fix
       \/ /\ index' = [index EXCEPT ![path] = {}]
          /\ fix' = [fix EXCEPT !.staged = @ \ {path}]
          /\ UNCHANGED blobs
    /\ UNCHANGED <<tree, head, settled>>

(* A merge that stops leaves the stages of a path side by side.             *)
Conflict(path) ==
    /\ UserStep
    /\ \E stages \in SUBSET blobs :
          Cardinality(stages) = 2 /\ index' = [index EXCEPT ![path] = stages]
    /\ UNCHANGED <<tree, head, blobs, fix, settled>>

(* git commit refuses stages and missing blobs.                             *)
CommitIndex ==
    /\ UserStep
    /\ \A path \in FilePaths : Merged(path) /\ Present(index[path])
    /\ head' = [path \in FilePaths |->
                    IF index[path] = {} THEN None ELSE CHOOSE blob \in index[path] : TRUE]
    /\ UNCHANGED <<tree, index, blobs, fix, settled>>

ResetIndex ==
    /\ UserStep
    /\ index' = [path \in FilePaths |-> {head[path]} \ {None}]
    /\ fix' = [fix EXCEPT !.staged = { path \in @ : head[path] # None }]
    /\ settled' = FALSE
    /\ UNCHANGED <<tree, head, blobs>>

LoseBlob(blob) ==
    /\ UserStep
    /\ blob \in blobs
    /\ blobs' = blobs \ {blob}
    /\ settled' = FALSE
    /\ UNCHANGED <<tree, index, head, fix>>

RepairInit ==
    /\ \E content \in Contents :
          /\ tree = [path \in FilePaths |-> content]
          /\ index = [path \in FilePaths |-> {content}]
          /\ head = [path \in FilePaths |-> content]
          /\ blobs = {content}
    /\ fix = NoFix /\ user = 0 /\ settled = FALSE

RepairNext ==
    \/ BeginFix \/ PassOver \/ Warn \/ ForceRemove \/ AddBack \/ FixFails \/ NextPass
    \/ \E path \in FilePaths : EditFile(path) \/ StageFile(path) \/ Conflict(path)
    \/ CommitIndex \/ ResetIndex
    \/ \E blob \in Contents : LoseBlob(blob)

RepairSpec == RepairInit /\ [][RepairNext]_repairVars

-----------------------------------------------------------------------------
(* Properties.                                                              *)

(* "the next commit will then carry the repair into a new tree"             *)
(* (hook.rs:164): after a run that ended without an error or a warning,     *)
(* every staged blob is there, so a commit can be made of the index,        *)
(* whatever was edited, staged or committed meanwhile; and no path the run  *)
(* found staged, and the user has not unstaged, has left the index.         *)
RepairCarries ==
    fix.at = "done" /\ settled =>
        /\ fix.warnings \subseteq Modules =>
              \A path \in FilePaths : Present(index[path])
        /\ \A path \in fix.staged : index[path] # {}
==============================================================================
