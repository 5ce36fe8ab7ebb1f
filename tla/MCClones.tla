------------------------------ MODULE MCClones ------------------------------
(* A clone and its remotes: one, as git forum init --public-only promises   *)
(* it, and two, with branches that hold more and less of .forum: all of it, *)
(* or an empty rfc.md and no policy.toml.                                   *)
EXTENDS Clones, TLC

CONSTANTS remoteA, remoteB

OneRemote == <<remoteA>>
TwoRemotes == <<remoteA, remoteB>>

Tracked == [f \in ForumFiles |-> "good"]
AllThere == { Tracked }
OldAndNew == { Tracked, [Tracked EXCEPT !["rfc.md"] = "bad", !["policy.toml"] = "absent"] }

WorktreeSymmetry == Permutations(Worktrees)
=============================================================================
