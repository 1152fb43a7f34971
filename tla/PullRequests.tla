------------------------------ MODULE PullRequests ------------------------------
(***************************************************************************)
(* POST /code/open-pr (app/api/v1/code.py, app/services/github_service.py):*)
(* each request names a branch after its title and the second of the       *)
(* clock, creates it, updates one file on it and opens a pull request, in  *)
(* five calls of GitHub, any of which may raise and leave the rest undone. *)
(* Requests run beside each other in the server's threads.                 *)
(***************************************************************************)
EXTENDS Naturals, Sequences

CONSTANTS
  Requests,
  Slugs,       \* what _slugify leaves of a title
  LastSecond   \* bound on the clock

ASSUME PullAssumption == LastSecond \in Nat

VARIABLES
  second,    \* int(time.time())
  request,   \* where each request stands, its branch, and the file it has read
  branches,  \* commits on the branches that exist, by name
  pulls      \* requests whose pull request is open

pullVars == <<second, request, branches, pulls>>

BranchNames == Slugs \X (0 .. LastSecond)
NoBranch == <<>>

PullPhases == {"idle", "named", "branched", "read", "updated", "ended"}

PullTypeOK ==
  /\ second \in 0 .. LastSecond
  /\ request \in [Requests -> [phase : PullPhases, branch : BranchNames \union {NoBranch}, sha : Nat]]
  /\ DOMAIN branches \subseteq BranchNames
  /\ \A b \in DOMAIN branches : branches[b] \in Seq(Requests)
  /\ pulls \subseteq Requests

PullInit ==
  /\ second = 0
  /\ request = [r \in Requests |-> [phase |-> "idle", branch |-> NoBranch, sha |-> 0]]
  /\ branches = <<>>
  /\ pulls = {}

Tick ==
  /\ second < LastSecond
  /\ second' = second + 1
  /\ UNCHANGED <<request, branches, pulls>>

BranchOf(r) == request[r].branch

Proceeds(r, from, to) ==
  request[r].phase = from /\ request' = [request EXCEPT ![r].phase = to]

NameBranch(r) ==
  /\ request[r].phase = "idle"
  /\ \E s \in Slugs :
       request' = [request EXCEPT ![r].phase = "named", ![r].branch = <<s, second>>]
  /\ UNCHANGED <<second, branches, pulls>>

\* Deviation: a branch of the name that exists already is used.
CreateRefOrReuse(r) ==
  /\ Proceeds(r, "named", "branched")
  /\ branches' = IF BranchOf(r) \in DOMAIN branches THEN branches
                 ELSE [b \in DOMAIN branches \union {BranchOf(r)} |->
                        IF b = BranchOf(r) THEN <<>> ELSE branches[b]]
  /\ UNCHANGED <<second, pulls>>

\* create_git_ref at the head of main; GitHub refuses a name that exists.
CreateRef(r) ==
  /\ BranchOf(r) \notin DOMAIN branches
  /\ Proceeds(r, "named", "branched")
  /\ branches' = [b \in DOMAIN branches \union {BranchOf(r)} |->
                   IF b = BranchOf(r) THEN <<>> ELSE branches[b]]
  /\ UNCHANGED <<second, pulls>>

\* get_contents: the version of the file is the commits it went through.
ReadFile(r) ==
  /\ request[r].phase = "branched"
  /\ request' = [request EXCEPT ![r].phase = "read", ![r].sha = Len(branches[BranchOf(r)])]
  /\ UNCHANGED <<second, branches, pulls>>

\* update_file is refused unless the file still is the one that was read.
UpdateFile(r) ==
  /\ Proceeds(r, "read", "updated")
  /\ request[r].sha = Len(branches[BranchOf(r)])
  /\ branches' = [branches EXCEPT ![BranchOf(r)] = Append(@, r)]
  /\ UNCHANGED <<second, pulls>>

\* create_pull
OpenPull(r) ==
  /\ Proceeds(r, "updated", "ended")
  /\ pulls' = pulls \union {r}
  /\ UNCHANGED <<second, branches>>

\* The next call raises, GitHub's refusals included, or the last one does after
\* GitHub has carried it out: 400 or 502. What is done stays.
PullFails(r) ==
  /\ \E phase \in PullPhases \ {"idle", "ended"} : Proceeds(r, phase, "ended")
  /\ UNCHANGED <<second, branches, pulls>>

-----------------------------------------------------------------------------

PullStep(r) ==
  NameBranch(r) \/ CreateRef(r) \/ ReadFile(r) \/ UpdateFile(r) \/ OpenPull(r) \/ PullFails(r)

PullNext == Tick \/ \E r \in Requests : PullStep(r)

PullSpec == PullInit /\ [][PullNext]_pullVars

-----------------------------------------------------------------------------
(* Properties. *)

\* A pull request carries its own request's change and no other, although two
\* requests of one second and one title are given the same branch.
PullRequestIsItsOwn == \A r \in pulls : branches[BranchOf(r)] = <<r>>

==============================================================================
