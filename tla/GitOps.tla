------------------------------- MODULE GitOps -------------------------------
(***************************************************************************)
(* clone_repos_parallel of src/src/infrastructure/git_ops.py, and the      *)
(* child processes it runs through SandboxRunner.run,                      *)
(* src/src/sandbox/runner.py.                                              *)
(*                                                                         *)
(* A child is a process group: a leader (git) and a helper that holds the  *)
(* leader's pipes (git's transport).  asyncio reaps a leader as soon as it *)
(* exits; communicate returns once the leader has exited and nobody holds  *)
(* the pipes.  What git does to a directory is external.                   *)
(***************************************************************************)
EXTENDS Naturals, FiniteSets

CONSTANTS
  Repos,            \* repositories of one call
  Dirs,
  Dir(_),           \* base_dir / name.replace("/", "_")
  NoRepo,
  max_concurrent

VARIABLES
  await,     \* where the task of each repository awaits
  permits,   \* of the semaphore
  leader,    \* git's process: "none", "started", "cloning", "exited"
  code,      \* its exit code
  helper,    \* TRUE while the helper lives
  tree,      \* each directory: whose clone, and whether it is complete
  success,   \* CloneResult.success
  commit,    \* CloneResult.commit_hash: of whose tree
  reaped     \* history: repositories whose leader was gone when the timeout fired

clones  == <<await, permits, success, commit>>
process == <<leader, code, helper>>
git     == <<clones, process, tree, reaped>>

EXIT_SUCCESS == 0
SIGKILL      == 9
FATAL        == 128

NoTree == [repo |-> NoRepo, complete |-> FALSE]
CloneEnded == {"done", "cancelled"}

GitTypeOK ==
  /\ await \in [Repos -> {"semaphore", "communicate", "wait", "rev-parse"} \cup CloneEnded]
  /\ permits \in 0..max_concurrent
  /\ leader \in [Repos -> {"none", "started", "cloning", "exited"}]
  /\ code \in [Repos -> {EXIT_SUCCESS, SIGKILL, FATAL}]
  /\ helper \in [Repos -> BOOLEAN]
  /\ tree \in [Dirs -> [repo : Repos \cup {NoRepo}, complete : BOOLEAN]]
  /\ success \in [Repos -> BOOLEAN]
  /\ commit \in [Repos -> Repos \cup {NoRepo}]
  /\ reaped \subseteq Repos

GitRuns(r) == leader[r] \in {"started", "cloning"}

(***************************************************************************)
(* clone_repo and run.                                                     *)
(***************************************************************************)
\* The task ends and gives its permit back.
Done(r, ok, hash) ==
  /\ await' = [await EXCEPT ![r] = "done"]
  /\ permits' = permits + 1
  /\ success' = [success EXCEPT ![r] = ok]
  /\ commit' = [commit EXCEPT ![r] = hash]

\* The old directory is removed and git is started.
CloneRepo(r) ==
  /\ await[r] = "semaphore" /\ permits > 0
  /\ await' = [await EXCEPT ![r] = "communicate"]
  /\ permits' = permits - 1
  /\ tree' = [tree EXCEPT ![Dir(r)] = NoTree]
  /\ leader' = [leader EXCEPT ![r] = "started"]
  /\ helper' = [helper EXCEPT ![r] = TRUE]
  /\ UNCHANGED <<code, success, commit, reaped>>

\* rmtree raises, as it can while another process writes there, and leaves all, a part
\* or nothing of the tree, or git cannot be started: a failed result, by gather or run.
NotStarted(r) ==
  /\ await[r] = "semaphore" /\ permits > 0
  /\ await' = [await EXCEPT ![r] = "done"]
  /\ LET old == tree[Dir(r)]
     IN  \E left \in {old, [old EXCEPT !.complete = FALSE], NoTree} :
           tree' = [tree EXCEPT ![Dir(r)] = left]
  /\ UNCHANGED <<permits, success, commit, process, reaped>>

\* Mutant: whatever ends before the timeout is a success.
SucceededInTime(exit) == TRUE

\* ExecutionResult.success, of a run that did not time out.
Succeeded(exit) == exit = EXIT_SUCCESS

\* communicate returns; after a success, git rev-parse is run in the directory.
Communicated(r) ==
  /\ await[r] = "communicate" /\ leader[r] = "exited" /\ ~helper[r]
  /\ IF Succeeded(code[r])
     THEN await' = [await EXCEPT ![r] = "rev-parse"] /\ UNCHANGED <<permits, success, commit>>
     ELSE Done(r, FALSE, NoRepo)
  /\ UNCHANGED <<process, tree, reaped>>

\* Mutant: only git itself is killed.
KillLeader(r) ==
  /\ leader' = [leader EXCEPT ![r] = "exited"]
  /\ code' = [code EXCEPT ![r] = IF GitRuns(r) THEN SIGKILL ELSE @]
  /\ UNCHANGED helper

\* os.killpg(os.getpgid(pid)): getpgid finds no process once the leader is reaped,
\* and the ProcessLookupError is suppressed.
KillGroup(r) ==
  IF GitRuns(r)
  THEN /\ leader' = [leader EXCEPT ![r] = "exited"]
       /\ code' = [code EXCEPT ![r] = SIGKILL]
       /\ helper' = [helper EXCEPT ![r] = FALSE]
  ELSE UNCHANGED process

\* wait_for times out while communicate is not done.
TimedOut(r) ==
  /\ await[r] = "communicate"
  /\ GitRuns(r) \/ helper[r]
  /\ KillGroup(r)
  /\ await' = [await EXCEPT ![r] = "wait"]
  /\ reaped' = IF GitRuns(r) THEN reaped ELSE reaped \cup {r}
  /\ UNCHANGED <<permits, success, commit, tree>>

\* process.wait returns; EXIT_TIMEOUT is no success.
Waited(r) ==
  /\ await[r] = "wait" /\ leader[r] = "exited"
  /\ Done(r, FALSE, NoRepo)
  /\ UNCHANGED <<process, tree, reaped>>

\* rev-parse prints the commit of the tree it finds, complete or not, or fails; it may
\* also time out.
RevParsed(r) ==
  /\ await[r] = "rev-parse"
  /\ \E hash \in {NoRepo, tree[Dir(r)].repo} : Done(r, TRUE, hash)
  /\ UNCHANGED <<process, tree, reaped>>

\* The caller is cancelled, and gather cancels its tasks: run does not catch it.
CancelClones ==
  /\ \E r \in Repos : await[r] \notin CloneEnded
  /\ await' = [r \in Repos |-> IF await[r] \in CloneEnded THEN await[r] ELSE "cancelled"]
  /\ UNCHANGED <<permits, success, commit, process, tree, reaped>>

(***************************************************************************)
(* git.                                                                    *)
(***************************************************************************)
\* It refuses a directory that holds something.
GitStarts(r) ==
  /\ leader[r] = "started"
  /\ IF tree[Dir(r)] = NoTree
     THEN /\ leader' = [leader EXCEPT ![r] = "cloning"]
          /\ tree' = [tree EXCEPT ![Dir(r)] = [repo |-> r, complete |-> FALSE]]
          /\ UNCHANGED code
     ELSE /\ leader' = [leader EXCEPT ![r] = "exited"]
          /\ code' = [code EXCEPT ![r] = FATAL]
          /\ UNCHANGED tree
  /\ UNCHANGED <<helper, clones, reaped>>

\* A clone succeeds only in the directory it made.
GitSucceeds(r) ==
  /\ leader[r] = "cloning"
  /\ tree[Dir(r)] = [repo |-> r, complete |-> FALSE]
  /\ tree' = [tree EXCEPT ![Dir(r)] = [repo |-> r, complete |-> TRUE]]
  /\ leader' = [leader EXCEPT ![r] = "exited"]
  /\ code' = [code EXCEPT ![r] = EXIT_SUCCESS]
  /\ UNCHANGED <<helper, clones, reaped>>

\* A clone that fails removes the directory by its path, whoever has made it anew.
GitFails(r) ==
  /\ leader[r] = "cloning"
  /\ tree' = [tree EXCEPT ![Dir(r)] = NoTree]
  /\ leader' = [leader EXCEPT ![r] = "exited"]
  /\ code' = [code EXCEPT ![r] = FATAL]
  /\ UNCHANGED <<helper, clones, reaped>>

HelperEnds(r) ==
  /\ helper[r]
  /\ helper' = [helper EXCEPT ![r] = FALSE]
  /\ UNCHANGED <<leader, code, clones, tree, reaped>>

GitInit ==
  /\ await = [r \in Repos |-> "semaphore"]
  /\ permits = max_concurrent
  /\ leader = [r \in Repos |-> "none"]
  /\ code = [r \in Repos |-> EXIT_SUCCESS]
  /\ helper = [r \in Repos |-> FALSE]
  /\ tree \in [Dirs -> {NoTree, [repo |-> NoRepo, complete |-> TRUE]}]
  /\ success = [r \in Repos |-> FALSE]
  /\ commit = [r \in Repos |-> NoRepo]
  /\ reaped = {}

GitNext ==
  \/ CancelClones
  \/ \E r \in Repos :
       \/ CloneRepo(r) \/ NotStarted(r) \/ Communicated(r)
       \/ TimedOut(r) \/ Waited(r) \/ RevParsed(r)
       \/ GitStarts(r) \/ GitSucceeds(r) \/ GitFails(r) \/ HelperEnds(r)

GitSpec == GitInit /\ [][GitNext]_git

(***************************************************************************)
(* Properties.                                                             *)
(***************************************************************************)
Collides(r) == \E q \in Repos \ {r} : Dir(q) = Dir(r)

\* A clone reported as a success has its complete tree in its directory, and the commit
\* reported for it is its own, unless another repository of the call has the same
\* directory; and no failed clone reports a commit.
\* Code: git_ops.py clone_repo, clone_repos_parallel.
SuccessMeansTree ==
  \A r \in Repos :
    /\ success[r] /\ ~Collides(r) =>
         tree[Dir(r)] = [repo |-> r, complete |-> TRUE] /\ commit[r] \in {r, NoRepo}
    /\ commit[r] # NoRepo => success[r]

\* When a call has ended, what it started is gone, unless it was cancelled or git had
\* exited before the timeout.  Code: runner.py run.
StraysHaveCause ==
  \A r \in Repos : await[r] = "done" /\ (GitRuns(r) \/ helper[r]) => r \in reaped
==============================================================================
