--------------------------- MODULE WorkspaceProofs ---------------------------
(***************************************************************************)
(* Proofs of what Workspace states of the disk and of the notes, for every *)
(* set of tasks and wakeups and every number of faults: attempts at a task *)
(* share its directory and do each other no harm, and the notebook loses   *)
(* nothing but what is overwritten unread.                                 *)
(***************************************************************************)
EXTENDS Workspace, SequenceTheorems, FiniteSetTheorems, WellFoundedInduction, TLAPS

WId     == {None} \cup Wakeup
Place   == {"idle", "over", "killed"} \cup Alive
DirRow  == [what : {"none", "empty", "files", "partial", "base", "target"}, by : WId]

\* The types of the tables and of the disk.
Types ==
    /\ status \in [Task -> {"pending", "in_progress", "completed", "failed"}]
    /\ holder \in [Task -> WId] /\ rows \subseteq Wakeup
    /\ pc \in [Wakeup -> Place] /\ at \in [Wakeup -> {None} \cup Task]
    /\ end \in [Wakeup -> {"none"} \cup Endings]
    /\ dir \in [Task -> DirRow] /\ ssh \in [Task -> SUBSET {"key", "pub"}] /\ agents \subseteq Wakeup
    /\ faults \in 0..bound.faults /\ bound \in Bound

Closing == Noting \cup Cleaning

\* A worker is on one task from its start, and has ended its wakeup when it takes notes.
Placed ==
    \A w \in Wakeup :
        /\ pc[w] # "idle" => at[w] \in Task
        /\ pc[w] \in Provisioning => IsGit(w)
        /\ end[w] # "none" => pc[w] \in Closing \cup {"over", "killed"}

\* An ssh-agent is that of a worker on a git task, from its start to its end.
AgentsOf ==
    /\ \A w \in agents : /\ IsGit(w)
                         /\ pc[w] \notin {"idle", "dir", "key", "agent", "tree"}
    /\ \A w \in Wakeup :
          pc[w] \in {"add", "clone", "cloning", "switch"} \/ (pc[w] = "work" /\ IsGit(w)) => w \in agents

\* From the clone on, the directory is what its worker made of it, whoever else holds
\* the task or held it.
Checkout(w) ==
    /\ pc[w] = "cloning" => dir[at[w]] = Content("partial", w)
    /\ pc[w] = "switch" => dir[at[w]] = Content("base", w)
    /\ pc[w] \in {"work"} \cup Closing => dir[at[w]] = Content("target", w)
Checkouts == \A w \in Wakeup : IsGit(w) => Checkout(w)

IInv == Types /\ Placed /\ AgentsOf /\ Checkouts /\ SandboxIsKept /\ AgentIsStopped

-----------------------------------------------------------------------------
(* What a step does, worker by worker. *)

\* A worker goes from one place to another, and its task and its ending stay.
Goes(w, from, to) ==
    /\ pc[w] \in from /\ \E place \in to : pc' = [pc EXCEPT ![w] = place]
    /\ UNCHANGED at

\* A command of the provisioning is refused or raises: the wakeup is over.
GivesUp(w) ==
    /\ Goes(w, Provisioning, {"over"})
    /\ \/ end' = [end EXCEPT ![w] = "refused"] /\ agents' = agents \ {w}
       \/ end' = [end EXCEPT ![w] = "raised"] /\ agents' = agents
    /\ \/ dir' = dir
       \/ pc[w] = "cloning" /\ dir[at[w]].by = w /\ dir' = [dir EXCEPT ![at[w]] = Content("empty", None)]

\* A command succeeds.
Advances(w) ==
    /\ UNCHANGED end
    /\ \/ Goes(w, {"key"}, {"agent"}) /\ UNCHANGED <<dir, agents>>
       \/ Goes(w, {"agent"}, {"add"}) /\ agents' = agents \cup {w} /\ UNCHANGED dir
       \/ Goes(w, {"add"}, {"clone"}) /\ UNCHANGED <<dir, agents>>
       \/ /\ Goes(w, {"clone"}, {"cloning"}) /\ UNCHANGED agents
          /\ dir[at[w]].what = "empty" /\ dir' = [dir EXCEPT ![at[w]] = Content("partial", w)]
       \/ /\ Goes(w, {"cloning"}, {"switch"}) /\ UNCHANGED agents
          /\ dir[at[w]].by = w /\ dir' = [dir EXCEPT ![at[w]] = Content("base", w)]
       \/ /\ Goes(w, {"switch"}, {"work"}) /\ UNCHANGED agents
          /\ dir[at[w]] = Content("base", w) /\ dir' = [dir EXCEPT ![at[w]] = Content("target", w)]

\* What happens to the directories, the ssh-agents and the places of the workers.
Move(w) ==
    \/ \E t \in Task : /\ pc[w] = "idle" /\ pc' = [pc EXCEPT ![w] = "dir"]
                       /\ at' = [at EXCEPT ![w] = t] /\ UNCHANGED <<end, dir, agents>>
    \/ Goes(w, Alive, {"killed"}) /\ UNCHANGED <<end, dir, agents>>
    \/ /\ Goes(w, {"dir"}, {IF IsGit(w) THEN "key" ELSE "work"}) /\ UNCHANGED <<end, agents>>
       /\ dir' = IF dir[at[w]] = Gone THEN [dir EXCEPT ![at[w]] = Content("empty", None)] ELSE dir
    \/ GivesUp(w) \/ Advances(w)
    \/ /\ pc[w] = "work" /\ dir[at[w]].what \in {"empty", "files"}
       /\ dir' = [dir EXCEPT ![at[w]] = Content("files", w)] /\ UNCHANGED <<pc, at, end, agents>>
    \/ /\ Goes(w, {"work"}, {"release", "summary"}) /\ UNCHANGED <<dir, agents>>
       /\ \E how \in {"completed", "quiet", "failed", "error"} : end' = [end EXCEPT ![w] = how]
    \/ Goes(w, Noting, Noting \cup {"release"}) /\ UNCHANGED <<end, dir, agents>>
    \/ Goes(w, {"release"}, {IF IsGit(w) THEN "git" ELSE "tree"}) /\ UNCHANGED <<end, dir, agents>>
    \/ Goes(w, {"git"}, {"tree"}) /\ agents' = agents \ {w} /\ UNCHANGED <<end, dir>>
    \/ /\ Goes(w, {"tree"}, {"over"}) /\ UNCHANGED <<end, agents>>
       /\ dir' = IF TaskStatus(end[w]) = "completed" THEN [dir EXCEPT ![at[w]] = Gone] ELSE dir
Moves == UNCHANGED <<pc, at, end, dir, agents>> \/ \E w \in Wakeup : Move(w)

\* Every step of the specification is one of these.
LEMMA StepMoves ==
  ASSUME Types, [Next]_vars
  PROVE  Moves
<1> USE DEF vars, db, disk, Go, Goes
<1>1. CASE UNCHANGED vars
  BY <1>1 DEF Moves
<1> SUFFICES ASSUME NEW w \in Wakeup,
                    \/ \E t \in Task : Begin(w, t)
                    \/ Provision(w) \/ WriteFile(w) \/ EditNotes(w) \/ Note(w) \/ CleanUp(w)
                    \/ \E how \in {"completed", "quiet", "failed", "error"} : Finish(w, how)
                    \/ Kill(w) \/ ArchiveIsCut(w)
             PROVE  Moves
  BY <1>1 DEF Next
<1>2. CASE \E t \in Task : Begin(w, t)
  BY <1>2 DEF Begin, Move, Moves
<1>3. CASE PrepareDir(w)
  BY <1>3 DEF PrepareDir, Move, Moves, Content
<1>4. ASSUME NEW how \in {"refused", "raised"}, pc[w] \in Provisioning, Quits(w, how),
             \/ how = "refused" /\ agents' = agents \ {w}
             \/ how = "raised" /\ agents' = agents,
             \/ dir' = dir
             \/ pc[w] = "cloning" /\ dir[at[w]].by = w /\ dir' = [dir EXCEPT ![at[w]] = Content("empty", None)]
      PROVE  Moves
  <2>1. pc' = [pc EXCEPT ![w] = "over"] /\ end' = [end EXCEPT ![w] = how] /\ UNCHANGED at
    BY <1>4 DEF Quits
  <2> QED
    BY <1>4, <2>1 DEF GivesUp, Move, Moves
<1>5. CASE MakeKey(w)
  <2>1. pc[w] \in Provisioning /\ dir' = dir
    BY <1>5 DEF MakeKey, Provisioning
  <2>2. Refused(w) \/ Raises(w) \/ (Step(w, "agent") /\ agents' = agents)
    BY <1>5 DEF MakeKey
  <2>3. CASE Step(w, "agent") /\ agents' = agents
    BY <1>5, <2>1, <2>3 DEF MakeKey, Step, Advances, Move, Moves
  <2> QED
    BY <1>4, <2>1, <2>2, <2>3 DEF Refused, Raises
<1>6. CASE StartAgent(w)
  <2>1. pc[w] \in Provisioning /\ dir' = dir
    BY <1>6 DEF StartAgent, Provisioning
  <2>2. CASE Refused(w)
    BY <1>4, <2>1, <2>2 DEF Refused
  <2>3. CASE ~Refused(w)
    BY <1>6, <2>3 DEF StartAgent, Step, Advances, Move, Moves
  <2> QED
    BY <2>2, <2>3
<1>7. CASE AddKey(w)
  <2>1. pc[w] \in Provisioning /\ dir' = dir
    BY <1>7 DEF AddKey, Provisioning
  <2>2. CASE Refused(w) \/ Raises(w)
    BY <1>4, <2>1, <2>2 DEF Refused, Raises
  <2>3. CASE ~(Refused(w) \/ Raises(w))
    BY <1>7, <2>3 DEF AddKey, Step, Advances, Move, Moves
  <2> QED
    BY <2>2, <2>3
<1>8. CASE CloneBegins(w)
  <2>1. pc[w] \in Provisioning
    BY <1>8 DEF CloneBegins, Provisioning
  <2>2. CASE (Refused(w) \/ Raises(w)) /\ dir' = dir
    BY <1>4, <2>1, <2>2 DEF Refused, Raises
  <2>3. CASE dir[at[w]].what = "empty" /\ Step(w, "cloning") /\ Fill(w, "partial") /\ agents' = agents
    BY <1>8, <2>3 DEF CloneBegins, Step, Fill, Advances, Move, Moves
  <2> QED
    BY <1>8, <2>2, <2>3 DEF CloneBegins
<1>9. CASE CloneEnds(w)
  <2>1. pc[w] \in Provisioning /\ pc[w] = "cloning"
    BY <1>9 DEF CloneEnds, Provisioning
  <2>2. CASE dir[at[w]].by = w /\ Step(w, "switch") /\ Fill(w, "base") /\ agents' = agents
    BY <2>1, <2>2 DEF Step, Fill, Advances, Move, Moves
  <2>3. CASE Refused(w) /\ dir' = [dir EXCEPT ![at[w]] = IF dir[at[w]].by = w THEN Content("empty", None) ELSE dir[at[w]]]
    <3>1. [dir EXCEPT ![at[w]] = dir[at[w]]] = dir
      BY DEF Types
    <3> QED
      BY <1>4, <2>1, <2>3, <3>1 DEF Refused
  <2>4. CASE Raises(w) /\ dir' = dir
    BY <1>4, <2>1, <2>4 DEF Raises
  <2> QED
    BY <1>9, <2>2, <2>3, <2>4 DEF CloneEnds
<1>10. CASE SwitchBranch(w)
  <2>1. pc[w] \in Provisioning
    BY <1>10 DEF SwitchBranch, Provisioning
  <2>2. CASE (Refused(w) \/ Raises(w)) /\ dir' = dir
    BY <1>4, <2>1, <2>2 DEF Refused, Raises
  <2>3. CASE dir[at[w]] = Content("base", w) /\ Step(w, "work") /\ Fill(w, "target") /\ agents' = agents
    BY <1>10, <2>3 DEF SwitchBranch, Step, Fill, Advances, Move, Moves
  <2> QED
    BY <1>10, <2>2, <2>3 DEF SwitchBranch
<1>11. CASE WriteFile(w)
  BY <1>11 DEF WriteFile, Move, Moves
<1>12. CASE EditNotes(w)
  BY <1>12 DEF EditNotes, Moves
<1>13. CASE \E how \in {"completed", "quiet", "failed", "error"} : Finish(w, how)
  BY <1>13 DEF Finish, Move, Moves
<1>14. CASE Note(w)
  BY <1>14 DEF Note, Summarize, ReadNotes, FindStray, AppendEntry, UnlinkStray, ReadOverfull, ReadIds, Archive,
     RewriteNotes, NotesFail, Notes, Errs, At, Noting, Move, Moves
<1>15. CASE Kill(w)
  BY <1>15 DEF Kill, Move, Moves
<1>19. CASE ArchiveIsCut(w)
  <2>1. pc[w] = "archive" /\ UNCHANGED <<at, end, dir, agents>>
        /\ (pc' = [pc EXCEPT ![w] = "killed"] \/ pc' = [pc EXCEPT ![w] = "release"])
    BY <1>19 DEF ArchiveIsCut, Errs, At
  <2> QED
    BY <2>1 DEF Alive, Noting, Move, Moves
<1>16. CASE Release(w)
  BY <1>16 DEF Release, Clean, Move, Moves
<1>17. CASE CleanGit(w)
  BY <1>17 DEF CleanGit, Clean, Move, Moves
<1>18. CASE CleanTree(w)
  BY <1>18 DEF CleanTree, Clean, Move, Moves
<1> QED
  BY <1>2, <1>3, <1>5, <1>6, <1>7, <1>8, <1>9, <1>10, <1>11, <1>12, <1>13, <1>14, <1>15, <1>16, <1>17, <1>18, <1>19
  DEF Provision, CleanUp

-----------------------------------------------------------------------------
(* The types. *)

\* Wakeups and what is in a directory are of their types.
LEMMA Rows ==
  /\ None = 0 /\ \A w \in Wakeup : w \in Nat /\ w # None
  /\ \A what \in {"none", "empty", "files", "partial", "base", "target"}, by \in WId :
        /\ Content(what, by) \in DirRow
        /\ Content(what, by).what = what /\ Content(what, by).by = by
  /\ Gone \in DirRow /\ Gone.what = "none"
<1>1. None = 0 /\ Wakeup = 1..Cardinality(Wakeup)
  BY WorkspaceAssumption
<1>2. \A w \in Wakeup : w \in Nat /\ w # None
  <2>1. ASSUME NEW n, NEW w \in 1..n PROVE w \in Int /\ 1 <= w
    OBVIOUS
  <2>2. \A w \in Wakeup : w \in Int /\ 1 <= w
    BY ONLY <1>1, <2>1
  <2>3. \A w : w \in Int /\ 1 <= w => w \in Nat /\ w # 0
    OBVIOUS
  <2> QED
    BY ONLY <1>1, <2>2, <2>3
<1>3. /\ \A what \in {"none", "empty", "files", "partial", "base", "target"}, by \in WId :
            /\ Content(what, by) \in DirRow
            /\ Content(what, by).what = what /\ Content(what, by).by = by
      /\ Gone \in DirRow /\ Gone.what = "none"
  BY DEF Content, Gone, DirRow, WId
<1> QED
  BY <1>1, <1>2, <1>3

\* A step keeps the types of what it moves.
LEMMA MovesTyped ==
  ASSUME Types, Moves
  PROVE  /\ pc' \in [Wakeup -> Place] /\ at' \in [Wakeup -> {None} \cup Task]
         /\ end' \in [Wakeup -> {"none"} \cup Endings]
         /\ dir' \in [Task -> DirRow] /\ agents' \subseteq Wakeup
<1>1. CASE UNCHANGED <<pc, at, end, dir, agents>>
  BY <1>1 DEF Types
<1> SUFFICES ASSUME NEW w \in Wakeup, Move(w)
             PROVE  /\ pc' \in [Wakeup -> Place] /\ at' \in [Wakeup -> {None} \cup Task]
                    /\ end' \in [Wakeup -> {"none"} \cup Endings]
                    /\ dir' \in [Task -> DirRow] /\ agents' \subseteq Wakeup
  BY <1>1 DEF Moves
<1> USE DEF Goes
<1>2. pc' = pc \/ \E place \in Place : pc' = [pc EXCEPT ![w] = place]
  BY DEF Move, GivesUp, Advances, Place, Alive, Provisioning, Noting, Cleaning
<1>3. at' = at \/ \E t \in Task : at' = [at EXCEPT ![w] = t]
  BY DEF Move, GivesUp, Advances
<1>4. end' = end \/ \E how \in Endings : end' = [end EXCEPT ![w] = how]
  BY DEF Move, GivesUp, Advances, Endings
<1>5. dir' = dir \/ \E c \in DirRow : dir' = [dir EXCEPT ![at[w]] = c]
  <2>1. None \in WId /\ w \in WId
    BY DEF WId
  <2> QED
    BY <2>1, Rows DEF Move, GivesUp, Advances
<1>6. agents' \subseteq Wakeup
  BY DEF Move, GivesUp, Advances, Types
<1>7. pc' \in [Wakeup -> Place]
  BY <1>2 DEF Types
<1>8. at' \in [Wakeup -> {None} \cup Task]
  BY <1>3 DEF Types
<1>9. end' \in [Wakeup -> {"none"} \cup Endings]
  BY <1>4 DEF Types
<1>10. dir' \in [Task -> DirRow]
  BY <1>5 DEF Types
<1> QED
  BY <1>6, <1>7, <1>8, <1>9, <1>10

\* Every step keeps the types of the tables and of the disk.
LEMMA TypesStep ==
  ASSUME Types, Placed, [Next]_vars
  PROVE  Types'
<1> USE DEF vars, db, disk, book
<1>1. /\ pc' \in [Wakeup -> Place] /\ at' \in [Wakeup -> {None} \cup Task]
      /\ end' \in [Wakeup -> {"none"} \cup Endings]
      /\ dir' \in [Task -> DirRow] /\ agents' \subseteq Wakeup
  BY StepMoves, MovesTyped
<1> SUFFICES /\ status' \in [Task -> {"pending", "in_progress", "completed", "failed"}]
             /\ holder' \in [Task -> WId] /\ rows' \subseteq Wakeup /\ ssh' \in [Task -> SUBSET {"key", "pub"}]
             /\ faults' \in 0..bound.faults /\ bound' = bound
  BY <1>1 DEF Types
<1>2. bound.faults \in Nat /\ faults \in 0..bound.faults
  BY WorkspaceAssumption DEF Types
<1>3. bound' = bound
  BY DEF Next
<1>4. faults' = faults \/ (faults < bound.faults /\ faults' = faults + 1)
  <2>1. CASE UNCHANGED vars
    BY <2>1
  <2> SUFFICES ASSUME NEW w \in Wakeup,
                      \/ \E t \in Task : Begin(w, t)
                      \/ Provision(w) \/ WriteFile(w) \/ EditNotes(w) \/ Note(w) \/ CleanUp(w)
                      \/ \E how \in {"completed", "quiet", "failed", "error"} : Finish(w, how)
                      \/ Kill(w) \/ ArchiveIsCut(w)
               PROVE  faults' = faults \/ (faults < bound.faults /\ faults' = faults + 1)
    BY <2>1 DEF Next
  <2>2. ASSUME NEW kind, Fault(kind)
        PROVE  faults < bound.faults /\ faults' = faults + 1
    BY <2>2 DEF Fault
  <2> QED
    BY <2>2 DEF Begin, MayRun, Provision, PrepareDir, MakeKey, Step, Refused, Raises, StartAgent,
     AddKey, CloneBegins, CloneEnds, SwitchBranch, WriteFile, EditNotes, Note, Summarize, ReadNotes,
     FindStray, AppendEntry, UnlinkStray, ReadOverfull, ReadIds, Archive, RewriteNotes, NotesFail, Notes,
     Errs, At, CleanUp, Release, CleanGit, CleanTree, Clean, Finish, Kill, ArchiveIsCut
<1>5. faults' \in 0..bound.faults
  BY <1>2, <1>4
<1> SUFFICES ASSUME NEW w \in Wakeup,
                    \/ \E t \in Task : Begin(w, t)
                    \/ Provision(w) \/ WriteFile(w) \/ EditNotes(w) \/ Note(w) \/ CleanUp(w)
                    \/ \E how \in {"completed", "quiet", "failed", "error"} : Finish(w, how)
                    \/ Kill(w) \/ ArchiveIsCut(w)
             PROVE  /\ status' \in [Task -> {"pending", "in_progress", "completed", "failed"}]
                    /\ holder' \in [Task -> WId] /\ rows' \subseteq Wakeup
                    /\ ssh' \in [Task -> SUBSET {"key", "pub"}]
  <2>1. CASE UNCHANGED vars
    BY <2>1, <1>3, <1>5 DEF Types
  <2> QED
    BY <1>3, <1>5, <2>1 DEF Next
<1>6. status' = status \/ \E t \in Task, s \in {"pending", "in_progress", "completed", "failed"} :
                              status' = [status EXCEPT ![t] = s]
  <2>1. ~(pc[w] = "idle") => at[w] \in Task
    BY DEF Placed
  <2>2. \A how : TaskStatus(how) \in {"completed", "failed"}
    BY DEF TaskStatus
  <2>3. CASE \E how : Quits(w, how) /\ pc[w] # "idle"
    BY <2>1, <2>3 DEF Quits
  <2>4. CASE \E t \in Task : Begin(w, t)
    BY <2>4 DEF Begin
  <2>5. CASE \E how \in {"completed", "quiet", "failed", "error"} : Finish(w, how)
    BY <2>1, <2>2, <2>5 DEF Finish
  <2>6. CASE Provision(w)
    BY <2>3, <2>6 DEF Provision, PrepareDir, MakeKey, Step, Refused, Raises, StartAgent, AddKey,
       CloneBegins, CloneEnds, SwitchBranch
  <2> QED
    BY <2>4, <2>5, <2>6 DEF WriteFile, EditNotes, Note, Summarize, ReadNotes,
     FindStray, AppendEntry, UnlinkStray, ReadOverfull, ReadIds, Archive, RewriteNotes, NotesFail, Notes,
     Errs, At, CleanUp, Release, CleanGit, CleanTree, Clean, Kill, ArchiveIsCut
<1>7. holder' = holder \/ \E t \in Task, v \in WId : holder' = [holder EXCEPT ![t] = v]
  <2>1. pc[w] # "idle" => at[w] \in Task
    BY DEF Placed
  <2>2. w \in WId /\ None \in WId
    BY DEF WId
  <2>3. CASE \E how : Quits(w, how) /\ pc[w] # "idle"
    BY <2>1, <2>2, <2>3 DEF Quits
  <2>4. CASE \E t \in Task : Begin(w, t)
    BY <2>2, <2>4 DEF Begin
  <2>5. CASE Provision(w)
    BY <2>3, <2>5 DEF Provision, PrepareDir, MakeKey, Step, Refused, Raises, StartAgent, AddKey,
       CloneBegins, CloneEnds, SwitchBranch
  <2> QED
    BY <2>1, <2>2, <2>4, <2>5 DEF WriteFile, EditNotes, Note, Summarize, ReadNotes, Finish,
     FindStray, AppendEntry, UnlinkStray, ReadOverfull, ReadIds, Archive, RewriteNotes, NotesFail, Notes,
     Errs, At, CleanUp, Release, CleanGit, CleanTree, Clean, Kill, ArchiveIsCut
<1>8. rows' \subseteq Wakeup
  BY DEF Types, Begin, Provision, PrepareDir, MakeKey, Step, Refused, Raises, Quits, StartAgent, AddKey,
     CloneBegins, CloneEnds, SwitchBranch, WriteFile, EditNotes, Note, Summarize, ReadNotes, Finish,
     FindStray, AppendEntry, UnlinkStray, ReadOverfull, ReadIds, Archive, RewriteNotes, NotesFail, Notes,
     Errs, At, CleanUp, Release, CleanGit, CleanTree, Clean, Kill, ArchiveIsCut
<1>9. ssh' = ssh \/ \E keys \in SUBSET {"key", "pub"} : ssh' = [ssh EXCEPT ![at[w]] = keys]
  BY DEF Begin, Provision, PrepareDir, MakeKey, Leave, Step, Refused, Raises, StartAgent, AddKey,
     CloneBegins, CloneEnds, SwitchBranch, WriteFile, EditNotes, Note, Summarize, ReadNotes, Finish,
     FindStray, AppendEntry, UnlinkStray, ReadOverfull, ReadIds, Archive, RewriteNotes, NotesFail, Notes,
     Errs, At, CleanUp, Release, CleanGit, CleanTree, Clean, Kill, ArchiveIsCut
<1>10. status' \in [Task -> {"pending", "in_progress", "completed", "failed"}]
  BY <1>6 DEF Types
<1>11. holder' \in [Task -> WId]
  BY <1>7 DEF Types
<1>12. ssh' \in [Task -> SUBSET {"key", "pub"}]
  BY <1>9 DEF Types
<1> QED
  BY <1>8, <1>10, <1>11, <1>12

-----------------------------------------------------------------------------
(* The disk. *)

\* The values in a step of one worker: its own, and what stays.
LEMMA Others ==
  ASSUME Types, Types', NEW w \in Wakeup, Move(w)
  PROVE  /\ \A v \in Wakeup \ {w} : /\ pc'[v] = pc[v] /\ at'[v] = at[v] /\ end'[v] = end[v]
                                    /\ v \in agents' <=> v \in agents
         /\ pc[w] # "idle" => at'[w] = at[w]
         /\ pc[w] \notin Provisioning \cup {"work"} => end'[w] = end[w]
         /\ \A t \in Task : t = at[w] \/ dir'[t] = dir[t]
<1> USE DEF Goes
<1>1. \A v \in Wakeup \ {w} : pc'[v] = pc[v]
  <2>1. pc' = pc \/ \E place : pc' = [pc EXCEPT ![w] = place]
    BY DEF Move, GivesUp, Advances
  <2> QED
    BY <2>1 DEF Types
<1>2. \A v \in Wakeup \ {w} : at'[v] = at[v]
  <2>1. at' = at \/ \E t : at' = [at EXCEPT ![w] = t]
    BY DEF Move, GivesUp, Advances
  <2> QED
    BY <2>1 DEF Types
<1>3. \A v \in Wakeup \ {w} : end'[v] = end[v]
  <2>1. end' = end \/ \E how : end' = [end EXCEPT ![w] = how]
    BY DEF Move, GivesUp, Advances
  <2> QED
    BY <2>1 DEF Types
<1>4. \A v \in Wakeup \ {w} : v \in agents' <=> v \in agents
  BY DEF Move, GivesUp, Advances
<1>5. pc[w] # "idle" => at'[w] = at[w]
  BY DEF Move, GivesUp, Advances
<1>6. pc[w] \notin Provisioning \cup {"work"} => end'[w] = end[w]
  BY DEF Move, GivesUp, Advances, Provisioning
<1>7. \A t \in Task : t = at[w] \/ dir'[t] = dir[t]
  <2>1. dir' = dir \/ \E c : dir' = [dir EXCEPT ![at[w]] = c]
    BY DEF Move, GivesUp, Advances
  <2> QED
    BY <2>1 DEF Types
<1> QED
  BY <1>1, <1>2, <1>3, <1>4, <1>5, <1>6, <1>7

\* The moves of a worker, place by place.
\* The moves of a worker, place by place, and what they do to its own directory.
Moved(w) ==
    \/ pc[w] = "idle" /\ pc'[w] = "dir" /\ at'[w] \in Task /\ UNCHANGED <<end, dir, agents>>
    \/ /\ pc[w] # "idle" /\ at'[w] = at[w]
       /\ \/ pc'[w] = "killed" /\ UNCHANGED <<end, dir, agents>>
          \/ /\ pc[w] = "dir" /\ pc'[w] = (IF IsGit(w) THEN "key" ELSE "work")
             /\ UNCHANGED <<end, agents>>
             /\ at[w] \in Task => dir'[at[w]] = IF dir[at[w]] = Gone THEN Content("empty", None)
                                                                      ELSE dir[at[w]]
          \/ GivesUp(w) \/ Advances(w)
          \/ /\ pc[w] = "work" /\ UNCHANGED <<pc, end, agents>>
             /\ dir[at[w]].what \in {"empty", "files"}
             /\ at[w] \in Task => dir'[at[w]] = Content("files", w)
          \/ /\ pc[w] = "work" /\ pc'[w] \in {"release", "summary"} /\ UNCHANGED <<dir, agents>>
             /\ end'[w] \in Endings \ {"raised", "refused"}
          \/ pc[w] \in Noting /\ pc'[w] \in Noting \cup {"release"} /\ UNCHANGED <<end, dir, agents>>
          \/ /\ pc[w] = "release" /\ pc'[w] = (IF IsGit(w) THEN "git" ELSE "tree")
             /\ UNCHANGED <<end, dir, agents>>
          \/ pc[w] = "git" /\ pc'[w] = "tree" /\ agents' = agents \ {w} /\ UNCHANGED <<end, dir>>
          \/ /\ pc[w] = "tree" /\ pc'[w] = "over" /\ UNCHANGED <<end, agents>>
             /\ IF TaskStatus(end[w]) = "completed"
                THEN at[w] \in Task => dir'[at[w]] = Gone
                ELSE dir' = dir

\* Every move is one of these.
LEMMA Mover ==
  ASSUME Types, Types', NEW w \in Wakeup, Move(w)
  PROVE  Moved(w)
<1> USE DEF Goes, Types
<1>1. CASE \E t \in Task : /\ pc[w] = "idle" /\ pc' = [pc EXCEPT ![w] = "dir"]
                           /\ at' = [at EXCEPT ![w] = t] /\ UNCHANGED <<end, dir, agents>>
  BY <1>1 DEF Moved
<1>2. CASE Goes(w, Alive, {"killed"}) /\ UNCHANGED <<end, dir, agents>>
  BY <1>2 DEF Moved, Alive, Provisioning, Noting, Cleaning
<1>3. CASE /\ Goes(w, {"dir"}, {IF IsGit(w) THEN "key" ELSE "work"}) /\ UNCHANGED <<end, agents>>
           /\ dir' = IF dir[at[w]] = Gone THEN [dir EXCEPT ![at[w]] = Content("empty", None)] ELSE dir
  BY <1>3 DEF Moved
<1>4. CASE GivesUp(w) \/ Advances(w)
  BY <1>4 DEF Moved, GivesUp, Advances, Provisioning
<1>5. CASE /\ pc[w] = "work" /\ dir[at[w]].what \in {"empty", "files"}
           /\ dir' = [dir EXCEPT ![at[w]] = Content("files", w)] /\ UNCHANGED <<pc, at, end, agents>>
  BY <1>5 DEF Moved
<1>6. CASE /\ Goes(w, {"work"}, {"release", "summary"}) /\ UNCHANGED <<dir, agents>>
           /\ \E how \in {"completed", "quiet", "failed", "error"} : end' = [end EXCEPT ![w] = how]
  BY <1>6 DEF Moved, Endings
<1>7. CASE Goes(w, Noting, Noting \cup {"release"}) /\ UNCHANGED <<end, dir, agents>>
  BY <1>7 DEF Moved, Noting
<1>8. CASE Goes(w, {"release"}, {IF IsGit(w) THEN "git" ELSE "tree"}) /\ UNCHANGED <<end, dir, agents>>
  BY <1>8 DEF Moved
<1>9. CASE Goes(w, {"git"}, {"tree"}) /\ agents' = agents \ {w} /\ UNCHANGED <<end, dir>>
  BY <1>9 DEF Moved
<1>10. CASE /\ Goes(w, {"tree"}, {"over"}) /\ UNCHANGED <<end, agents>>
            /\ dir' = IF TaskStatus(end[w]) = "completed" THEN [dir EXCEPT ![at[w]] = Gone] ELSE dir
  BY <1>10 DEF Moved
<1> QED
  BY <1>1, <1>2, <1>3, <1>4, <1>5, <1>6, <1>7, <1>8, <1>9, <1>10 DEF Move

\* A worker stays on the task it was given.
LEMMA PlacedStep ==
  ASSUME Types, Placed, Types', Moves
  PROVE  Placed'
<1>1. CASE UNCHANGED <<pc, at, end, dir, agents>>
  BY <1>1 DEF Placed, IsGit
<1> SUFFICES ASSUME NEW w \in Wakeup, Move(w) PROVE Placed'
  BY <1>1 DEF Moves
<1>2. \A v \in Wakeup \ {w} : /\ pc'[v] = pc[v] /\ at'[v] = at[v] /\ end'[v] = end[v]
  BY Others
<1>3. /\ pc'[w] # "idle" => at'[w] \in Task
      /\ pc'[w] \in Provisioning => IsGit(w)'
      /\ end'[w] # "none" => pc'[w] \in Closing \cup {"over", "killed"}
  BY Mover DEF Moved, Placed, IsGit, Closing, Types, GivesUp, Advances, Goes, Place, Alive, Provisioning, Noting, Cleaning, Endings
<1> QED
  BY <1>2, <1>3 DEF Placed, IsGit

\* An ssh-agent is started for a git task alone, and is there until it is stopped.
LEMMA AgentsOfStep ==
  ASSUME Types, Placed, AgentsOf, Types', Moves
  PROVE  AgentsOf'
<1>1. CASE UNCHANGED <<pc, at, end, dir, agents>>
  BY <1>1 DEF AgentsOf, IsGit
<1> SUFFICES ASSUME NEW w \in Wakeup, Move(w) PROVE AgentsOf'
  BY <1>1 DEF Moves
<1>2. \A v \in Wakeup \ {w} : /\ pc'[v] = pc[v] /\ at'[v] = at[v]
                              /\ v \in agents' <=> v \in agents
  BY Others
<1>3. /\ w \in agents' => IsGit(w)' /\ pc'[w] \notin {"idle", "dir", "key", "agent", "tree"}
      /\ pc'[w] \in {"add", "clone", "cloning", "switch"} \/ (pc'[w] = "work" /\ IsGit(w)') => w \in agents'
  BY Mover DEF Moved, Placed, AgentsOf, IsGit, Types, GivesUp, Advances, Goes, Provisioning, Noting
<1> QED
  BY <1>2, <1>3 DEF AgentsOf, IsGit, Types

\* Another worker leaves the checkout of a worker alone: it fills, keeps or removes only
\* an empty directory and what is its own.
LEMMA CheckoutsStep ==
  ASSUME Types, Placed, Checkouts, Types', Moves
  PROVE  Checkouts'
<1>1. CASE UNCHANGED <<pc, at, end, dir, agents>>
  BY <1>1 DEF Checkouts, Checkout, IsGit
<1> SUFFICES ASSUME NEW w \in Wakeup, Move(w) PROVE Checkouts'
  BY <1>1 DEF Moves
<1>2. \A v \in Wakeup \ {w} : pc'[v] = pc[v] /\ at'[v] = at[v]
  BY Others
<1>3. Moved(w)
  BY Mover
<1>4. \A what \in {"none", "empty", "files", "partial", "base", "target"}, by \in WId :
         Content(what, by).what = what /\ Content(what, by).by = by
  BY Rows
<1>5. Gone.what = "none" /\ \A v \in Wakeup : v \in WId
  BY Rows DEF WId
<1>6. ASSUME NEW v \in Wakeup, v # w, IsGit(v), Checkout(v),
             pc[v] \in {"cloning", "switch", "work"} \cup Closing
      PROVE  dir'[at[v]] = dir[at[v]]
  <2>1. at[v] \in Task
    BY <1>6 DEF Placed, Closing, Noting, Cleaning
  <2>2. CASE at[w] # at[v]
    BY <2>1, <2>2, Others
  <2>3. dir[at[v]].by = v /\ dir[at[v]].what \in {"partial", "base", "target"}
    BY <1>4, <1>5, <1>6 DEF Checkout
  <2>4. CASE at[w] = at[v] /\ pc[w] # "tree"
    <3>1. dir[at[v]] # Gone
      BY <1>5, <2>3
    <3>2. dir' = dir \/ dir'[at[v]] = dir[at[v]]
      BY <1>3, <1>6, <2>1, <2>3, <2>4, <3>1, <1>4, <1>5 DEF Moved, GivesUp, Advances, Goes
    <3> QED
      BY <3>2
  <2>5. CASE at[w] = at[v] /\ pc[w] = "tree"
    <3>1. IsGit(w) /\ dir[at[w]] = Content("target", w)
      BY <1>6, <2>5 DEF IsGit, Checkouts, Checkout, Closing, Cleaning
    <3> QED
      BY <1>4, <1>5, <1>6, <2>3, <2>5, <3>1
  <2> QED
    BY <2>2, <2>4, <2>5
<1>7. \A v \in Wakeup \ {w} : IsGit(v)' => Checkout(v)'
  BY <1>2, <1>6 DEF Checkouts, Checkout, IsGit
<1>8. ASSUME IsGit(w)' PROVE Checkout(w)'
  <2>1. CASE pc[w] = "idle"
    BY <1>3, <2>1 DEF Moved, Checkout, GivesUp, Advances, Goes, Provisioning, Closing, Noting, Cleaning
  <2>2. CASE pc[w] # "idle"
    <3>1. at[w] \in Task /\ at'[w] = at[w] /\ Checkout(w) /\ IsGit(w)
      BY <1>8, <2>2, Others DEF Placed, Checkouts, IsGit
    <3>2. CASE GivesUp(w)
      BY <3>1, <3>2 DEF GivesUp, Goes, Checkout, Closing, Noting, Cleaning, Types
    <3>3. CASE Advances(w)
      BY <3>1, <3>3 DEF Advances, Goes, Checkout, Closing, Noting, Cleaning, Types
    <3>4. CASE pc[w] = "work" /\ UNCHANGED pc /\ dir[at[w]].what \in {"empty", "files"}
      BY <1>4, <1>5, <3>1, <3>4 DEF Checkout
    <3> QED
      BY <1>3, <2>2, <3>1, <3>2, <3>3, <3>4 DEF Moved, Checkout, Closing, Noting, Cleaning
  <2> QED
    BY <2>1, <2>2
<1> QED
  BY <1>7, <1>8 DEF Checkouts

\* An ending that was a success stays one.
LEMMA SuccessStays ==
  ASSUME Types, Placed, Types', Moves, NEW v \in Wakeup, Succeeded(v)
  PROVE  at'[v] = at[v] /\ Succeeded(v)'
<1>1. CASE UNCHANGED <<pc, at, end, dir, agents>>
  BY <1>1 DEF Succeeded
<1>2. ASSUME NEW w \in Wakeup, Move(w)
      PROVE  at'[v] = at[v] /\ end'[v] = end[v]
  <2>1. pc[v] \in Closing \cup {"over", "killed"}
    BY DEF Placed, Succeeded
  <2>2. pc[v] # "idle" /\ pc[v] \notin Provisioning \cup {"work"}
    BY <2>1 DEF Closing, Noting, Cleaning, Provisioning
  <2> QED
    BY <1>2, <2>2, Others
<1> QED
  BY <1>1, <1>2 DEF Moves, Succeeded

\* A directory goes when its task was done, or a worker had success at it.
LEMMA KeptStep ==
  ASSUME Types, Placed, SandboxIsKept, Types', Moves
  PROVE  SandboxIsKept'
<1>1. CASE UNCHANGED <<pc, at, end, dir, agents>>
  BY <1>1 DEF SandboxIsKept, Succeeded
<1> SUFFICES ASSUME NEW w \in Wakeup, Move(w),
                    NEW v \in Wakeup, pc'[v] \notin {"idle", "dir", "killed"}, dir'[at'[v]] = Gone
             PROVE  \E u \in Wakeup : at'[u] = at'[v] /\ Succeeded(u)'
  BY <1>1 DEF Moves, SandboxIsKept
<1>2. Moved(w)
  BY Mover
<1>3. pc[v] \notin {"idle", "killed"} /\ at'[v] = at[v] /\ at[v] \in Task
  <2>1. CASE v # w
    BY <2>1, Others DEF Placed
  <2>2. CASE v = w
    BY <1>2, <2>2, Others DEF Moved, Placed, GivesUp, Advances, Goes, Provisioning, Noting
  <2> QED
    BY <2>1, <2>2
<1>4. \A what \in {"none", "empty", "files", "partial", "base", "target"}, by \in WId :
         Content(what, by).what = what
  BY Rows
<1>5. Gone.what = "none" /\ None \in WId /\ \A u \in Wakeup : u \in WId
  BY Rows DEF WId
<1>6. CASE dir[at[v]] = Gone /\ pc[v] # "dir"
  <2>1. PICK u \in Wakeup : at[u] = at[v] /\ Succeeded(u)
    BY <1>3, <1>6 DEF SandboxIsKept
  <2> QED
    BY <1>3, <2>1, SuccessStays
<1>7. CASE dir[at[v]] = Gone /\ pc[v] = "dir"
  <2>1. v = w
    BY <1>7, Others
  <2>2. dir'[at[w]] = Content("empty", None)
    BY <1>2, <1>3, <1>7, <2>1 DEF Moved, GivesUp, Advances, Goes, Provisioning, Noting
  <2> QED
    BY <1>3, <1>4, <1>5, <2>1, <2>2
<1>8. CASE dir[at[v]] # Gone
  <2>1. at[w] = at[v] /\ dir' # dir
    BY <1>3, <1>8, Others
  <2>2. pc[w] = "tree" /\ TaskStatus(end[w]) = "completed" /\ at'[w] = at[w] /\ end' = end
    <3>1. ~GivesUp(w)
      BY <1>3, <1>4, <1>5, <2>1 DEF GivesUp, Types
    <3>2. ~Advances(w)
      BY <1>3, <1>4, <1>5, <2>1 DEF Advances, Types
    <3> QED
      BY <1>2, <1>3, <1>4, <1>5, <1>8, <2>1, <3>1, <3>2 DEF Moved
  <2>3. end[w] # "none"
    BY <2>2 DEF TaskStatus
  <2> QED
    BY <1>3, <2>1, <2>2, <2>3 DEF Succeeded
<1> QED
  BY <1>6, <1>7, <1>8

\* A worker that ends has stopped its ssh-agent, unless a command hung.
LEMMA StoppedStep ==
  ASSUME Types, AgentsOf, AgentIsStopped, Types', Moves
  PROVE  AgentIsStopped'
<1>1. CASE UNCHANGED <<pc, at, end, dir, agents>>
  BY <1>1 DEF AgentIsStopped
<1> SUFFICES ASSUME NEW w \in Wakeup, Move(w) PROVE AgentIsStopped'
  BY <1>1 DEF Moves
<1>2. \A v \in Wakeup \ {w} : /\ pc'[v] = pc[v] /\ end'[v] = end[v]
                              /\ v \in agents' <=> v \in agents
  BY Others
<1>3. w \in agents' /\ pc'[w] = "over" => end'[w] = "raised"
  BY Mover DEF Moved, AgentsOf, AgentIsStopped, Types, GivesUp, Advances, Goes, Noting
<1> QED
  BY <1>2, <1>3 DEF AgentIsStopped, Types

-----------------------------------------------------------------------------
(* The theorem. *)

\* The first state has no sandbox, no worker and no ssh-agent.
LEMMA IInvInit ==
  ASSUME Init
  PROVE  IInv
<1>1. Types
  <2>1. bound.faults \in Nat
    BY WorkspaceAssumption DEF Init
  <2>2. Gone \in DirRow /\ None \in WId
    BY Rows DEF WId
  <2> QED
    BY <2>1, <2>2 DEF Init, Types, Place
<1> QED
  BY <1>1 DEF IInv, Init, Placed, AgentsOf, Checkouts, Checkout, SandboxIsKept, AgentIsStopped, Closing,
     Noting, Cleaning, Provisioning

\* Every step keeps the invariant.
LEMMA IInvStep ==
  ASSUME IInv, [Next]_vars
  PROVE  IInv'
<1>1. Types /\ Placed /\ AgentsOf /\ Checkouts /\ SandboxIsKept /\ AgentIsStopped
  BY DEF IInv
<1>2. Types' /\ Moves
  BY <1>1, TypesStep, StepMoves
<1>3. Placed' /\ AgentsOf' /\ Checkouts' /\ SandboxIsKept' /\ AgentIsStopped'
  BY <1>1, <1>2, PlacedStep, AgentsOfStep, CheckoutsStep, KeptStep, StoppedStep
<1> QED
  BY <1>2, <1>3 DEF IInv

\* Attempts at a task overlap when one that stalls, or is thought dead, is overtaken, and
\* they share its directory. Still a worker on a git task has the checkout that it made
\* itself and a live ssh-agent (git_context.py); the sandbox of a task that was begun is
\* removed by a success alone (worktree.py, cleanup); and an ssh-agent outlives its worker
\* only after a command that hung, or a kill.
THEOREM SandboxHolds == Spec => []SandboxIsSound
<1>1. Init => IInv
  BY IInvInit
<1>2. IInv /\ [Next]_vars => IInv'
  BY IInvStep
<1>3. IInv => SandboxIsSound
  BY DEF IInv, SandboxIsSound, CheckoutIsOwn, Checkouts, Checkout, AgentsOf
<1> QED
  BY <1>1, <1>2, <1>3, PTL DEF Spec

-----------------------------------------------------------------------------
(* The notes: what holds of them. *)

Row   == [of : WId, more : SUBSET {Stray}, whole : {TRUE}]
Piece == [of : WId, more : SUBSET {Stray}, whole : BOOLEAN]

\* Where a worker is that has not written its entry yet.
Before == {"idle", "dir", "work", "summary", "read", "fold", "write"} \cup Provisioning

\* What a notes file looks like: an entry is there once, None's, of an old version, is the
\* last; the stray text is there once.
Shape(n) ==
    /\ n \in Books
    /\ \A i \in 1..Len(n.log) : n.log[i].of = None => (i = Len(n.log) /\ bound.old)
    /\ \A i, j \in 1..Len(n.log) : n.log[i].of = n.log[j].of => i = j
    /\ \A i, j \in 1..Len(n.log) : Stray \in n.log[i].more /\ Stray \in n.log[j].more => i = j
    /\ Stray \in n.head => ~bound.old /\ \A i \in 1..Len(n.log) : Stray \notin n.log[i].more

\* Every stray file was read at once, and removed before the first rotation.
Lost == "find" \in missed
Tame == ~Lost /\ ("unlink" \notin missed \/ archive = <<>>)

\* Then the stray text is below None's entry, or above the log.
Calm(n) ==
    /\ ~Lost /\ ~bound.old => \A i \in 1..Len(n.log) : Stray \notin n.log[i].more
    /\ Tame => \A i \in 1..Len(n.log) : Stray \in n.log[i].more => n.log[i].of = None

\* No entry of a worker that has not written it.
Unwritten(n) == \A v \in Wakeup : pc[v] \in Before => \A i \in 1..Len(n.log) : n.log[i].of # v

Fit(n) == Shape(n) /\ Calm(n) /\ Unwritten(n)

Filled(n)  == bound.old => n.log # <<>>
OldLast(n) == n.log # <<>> /\ n.log[Len(n.log)].of = None

\* The stray text is there, or its place is.
Ready(n) ==
    \/ Lost \/ IsFolded(n)
    \/ bound.old /\ (OldLast(n) \/ ~Tame)
    \/ ~bound.old /\ n.log = <<>>

\* The stray text is in the notes or in the archive, or was below a torn block.
Safe == Stray \in notes.head \cup Texts(notes.log) \/ Stray \in Texts(archive) \/ Torn

Cut(n) == {k \in 1..Len(n.log) : k > KeepRecent}

Reader(w) ==
    /\ Fit(base[w])
    /\ legacy[w] => bound.stray
    /\ pc[w] \in {"fold", "write"} => /\ Filled(base[w])
                                      /\ bound.old /\ archive = <<>> => OldLast(base[w])
    /\ (pc[w] \in {"fold", "ids", "archive", "rewrite"} /\ stray) => Ready(base[w])
    /\ (pc[w] = "write" /\ legacy[w]) => Ready(base[w])
    /\ (pc[w] \in {"write", "unlink"} /\ stray) => legacy[w] \/ Lost
    /\ (pc[w] \in {"rotate", "ids", "archive", "rewrite"} /\ stray) => missed # {}
    /\ pc[w] \in {"ids", "archive", "rewrite"} => IsOverfull(base[w])
    /\ seen[w] # {} => pc[w] = "archive" /\ seen[w] \subseteq Ids(archive)
    /\ pc[w] = "rewrite" => \A k \in Cut(base[w]) : ShortId[base[w].log[k].of] \in Ids(archive)
    /\ (pc[w] = "unlink" /\ legacy[w] /\ ~raced /\ ~Lost) => Safe
    /\ (pc[w] \in {"ids", "archive", "rewrite"} /\ ~raced /\ ~Lost /\ bound.old /\ bound.stray /\ archive = <<>>)
          => OldLast(base[w]) /\ Stray \in base[w].log[Len(base[w].log)].more

Archived ==
    /\ archive \in Seq(Piece) /\ blind \in BOOLEAN
    /\ ~blind => \A i, j \in 1..Len(archive) : archive[i].of = archive[j].of => i = j
    /\ missed = {} => \A i \in 1..Len(archive) : Stray \in archive[i].more => archive[i].of = None

Healed ==
    /\ stray \in BOOLEAN /\ missed \subseteq {"find", "unlink"} /\ (stray => bound.stray /\ Ready(notes))
    /\ (bound.stray /\ ~raced /\ ~Lost) => stray \/ Safe
    /\ (bound.stray /\ ~raced /\ ~Lost /\ "unlink" \in missed) => Safe
    /\ (bound.stray /\ bound.old /\ ~raced /\ ~Lost /\ archive # <<>>) => Torn \/ Stray \in Texts(archive)
    /\ (bound.old /\ archive = <<>>) => OldLast(notes)

Kept ==
    /\ written \subseteq {Hand, Stray} \cup WId /\ raced \in BOOLEAN
    /\ Stray \in written => bound.stray
    /\ ~raced => \A x \in written \cap WId : x \in Entries(notes.log) \/ ShortId[x] \in Ids(archive)
    /\ (~raced /\ Hand \in written) => Hand \in notes.head

\* What was read has its types.
Read == base \in [Wakeup -> Books] /\ legacy \in [Wakeup -> BOOLEAN] /\ seen \in [Wakeup -> SUBSET Nat]

NInv == Read /\ Fit(notes) /\ Filled(notes) /\ Archived /\ Healed /\ Kept /\ \A w \in Wakeup : Reader(w)

-----------------------------------------------------------------------------
(* The operators of the notes. By the least counterexample, the recursion that
   picks what goes to the archive does what it should. *)

\* A set of naturals that is not empty has a least element.
LEMMA Least ==
  ASSUME NEW T, T \subseteq Nat, T # {}
  PROVE  \E m \in T : \A n \in T : m <= n
<1>1. PICK m \in T : \A n \in T : ~(<<n, m>> \in OpToRel(<, Nat))
  BY NatLessThanWellFounded, WFMin
<1>2. \A n \in T : ~(n < m)
  BY <1>1 DEF OpToRel
<1>3. \A n \in T : m <= n
  BY <1>2
<1> QED
  BY <1>3

\* The rows of s whose key is not in ids, as a recursion over s.
IsTaken(f, n, s, key, ids) ==
    f = [i \in 0..n |-> IF i = 0 THEN <<>>
                        ELSE IF key[s[i].of] \in ids THEN f[i - 1]
                        ELSE Append(f[i - 1], s[i])]

\* There is such a recursion.
LEMMA TakenIs ==
  ASSUME NEW s, NEW key, NEW ids, NEW n \in Nat
  PROVE  \E f : IsTaken(f, n, s, key, ids)
<1> DEFINE T == {m \in Nat : ~\E f : IsTaken(f, m, s, key, ids)}
<1> SUFFICES ASSUME n \in T PROVE FALSE
  OBVIOUS
<1>1. PICK m \in T : \A k \in T : m <= k
  BY Least
<1>2. CASE m = 0
  <2> DEFINE f == [i \in 0..0 |-> <<>>]
  <2>1. IsTaken(f, 0, s, key, ids)
    BY DEF IsTaken
  <2> QED
    BY <1>2, <2>1
<1>3. CASE m # 0
  <2>1. m \in Nat /\ m - 1 \in Nat /\ m - 1 \notin T
    BY <1>1, <1>3
  <2>2. PICK g : IsTaken(g, m - 1, s, key, ids)
    BY <2>1
  <2> DEFINE f == [i \in 0..m |-> IF i = 0 THEN <<>>
                                  ELSE IF key[s[i].of] \in ids THEN g[i - 1]
                                  ELSE Append(g[i - 1], s[i])]
  <2>a. \A i \in 0..m - 1 : g[i] = IF i = 0 THEN <<>>
                                   ELSE IF key[s[i].of] \in ids THEN g[i - 1]
                                   ELSE Append(g[i - 1], s[i])
    BY <2>2 DEF IsTaken
  <2>3. \A i \in 0..m - 1 : f[i] = g[i]
    BY <2>1, <2>a
  <2>4. \A i \in 0..m : f[i] = IF i = 0 THEN <<>>
                               ELSE IF key[s[i].of] \in ids THEN f[i - 1]
                               ELSE Append(f[i - 1], s[i])
    <3> SUFFICES ASSUME NEW i \in 0..m, i # 0 PROVE f[i - 1] = g[i - 1]
      OBVIOUS
    <3>1. i - 1 \in 0..m - 1
      BY <2>1
    <3> QED
      BY <2>3, <3>1
  <2>5. IsTaken(f, m, s, key, ids)
    BY <2>4 DEF IsTaken
  <2> QED
    BY <2>5
<1> QED
  BY <1>2, <1>3

\* What was taken of the first n blocks: where from, in their order.
Places(g, r, n, s, key, ids) ==
    /\ g \in [1..Len(r) -> 1..n]
    /\ \A j \in 1..Len(r) : r[j] = s[g[j]] /\ key[s[g[j]].of] \notin ids
    /\ \A i \in 1..Len(r), j \in 1..Len(r) : i < j => g[i] < g[j]
    /\ \A k \in 1..n : key[s[k].of] \notin ids => \E j \in 1..Len(r) : g[j] = k

\* What it takes is a sequence, and comes from where Places says.
LEMMA TakenFrom ==
  ASSUME NEW S, NEW s \in Seq(S), NEW key, NEW ids, NEW f, IsTaken(f, Len(s), s, key, ids)
  PROVE  f[Len(s)] \in Seq(S) /\ \E g : Places(g, f[Len(s)], Len(s), s, key, ids)
<1> DEFINE Good(i) == f[i] \in Seq(S) /\ \E g : Places(g, f[i], i, s, key, ids)
<1> DEFINE T == {i \in 0..Len(s) : ~Good(i)}
<1>0. Len(s) \in Nat /\ \A i \in 1..Len(s) : s[i] \in S
  OBVIOUS
<1> SUFFICES ASSUME T # {} PROVE FALSE
  BY <1>0
<1>a. T \subseteq Nat
  BY <1>0
<1>1. PICK m \in T : \A k \in T : m <= k
  <2> HIDE DEF T
  <2> QED
    BY <1>a, Least
<1>2. \A i \in 0..Len(s) : f[i] = IF i = 0 THEN <<>>
                                  ELSE IF key[s[i].of] \in ids THEN f[i - 1]
                                  ELSE Append(f[i - 1], s[i])
  BY DEF IsTaken
<1>3. CASE m = 0
  <2>1. f[0] = <<>>
    BY <1>0, <1>2
  <2> DEFINE g == [j \in 1..0 |-> 0]
  <2>2. Places(g, <<>>, 0, s, key, ids)
    BY DEF Places
  <2>3. f[0] \in Seq(S) /\ Places(g, f[0], 0, s, key, ids)
    BY <2>1, <2>2
  <2>4. Good(0)
    BY <2>3
  <2> QED
    BY <1>1, <1>3, <2>4
<1>4. CASE m # 0
  <2>1. m \in 1..Len(s) /\ m - 1 \in 0..Len(s) /\ Good(m - 1) /\ s[m] \in S
    <3>1. m \in 1..Len(s) /\ m - 1 \in 0..Len(s)
      BY <1>0, <1>1, <1>4
    <3>2. m - 1 \notin T
      <4> HIDE DEF T
      <4> QED
        BY <1>1, <3>1
    <3> QED
      BY <1>0, <3>1, <3>2
  <2>2. PICK h : Places(h, f[m - 1], m - 1, s, key, ids)
    BY <2>1
  <2> DEFINE q == f[m - 1]
  <2>3. q \in Seq(S) /\ Len(q) \in Nat
    BY <2>1
  <2> HIDE DEF q
  <2>4. /\ h \in [1..Len(q) -> 1..m - 1]
        /\ \A j \in 1..Len(q) : q[j] = s[h[j]] /\ key[s[h[j]].of] \notin ids
        /\ \A i \in 1..Len(q), j \in 1..Len(q) : i < j => h[i] < h[j]
        /\ \A k \in 1..m - 1 : key[s[k].of] \notin ids => \E j \in 1..Len(q) : h[j] = k
    BY <2>2 DEF Places, q
  <2>5. CASE key[s[m].of] \in ids
    <3>1. f[m] = q
      <4>1. m \in 0..Len(s) /\ m # 0
        BY <1>1, <1>4
      <4> QED
        BY <1>2, <2>5, <4>1 DEF q
    <3>2. Places(h, q, m, s, key, ids)
      <4>1. h \in [1..Len(q) -> 1..m]
        BY <2>1, <2>4
      <4>2. \A k \in 1..m : key[s[k].of] \notin ids => k \in 1..m - 1
        BY <2>1, <2>5
      <4> QED
        BY <2>4, <4>1, <4>2 DEF Places
    <3> QED
      BY <2>3, <3>1, <3>2
  <2>6. CASE key[s[m].of] \notin ids
    <3> DEFINE r == Append(q, s[m])
               g == [j \in 1..Len(q) + 1 |-> IF j = Len(q) + 1 THEN m ELSE h[j]]
    <3>1. f[m] = r
      <4>1. m \in 0..Len(s) /\ m # 0
        BY <1>1, <1>4
      <4> QED
        BY <1>2, <2>6, <4>1 DEF q
    <3>2. /\ r \in Seq(S) /\ Len(r) = Len(q) + 1 /\ r[Len(q) + 1] = s[m]
          /\ \A j \in 1..Len(q) : r[j] = q[j]
      BY <2>1, <2>3
    <3> HIDE DEF r
    <3>g. \A j \in 1..Len(r) : /\ (j = Len(r) => g[j] = m)
                               /\ (j # Len(r) => j \in 1..Len(q) /\ g[j] = h[j] /\ h[j] \in 1..m - 1)
      <4> SUFFICES ASSUME NEW j \in 1..Len(r)
                   PROVE  /\ (j = Len(r) => g[j] = m)
                          /\ (j # Len(r) => j \in 1..Len(q) /\ g[j] = h[j] /\ h[j] \in 1..m - 1)
        OBVIOUS
      <4>1. j \in 1..Len(q) + 1 /\ Len(r) = Len(q) + 1
        BY <3>2
      <4>2. g[j] = IF j = Len(q) + 1 THEN m ELSE h[j]
        BY <4>1
      <4>3. j # Len(q) + 1 => j \in 1..Len(q)
        BY <2>3, <4>1
      <4> QED
        BY <2>4, <4>1, <4>2, <4>3
    <3>h. g = [j \in 1..Len(r) |-> g[j]]
      BY <3>2
    <3> HIDE DEF g
    <3>3. g \in [1..Len(r) -> 1..m]
      <4>1. \A j \in 1..Len(r) : g[j] \in 1..m
        BY <2>1, <3>g
      <4> QED
        BY <3>h, <4>1
    <3>4. \A j \in 1..Len(r) : r[j] = s[g[j]] /\ key[s[g[j]].of] \notin ids
      BY <2>3, <2>4, <2>6, <3>2, <3>g
    <3>5. \A i \in 1..Len(r), j \in 1..Len(r) : i < j => g[i] < g[j]
      <4> SUFFICES ASSUME NEW i \in 1..Len(r), NEW j \in 1..Len(r), i < j PROVE g[i] < g[j]
        OBVIOUS
      <4>1. i # Len(r) /\ i \in 1..Len(q) /\ g[i] = h[i] /\ h[i] \in 1..m - 1
        BY <2>3, <3>2, <3>g
      <4>2. CASE j = Len(r)
        BY <2>1, <3>g, <4>1, <4>2
      <4>3. CASE j # Len(r)
        BY <2>4, <3>g, <4>1, <4>3
      <4> QED
        BY <4>2, <4>3
    <3>6. \A k \in 1..m : key[s[k].of] \notin ids => \E j \in 1..Len(r) : g[j] = k
      <4> SUFFICES ASSUME NEW k \in 1..m, key[s[k].of] \notin ids PROVE \E j \in 1..Len(r) : g[j] = k
        OBVIOUS
      <4>1. CASE k = m
        BY <2>3, <3>2, <3>g, <4>1
      <4>2. CASE k # m
        <5>0. k \in 1..m - 1
          BY <2>1, <4>2
        <5>1. PICK j \in 1..Len(q) : h[j] = k
          BY <2>4, <5>0
        <5>2. j \in 1..Len(r) /\ j # Len(r)
          BY <2>3, <3>2
        <5>3. g[j] = k
          BY <3>g, <5>1, <5>2
        <5> QED
          BY <5>2, <5>3
      <4> QED
        BY <4>1, <4>2
    <3>7. Places(g, r, m, s, key, ids)
      BY <3>3, <3>4, <3>5, <3>6 DEF Places
    <3> QED
      BY <3>1, <3>2, <3>7
  <2>7. Good(m)
    BY <2>5, <2>6
  <2> QED
    BY <1>1, <2>7
<1> QED
  BY <1>3, <1>4

\* What is cut from the log, oldest first.
LEMMA OverflowIs ==
  ASSUME NEW n, Shape(n), IsOverfull(n)
  PROVE  /\ KeepRecent \in Nat /\ 0 < KeepRecent /\ KeepRecent < Len(n.log) /\ Len(n.log) \in Nat
         /\ Overflow(n) \in Seq(Row) /\ Len(Overflow(n)) = Len(n.log) - KeepRecent
         /\ \A i \in 1..Len(n.log) - KeepRecent : Overflow(n)[i] = n.log[Len(n.log) - i + 1]
<1>1. n.log \in Seq(Row) /\ MaxEntries \in Nat /\ MaxEntries > 0 /\ Len(n.log) > MaxEntries
  BY WorkspaceAssumption DEF Shape, Books, Row, IsOverfull, WId
<1>2. Len(n.log) \in Nat /\ \A i \in 1..Len(n.log) : n.log[i] \in Row
  BY <1>1
<1>3. KeepRecent \in Nat /\ 0 < KeepRecent /\ KeepRecent < Len(n.log)
  BY <1>1, <1>2 DEF KeepRecent
<1> DEFINE t == SubSeq(n.log, KeepRecent + 1, Len(n.log))
<1>4. /\ t \in Seq(Row) /\ Len(t) = Len(n.log) - KeepRecent
      /\ \A i \in 1..Len(n.log) - KeepRecent : t[i] = n.log[KeepRecent + i]
  <2>1. \A i \in KeepRecent + 1..Len(n.log) : n.log[i] \in Row
    BY <1>2, <1>3
  <2>2. /\ t \in Seq(Row) /\ Len(t) = IF KeepRecent + 1 <= Len(n.log) THEN Len(n.log) - (KeepRecent + 1) + 1 ELSE 0
        /\ \A i \in 1 .. Len(n.log) - (KeepRecent + 1) + 1 : t[i] = n.log[(KeepRecent + 1) + i - 1]
    <3>1. KeepRecent + 1 \in Int /\ Len(n.log) \in Int
      BY <1>2, <1>3
    <3> QED
      BY <2>1, <3>1, SubSeqProperties
  <2>3. Len(n.log) - (KeepRecent + 1) + 1 = Len(n.log) - KeepRecent
    BY <1>2, <1>3
  <2>4. \A i \in 1..Len(n.log) - KeepRecent : (KeepRecent + 1) + i - 1 = KeepRecent + i
    BY <1>2, <1>3
  <2> QED
    BY <1>2, <1>3, <2>2, <2>3, <2>4
<1> HIDE DEF t
<1>5. Overflow(n) = [i \in 1..Len(n.log) - KeepRecent |-> t[Len(n.log) - KeepRecent - i + 1]]
  BY <1>4 DEF Overflow, Reverse, t
<1>6. \A i \in 1..Len(n.log) - KeepRecent :
         /\ Len(n.log) - KeepRecent - i + 1 \in 1..Len(n.log) - KeepRecent
         /\ KeepRecent + (Len(n.log) - KeepRecent - i + 1) = Len(n.log) - i + 1
         /\ Len(n.log) - i + 1 \in 1..Len(n.log)
  BY <1>2, <1>3
<1>7. \A i \in 1..Len(n.log) - KeepRecent : Overflow(n)[i] = n.log[Len(n.log) - i + 1]
  BY <1>4, <1>5, <1>6
<1>8. Overflow(n) \in [1..Len(n.log) - KeepRecent -> Row]
  BY <1>2, <1>5, <1>6, <1>7
<1>9. Len(n.log) - KeepRecent \in Nat
  BY <1>2, <1>3
<1>10. Overflow(n) \in Seq(Row) /\ Len(Overflow(n)) = Len(n.log) - KeepRecent
  BY <1>8, <1>9
<1> QED
  BY <1>2, <1>3, <1>7, <1>10

\* What goes to the archive is what of the overflow has no piece there under its id.
LEMMA ToArchiveIs ==
  ASSUME NEW n, Overflow(n) \in Seq(Row), NEW known
  PROVE  /\ ToArchive(n, known) \in Seq(Row)
         /\ \E g : Places(g, ToArchive(n, known), Len(Overflow(n)), Overflow(n), ShortId, known)
<1> DEFINE o == Overflow(n)
           taken == CHOOSE f : IsTaken(f, Len(o), o, ShortId, known)
<1>1. Len(o) \in Nat
  OBVIOUS
<1>2. \E f : IsTaken(f, Len(o), o, ShortId, known)
  BY <1>1, TakenIs
<1>3. IsTaken(taken, Len(o), o, ShortId, known)
  BY <1>2
<1>4. ToArchive(n, known) = taken[Len(o)]
  BY DEF ToArchive, IsTaken
<1> QED
  BY <1>3, <1>4, TakenFrom

\* What of the cut log goes to the archive.
LEMMA GoesToArchive ==
  ASSUME NEW n, Shape(n), IsOverfull(n), NEW known, NEW r, r = ToArchive(n, known)
  PROVE  /\ r \in Seq(Row)
         /\ \A j \in 1..Len(r) : /\ ShortId[r[j].of] \notin known
                                 /\ \E k \in 1..Len(n.log) : r[j] = n.log[k]
         /\ \A i, j \in 1..Len(r) : r[i].of = r[j].of => i = j
         /\ \A k \in Cut(n) : ShortId[n.log[k].of] \in known \/ \E j \in 1..Len(r) : r[j].of = n.log[k].of
         /\ known = {} => r # <<>> /\ r[1] = n.log[Len(n.log)]
<1> DEFINE o == Overflow(n)
           z == Len(n.log)
           m == z - KeepRecent
<1>1. /\ KeepRecent \in Nat /\ 0 < KeepRecent /\ KeepRecent < z /\ z \in Nat
      /\ o \in Seq(Row) /\ Len(o) = m
      /\ \A i \in 1..m : o[i] = n.log[z - i + 1]
  BY OverflowIs
<1>2. r \in Seq(Row) /\ \E g : Places(g, r, m, o, ShortId, known)
  BY <1>1, ToArchiveIs
<1> HIDE DEF o
<1>3. PICK g : Places(g, r, m, o, ShortId, known)
  BY <1>2
<1>4. /\ \A j \in 1..Len(r) : g[j] \in 1..m /\ r[j] = o[g[j]] /\ ShortId[o[g[j]].of] \notin known
      /\ \A i \in 1..Len(r), j \in 1..Len(r) : i < j => g[i] < g[j]
      /\ \A k \in 1..m : ShortId[o[k].of] \notin known => \E j \in 1..Len(r) : g[j] = k
  BY <1>3 DEF Places
<1>5. \A i \in 1..m : z - i + 1 \in 1..z /\ o[i] = n.log[z - i + 1]
  BY <1>1
<1>7. Len(r) \in Nat
  BY <1>2
<1>8. \A i, j \in 1..Len(r) : g[i] = g[j] => i = j
  <2> SUFFICES ASSUME NEW i \in 1..Len(r), NEW j \in 1..Len(r), g[i] = g[j], i # j PROVE FALSE
    OBVIOUS
  <2>1. i < j \/ j < i
    BY <1>7
  <2>2. g[i] < g[j] \/ g[j] < g[i]
    BY <1>4, <2>1
  <2>3. g[i] \in Int /\ g[j] \in Int
    BY <1>1, <1>4
  <2> QED
    BY <2>2, <2>3
<1>9. \A i, j \in 1..Len(r) : r[i].of = r[j].of => i = j
  <2> SUFFICES ASSUME NEW i \in 1..Len(r), NEW j \in 1..Len(r), r[i].of = r[j].of PROVE g[i] = g[j]
    BY <1>8
  <2>1. /\ g[i] \in 1..m /\ r[i] = n.log[z - g[i] + 1] /\ z - g[i] + 1 \in 1..z
        /\ g[j] \in 1..m /\ r[j] = n.log[z - g[j] + 1] /\ z - g[j] + 1 \in 1..z
    BY <1>4, <1>5
  <2>2. z - g[i] + 1 = z - g[j] + 1
    BY <2>1 DEF Shape
  <2>3. z \in Int /\ g[i] \in Int /\ g[j] \in Int
    BY <1>1, <2>1
  <2> HIDE DEF z, m
  <2> QED
    BY ONLY <2>2, <2>3
<1>10. ASSUME NEW k \in Cut(n), ShortId[n.log[k].of] \notin known
       PROVE  \E j \in 1..Len(r) : r[j].of = n.log[k].of
  <2>1. k \in 1..z /\ k > KeepRecent
    BY <1>10 DEF Cut
  <2>2. z - k + 1 \in 1..m /\ z - (z - k + 1) + 1 = k
    BY <1>1, <2>1
  <2>3. o[z - k + 1] = n.log[k]
    BY <1>5, <2>2
  <2>4. PICK j \in 1..Len(r) : g[j] = z - k + 1
    BY <1>4, <1>10, <2>2, <2>3
  <2> QED
    BY <1>4, <2>3, <2>4
<1>11. ASSUME known = {} PROVE r # <<>> /\ r[1] = n.log[z]
  <2>2. 1 \in 1..m /\ z - 1 + 1 = z
    BY <1>1
  <2>3. o[1] = n.log[z]
    BY <1>5, <2>2
  <2>4. PICK j \in 1..Len(r) : g[j] = 1
    BY <1>4, <1>11, <2>2
  <2>5. 1 \in 1..Len(r)
    BY <1>7
  <2>6. j = 1
    <3> SUFFICES ASSUME 1 < j PROVE FALSE
      BY <1>7
    <3>1. g[1] < g[j] /\ g[1] \in 1..m
      BY <1>4, <2>5
    <3> QED
      BY <1>1, <2>4, <3>1
  <2>7. r[1] = n.log[z]
    BY <1>4, <2>3, <2>4, <2>5, <2>6
  <2>8. r # <<>>
    BY <1>7, <2>5
  <2> QED
    BY <2>7, <2>8
<1>12. \A j \in 1..Len(r) : /\ ShortId[r[j].of] \notin known
                            /\ \E k \in 1..Len(n.log) : r[j] = n.log[k]
  <2> SUFFICES ASSUME NEW j \in 1..Len(r)
               PROVE  ShortId[r[j].of] \notin known /\ \E k \in 1..z : r[j] = n.log[k]
    OBVIOUS
  <2>1. g[j] \in 1..m /\ r[j] = o[g[j]] /\ ShortId[o[g[j]].of] \notin known
    BY <1>4
  <2>2. r[j] = n.log[z - g[j] + 1] /\ z - g[j] + 1 \in 1..z
    BY <1>5, <2>1
  <2> QED
    BY <2>1, <2>2
<1> QED
  BY <1>2, <1>9, <1>10, <1>11, <1>12

\* What is in a log, block by block.
LEMMA InLog ==
  ASSUME NEW S, NEW log \in Seq(S)
  PROVE  /\ Len(log) \in Nat
         /\ \A x : x \in Ids(log) <=> \E i \in 1..Len(log) : ShortId[log[i].of] = x
         /\ \A x : x \in Texts(log) <=> \E i \in 1..Len(log) : x \in log[i].more
         /\ \A x : x \in Entries(log) <=> \E i \in 1..Len(log) : log[i].of = x /\ log[i].whole
<1>1. Len(log) \in Nat /\ ToSet(log) = {log[i] : i \in 1..Len(log)}
  BY DEF ToSet
<1>2. \A x : x \in Ids(log) <=> \E i \in 1..Len(log) : ShortId[log[i].of] = x
  BY <1>1 DEF Ids
<1>3. \A x : x \in Texts(log) <=> \E i \in 1..Len(log) : x \in log[i].more
  BY <1>1 DEF Texts
<1>4. \A x : x \in Entries(log) <=> \E i \in 1..Len(log) : log[i].of = x /\ log[i].whole
  BY <1>1 DEF Entries
<1> QED
  BY <1>1, <1>2, <1>3, <1>4

\* The parts of a notes file.
LEMMA ShapeIs ==
  ASSUME NEW n, Shape(n)
  PROVE  /\ n = [head |-> n.head, log |-> n.log] /\ n.head \subseteq {Hand, Stray}
         /\ n.log \in Seq(Row) /\ Len(n.log) \in Nat /\ (n.log # <<>> <=> Len(n.log) # 0)
         /\ \A i \in 1..Len(n.log) : n.log[i] \in Row
<1>1. n \in [head : SUBSET {Hand, Stray}, log : Seq(Row)]
  BY DEF Shape, Books, Row, WId
<1>2. n = [head |-> n.head, log |-> n.log] /\ n.head \subseteq {Hand, Stray} /\ n.log \in Seq(Row)
  BY <1>1
<1>3. Len(n.log) \in Nat /\ (n.log # <<>> <=> Len(n.log) # 0) /\ \A i \in 1..Len(n.log) : n.log[i] \in Row
  BY <1>2
<1> QED
  BY <1>2, <1>3

\* n has no entry of w; m has one of w at most beyond those of n.
Missing(n, w) == \A i \in 1..Len(n.log) : n.log[i].of # w
Adds(m, n, w) == \A i \in 1..Len(m.log) : m.log[i].of = w \/ \E j \in 1..Len(n.log) : m.log[i].of = n.log[j].of

\* An entry is added, of a worker that has none, and all else stays.
LEMMA WithEntryIs ==
  ASSUME NEW n, Shape(n), Calm(n), NEW w \in Wakeup, Missing(n, w),
         NEW m, m = WithEntry(n, w)
  PROVE  /\ Shape(m) /\ Calm(m) /\ m.head = n.head /\ m.log # <<>> /\ Adds(m, n, w)
         /\ w \in Entries(m.log) /\ Entries(n.log) \subseteq Entries(m.log)
         /\ Texts(n.log) \subseteq Texts(m.log)
         /\ OldLast(n) => OldLast(m)
<1>0. \A i \in 1..Len(n.log) : n.log[i].of # w
  BY DEF Missing
<1>1. /\ n = [head |-> n.head, log |-> n.log] /\ n.head \subseteq {Hand, Stray}
      /\ n.log \in Seq(Row) /\ Len(n.log) \in Nat /\ (n.log # <<>> <=> Len(n.log) # 0)
  BY ShapeIs
<1>a. /\ \A i \in 1..Len(n.log) : n.log[i].of = None => (i = Len(n.log) /\ bound.old)
      /\ \A i, j \in 1..Len(n.log) : n.log[i].of = n.log[j].of => i = j
      /\ \A i, j \in 1..Len(n.log) : Stray \in n.log[i].more /\ Stray \in n.log[j].more => i = j
      /\ Stray \in n.head => ~bound.old /\ \A i \in 1..Len(n.log) : Stray \notin n.log[i].more
  BY DEF Shape
<1> DEFINE b == Block(w, {}, TRUE)
<1>2. b \in Row /\ b.of = w /\ b.of # None /\ b.more = {} /\ b.whole
  BY Rows DEF Block, Row, WId
<1> HIDE DEF b
<1>3. m = [head |-> n.head, log |-> <<b>> \o n.log]
  BY <1>1 DEF WithEntry, b
<1> DEFINE l == <<b>> \o n.log
<1>4. /\ l \in Seq(Row) /\ Len(l) = Len(n.log) + 1 /\ l[1] = b
      /\ \A i \in 1..Len(n.log) : l[i + 1] = n.log[i]
  <2>1. <<b>> \in Seq(Row) /\ Len(<<b>>) = 1 /\ <<b>>[1] = b
    BY <1>2
  <2>2. /\ l \in Seq(Row) /\ Len(l) = 1 + Len(n.log)
        /\ \A i \in 1..1 + Len(n.log) : l[i] = IF i <= 1 THEN <<b>>[i] ELSE n.log[i - 1]
    BY ONLY <1>1, <2>1, ConcatProperties
  <2>3. 1 \in 1..1 + Len(n.log) /\ \A i \in 1..Len(n.log) : i + 1 \in 1..1 + Len(n.log) /\ ~(i + 1 <= 1) /\ (i + 1) - 1 = i
    BY <1>1
  <2> QED
    BY <1>1, <2>1, <2>2, <2>3
<1> HIDE DEF l
<1>5. m.head = n.head /\ m.log = l
  BY <1>3 DEF l
<1>6. \A i \in 1..Len(l) : i = 1 \/ (i - 1 \in 1..Len(n.log) /\ l[i] = n.log[i - 1])
  <2>1. \A i \in 1..Len(l) : i = 1 \/ (i - 1 \in 1..Len(n.log) /\ (i - 1) + 1 = i)
    BY <1>1, <1>4
  <2> QED
    BY <1>4, <2>1
<1>f. /\ \A i \in 1..Len(l) : i = 1 => l[i].of = w /\ Stray \notin l[i].more
      /\ \A i \in 1..Len(l) : i # 1 => i - 1 \in 1..Len(n.log) /\ l[i] = n.log[i - 1] /\ l[i].of # w
  BY <1>0, <1>2, <1>4, <1>6
<1>g. \A i \in 1..Len(l) : l[i].of = None => (i = Len(l) /\ bound.old)
  <2> SUFFICES ASSUME NEW i \in 1..Len(l), l[i].of = None PROVE i = Len(l) /\ bound.old
    OBVIOUS
  <2>1. i # 1 /\ i - 1 = Len(n.log) /\ bound.old
    BY <1>a, <1>2, <1>f
  <2> QED
    BY <1>1, <1>4, <2>1
<1>h. \A i \in 1..Len(l) : l[i].of = w \/ \E j \in 1..Len(n.log) : l[i].of = n.log[j].of
  BY <1>f
<1>b. \A i, j \in 1..Len(l) : l[i].of = l[j].of => i = j
  <2> SUFFICES ASSUME NEW i \in 1..Len(l), NEW j \in 1..Len(l), l[i].of = l[j].of PROVE i = j
    OBVIOUS
  <2>1. CASE i = 1 \/ j = 1
    BY <1>f, <2>1
  <2>2. CASE i # 1 /\ j # 1
    <3>1. i - 1 = j - 1
      BY <1>a, <1>f, <2>2
    <3> QED
      BY <1>1, <1>4, <3>1
  <2> QED
    BY <2>1, <2>2
<1>c. \A i, j \in 1..Len(l) : Stray \in l[i].more /\ Stray \in l[j].more => i = j
  <2> SUFFICES ASSUME NEW i \in 1..Len(l), NEW j \in 1..Len(l), Stray \in l[i].more, Stray \in l[j].more PROVE i = j
    OBVIOUS
  <2>1. i # 1 /\ j # 1
    BY <1>2, <1>4
  <2>2. i - 1 = j - 1
    BY <1>a, <1>6, <2>1
  <2> QED
    BY <1>1, <1>4, <2>2
<1>d. \A i \in 1..Len(l) : Stray \in l[i].more => \E j \in 1..Len(n.log) : l[i] = n.log[j]
  BY <1>2, <1>4, <1>6
<1>8. Shape(m)
  <2>1. m \in Books
    <3>1. m = [head |-> n.head, log |-> l]
      BY <1>3 DEF l
    <3> QED
      BY <1>1, <1>4, <3>1 DEF Books, Row, WId
  <2>2. Stray \in m.head => ~bound.old /\ \A i \in 1..Len(l) : Stray \notin l[i].more
    BY <1>a, <1>5, <1>d
  <2> QED
    BY <1>5, <1>g, <1>b, <1>c, <2>1, <2>2 DEF Shape
<1>e. Calm(m)
  BY <1>5, <1>d DEF Calm
<1>9. Len(l) # 0 /\ l # <<>> /\ 1 \in 1..Len(l) /\ \A i \in 1..Len(n.log) : i + 1 \in 1..Len(l) /\ l[i + 1] = n.log[i]
  BY <1>1, <1>4
<1>10. w \in Entries(l) /\ Entries(n.log) \subseteq Entries(l)
  BY <1>1, <1>2, <1>4, <1>9, InLog
<1>11. Texts(n.log) \subseteq Texts(l)
  BY <1>1, <1>4, <1>9, InLog
<1>12. ASSUME OldLast(n) PROVE OldLast(m)
  <2>1. Len(n.log) \in 1..Len(n.log) /\ n.log[Len(n.log)].of = None
    BY <1>1, <1>12 DEF OldLast
  <2>2. l[Len(l)].of = None
    BY <1>4, <2>1
  <2> QED
    BY <1>4, <1>5, <1>9, <2>2 DEF OldLast
<1>13. Adds(m, n, w)
  BY <1>5, <1>h DEF Adds
<1> QED
  BY <1>5, <1>8, <1>e, <1>9, <1>10, <1>11, <1>12, <1>13

\* The heal puts the stray text at the end, once, and all else stays.
LEMMA FoldIs ==
  ASSUME NEW n, Shape(n), Calm(n), Filled(n), Ready(n), NEW m, m = Fold(n)
  PROVE  /\ Shape(m) /\ Calm(m) /\ IsFolded(m) /\ n.head \subseteq m.head
         /\ Len(m.log) = Len(n.log) /\ \A i \in 1..Len(n.log) : m.log[i].of = n.log[i].of
         /\ Entries(n.log) \subseteq Entries(m.log)
         /\ OldLast(n) => OldLast(m)
<1>1. /\ n = [head |-> n.head, log |-> n.log] /\ n.head \subseteq {Hand, Stray}
      /\ n.log \in Seq(Row) /\ Len(n.log) \in Nat /\ (n.log # <<>> <=> Len(n.log) # 0)
      /\ \A i \in 1..Len(n.log) : n.log[i] \in Row
  BY ShapeIs
<1>a. /\ \A i \in 1..Len(n.log) : n.log[i].of = None => (i = Len(n.log) /\ bound.old)
      /\ \A i, j \in 1..Len(n.log) : n.log[i].of = n.log[j].of => i = j
  BY DEF Shape
<1>2. CASE IsFolded(n)
  <2>1. m = n
    BY <1>2 DEF Fold
  <2> QED
    BY <1>2, <2>1
<1>b. ASSUME ~IsFolded(n)
      PROVE  Stray \notin n.head /\ \A i \in 1..Len(n.log) : Stray \notin n.log[i].more
  BY <1>1, <1>b, InLog DEF IsFolded
<1>3. CASE ~IsFolded(n) /\ n.log = <<>>
  <2>1. ~bound.old
    BY <1>3 DEF Filled
  <2>2. m = [n EXCEPT !.head = @ \cup {Stray}]
    BY <1>3 DEF Fold
  <2>3. m = [head |-> n.head \cup {Stray}, log |-> n.log]
    BY <1>1, <2>2
  <2>4. m.head = n.head \cup {Stray} /\ m.log = n.log
    BY <2>3
  <2>5. m \in Books
    BY <1>1, <2>3 DEF Books, Row, WId
  <2>6. Shape(m)
    BY <1>3, <1>b, <2>1, <2>4, <2>5 DEF Shape
  <2>7. IsFolded(m) /\ Calm(m)
    BY <2>4 DEF IsFolded, Calm
  <2> QED
    BY <1>3, <2>4, <2>6, <2>7 DEF OldLast
<1>4. CASE ~IsFolded(n) /\ n.log # <<>>
  <2> DEFINE z == Len(n.log)
             b == [n.log[z] EXCEPT !.more = @ \cup {Stray}]
             l == [n.log EXCEPT ![z] = b]
  <2>0. z \in 1..z /\ z \in Nat
    BY <1>1, <1>4
  <2>1. n.log[z] \in Row /\ (Lost \/ (bound.old /\ (n.log[z].of = None \/ ~Tame)))
    BY <1>1, <1>4, <2>0 DEF Ready, OldLast
  <2>2. b \in Row /\ b.of = n.log[z].of /\ Stray \in b.more /\ b.whole = n.log[z].whole
    BY <2>1 DEF Row
  <2>3. m = [n EXCEPT !.log[Len(n.log)].more = @ \cup {Stray}]
    BY <1>4 DEF Fold
  <2>4. m = [head |-> n.head, log |-> l]
    BY <1>1, <2>3
  <2> HIDE DEF b
  <2>5. /\ l \in Seq(Row) /\ Len(l) = z /\ l[z] = b
        /\ \A i \in 1..z : i # z => l[i] = n.log[i]
    BY ONLY <1>1, <2>0, <2>2, ExceptSeq
  <2> HIDE DEF l
  <2>6. m.head = n.head /\ m.log = l
    BY <2>4
  <2>7. \A i \in 1..z : /\ l[i].of = n.log[i].of /\ l[i].whole = n.log[i].whole
                        /\ Stray \in l[i].more => i = z
    BY <1>4, <1>b, <2>2, <2>5
  <2>8. Shape(m)
    <3>1. m \in Books
      BY <1>1, <2>4, <2>5 DEF Books, Row, WId
    <3>2. Stray \notin m.head
      BY <1>4, <1>b, <2>6
    <3>3. \A i \in 1..Len(l) : l[i].of = None => (i = Len(l) /\ bound.old)
      BY <1>a, <2>5, <2>7
    <3>4. \A i, j \in 1..Len(l) : l[i].of = l[j].of => i = j
      BY <1>a, <2>5, <2>7
    <3>5. \A i, j \in 1..Len(l) : Stray \in l[i].more /\ Stray \in l[j].more => i = j
      BY <2>5, <2>7
    <3> QED
      BY <2>6, <3>1, <3>2, <3>3, <3>4, <3>5 DEF Shape
  <2>9. Stray \in Texts(l)
    BY <2>0, <2>2, <2>5, InLog
  <2>10. Entries(n.log) \subseteq Entries(l)
    BY <1>1, <2>5, <2>7, InLog
  <2>11. OldLast(n) => OldLast(m)
    BY <1>4, <2>0, <2>2, <2>5, <2>6 DEF OldLast
  <2>12. Calm(m)
    BY <2>1, <2>2, <2>5, <2>6, <2>7 DEF Calm, Tame
  <2> QED
    BY <2>5, <2>6, <2>7, <2>8, <2>9, <2>10, <2>11, <2>12 DEF IsFolded
<1> QED
  BY <1>2, <1>3, <1>4

\* The rotation keeps the newest blocks; what else there was is cut.
LEMMA RotatedIs ==
  ASSUME NEW n, Fit(n), IsOverfull(n), NEW m, m = Rotated(n)
  PROVE  /\ Fit(m) /\ m.head = n.head /\ m.log # <<>> /\ Cut(n) # {}
         /\ \A x \in Entries(n.log) : x \in Entries(m.log) \/ \E k \in Cut(n) : n.log[k].of = x
         /\ Stray \in Texts(n.log) => Lost \/ bound.old
         /\ n.log # <<>>
<1>0. Shape(n) /\ Calm(n) /\ Unwritten(n)
  BY DEF Fit
<1>1. /\ n = [head |-> n.head, log |-> n.log] /\ n.head \subseteq {Hand, Stray}
      /\ n.log \in Seq(Row) /\ Len(n.log) \in Nat /\ (n.log # <<>> <=> Len(n.log) # 0)
      /\ \A i \in 1..Len(n.log) : n.log[i] \in Row
  BY <1>0, ShapeIs
<1>a. /\ \A i \in 1..Len(n.log) : n.log[i].of = None => (i = Len(n.log) /\ bound.old)
      /\ \A i, j \in 1..Len(n.log) : n.log[i].of = n.log[j].of => i = j
      /\ \A i, j \in 1..Len(n.log) : Stray \in n.log[i].more /\ Stray \in n.log[j].more => i = j
      /\ Stray \in n.head => ~bound.old /\ \A i \in 1..Len(n.log) : Stray \notin n.log[i].more
  BY <1>0 DEF Shape
<1>2. KeepRecent \in Nat /\ 0 < KeepRecent /\ KeepRecent < Len(n.log)
  BY <1>0, OverflowIs
<1> DEFINE l == SubSeq(n.log, 1, KeepRecent)
<1>3. l \in Seq(Row) /\ Len(l) = KeepRecent /\ \A i \in 1..KeepRecent : l[i] = n.log[i]
  <2>1. \A i \in 1..KeepRecent : n.log[i] \in Row
    BY <1>1, <1>2
  <2>2. /\ l \in Seq(Row) /\ Len(l) = IF 1 <= KeepRecent THEN KeepRecent - 1 + 1 ELSE 0
        /\ \A i \in 1..KeepRecent - 1 + 1 : l[i] = n.log[1 + i - 1]
    <3>1. 1 \in Int /\ KeepRecent \in Int
      BY <1>2
    <3> QED
      BY ONLY <2>1, <3>1, SubSeqProperties
  <2>3. KeepRecent - 1 + 1 = KeepRecent /\ 1 <= KeepRecent /\ \A i \in 1..KeepRecent : 1 + i - 1 = i
    BY <1>2
  <2> QED
    BY <2>2, <2>3
<1> HIDE DEF l
<1>4. m = [head |-> n.head, log |-> l]
  BY <1>1 DEF Rotated, l
<1>5. m.head = n.head /\ m.log = l /\ l # <<>>
  BY <1>2, <1>3, <1>4
<1>6. \A i \in 1..Len(l) : i \in 1..Len(n.log) /\ i # Len(n.log) /\ l[i] = n.log[i]
  BY <1>1, <1>2, <1>3
<1>7. Fit(m)
  <2>1. m \in Books
    BY <1>1, <1>3, <1>4 DEF Books, Row, WId
  <2>2. Stray \in m.head => ~bound.old /\ \A i \in 1..Len(l) : Stray \notin l[i].more
    BY <1>a, <1>5, <1>6
  <2>3. \A i \in 1..Len(l) : l[i].of = None => (i = Len(l) /\ bound.old)
    BY <1>a, <1>6
  <2>4. \A i, j \in 1..Len(l) : l[i].of = l[j].of => i = j
    BY <1>a, <1>6
  <2>5. \A i, j \in 1..Len(l) : Stray \in l[i].more /\ Stray \in l[j].more => i = j
    BY <1>a, <1>6
  <2>6. Shape(m)
    BY <1>5, <2>1, <2>2, <2>3, <2>4, <2>5 DEF Shape
  <2>7. Calm(m)
    BY <1>0, <1>5, <1>6 DEF Calm
  <2>8. Unwritten(m)
    BY <1>0, <1>5, <1>6 DEF Unwritten
  <2> QED
    BY <2>6, <2>7, <2>8 DEF Fit
<1>8. Cut(n) # {}
  <2>1. Len(n.log) \in Cut(n)
    BY <1>1, <1>2 DEF Cut
  <2> QED
    BY <2>1
<1>9. \A x \in Entries(n.log) : x \in Entries(l) \/ \E k \in Cut(n) : n.log[k].of = x
  <2> SUFFICES ASSUME NEW x \in Entries(n.log) PROVE x \in Entries(l) \/ \E k \in Cut(n) : n.log[k].of = x
    OBVIOUS
  <2>1. PICK i \in 1..Len(n.log) : n.log[i].of = x /\ n.log[i].whole
    BY <1>1, InLog
  <2>2. CASE i > KeepRecent
    BY <2>1, <2>2 DEF Cut
  <2>3. CASE ~(i > KeepRecent)
    <3>1. i \in 1..Len(l) /\ l[i] = n.log[i]
      BY <1>1, <1>2, <1>3, <2>3
    <3> QED
      BY <1>3, <2>1, <3>1, InLog
  <2> QED
    BY <2>2, <2>3
<1>10. Stray \in Texts(n.log) => Lost \/ bound.old
  BY <1>0, <1>1, InLog DEF Calm
<1> QED
  BY <1>1, <1>2, <1>5, <1>7, <1>8, <1>9, <1>10

-----------------------------------------------------------------------------
(* What a step may do to the notes. *)

\* Nobody who has written an entry, or never will, is to write one again.
Forward == \A v \in Wakeup : pc'[v] \in Before => pc[v] \in Before

\* The operators of the notes say of the next state what they say of its notes.
LEMMA Primes ==
  /\ Ids(archive)' = Ids(archive') /\ Texts(archive)' = Texts(archive')
  /\ Entries(notes.log)' = Entries(notes'.log) /\ Texts(notes.log)' = Texts(notes'.log)
  /\ OldLast(notes)' = OldLast(notes')
  /\ \A v : /\ IsOverfull(base[v])' = IsOverfull(base'[v]) /\ Cut(base[v])' = Cut(base'[v])
            /\ OldLast(base[v])' = OldLast(base'[v])
<1>1. Ids(archive)' = Ids(archive') /\ Texts(archive)' = Texts(archive')
  BY DEF Ids, Texts
<1>2. Entries(notes.log)' = Entries(notes'.log) /\ Texts(notes.log)' = Texts(notes'.log)
  BY DEF Entries, Texts
<1>3. OldLast(notes)' = OldLast(notes')
  BY DEF OldLast
<1>4. ASSUME NEW v
      PROVE  /\ IsOverfull(base[v])' = IsOverfull(base'[v]) /\ Cut(base[v])' = Cut(base'[v])
             /\ OldLast(base[v])' = OldLast(base'[v])
  BY DEF IsOverfull, Cut, KeepRecent, OldLast
<1> QED
  BY <1>1, <1>2, <1>3, <1>4

\* What is lost stays lost, and the archive only grows.
Passing ==
    /\ bound' = bound /\ Forward
    /\ missed \subseteq missed' /\ (archive' = <<>> => archive = <<>>)

\* Notes that fit do so afterwards, and what is ready is.
LEMMA StaysFit ==
  ASSUME Passing
  PROVE  /\ Fit(notes') => Fit(notes)'
         /\ Ready(notes') => Ready(notes)'
         /\ Filled(notes)' = Filled(notes')
         /\ \A v : /\ Fit(base'[v]) => Fit(base[v])'
                   /\ Ready(base'[v]) => Ready(base[v])'
                   /\ Filled(base[v])' = Filled(base'[v])
         /\ (Lost => Lost') /\ (Tame' => Tame)
<1>1. (Lost => Lost') /\ (Tame' => Tame)
  BY DEF Passing, Lost, Tame
<1>2. Fit(notes') => Fit(notes)'
  <2>1. Shape(notes') => Shape(notes)'
    BY DEF Shape, Passing
  <2>2. Calm(notes') => Calm(notes)'
    BY <1>1 DEF Calm, Passing
  <2>3. Unwritten(notes') => Unwritten(notes)'
    BY DEF Unwritten, Passing, Forward
  <2> QED
    BY <2>1, <2>2, <2>3 DEF Fit
<1>3. Ready(notes') => Ready(notes)'
  BY <1>1, Primes DEF Ready, Passing, IsFolded, Texts
<1>4. ASSUME NEW v PROVE Fit(base'[v]) => Fit(base[v])'
  <2>1. Shape(base'[v]) => Shape(base[v])'
    BY DEF Shape, Passing
  <2>2. Calm(base'[v]) => Calm(base[v])'
    BY <1>1 DEF Calm, Passing
  <2>3. Unwritten(base'[v]) => Unwritten(base[v])'
    BY DEF Unwritten, Passing, Forward
  <2> QED
    BY <2>1, <2>2, <2>3 DEF Fit
<1>5. ASSUME NEW v PROVE Ready(base'[v]) => Ready(base[v])'
  BY <1>1, Primes DEF Ready, Passing, IsFolded, Texts
<1>6. Filled(notes)' = Filled(notes') /\ \A v : Filled(base[v])' = Filled(base'[v])
  BY DEF Filled, Passing
<1> QED
  BY <1>1, <1>2, <1>3, <1>4, <1>5, <1>6

\* What a step may do to the notes, for those who have read them before.
Onward ==
    /\ Passing /\ (stray' => stray) /\ (raced => raced')
    /\ Ids(archive) \subseteq Ids(archive)'
    /\ (bound.stray /\ ~raced' /\ ~Lost' /\ Safe) => Safe'

\* Another worker's step is nothing to a reader.
LEMMA OtherReader ==
  ASSUME Onward, NEW v, Reader(v), pc'[v] = pc[v], base'[v] = base[v], legacy'[v] = legacy[v], seen'[v] = seen[v],
         archive \in Seq(Piece)
  PROVE  Reader(v)'
<1>0. Passing
  BY DEF Onward
<1>1. /\ IsOverfull(base[v])' = IsOverfull(base[v]) /\ Cut(base[v])' = Cut(base[v])
      /\ OldLast(base[v])' = OldLast(base[v])
  BY Primes
<1>2. /\ Fit(base[v]) => Fit(base[v])'
      /\ Ready(base[v]) => Ready(base[v])'
      /\ Filled(base[v])' = Filled(base[v])
      /\ Lost => Lost'
  BY <1>0, StaysFit
<1> QED
  BY <1>1, <1>2 DEF Reader, Onward, Passing

\* A step of worker w, and what is left to show of it.
LEMMA BookStep ==
  ASSUME NInv, Onward, NEW w \in Wakeup,
         \A v \in Wakeup \ {w} : pc'[v] = pc[v],
         \A v \in Wakeup \ {w} : base'[v] = base[v] /\ legacy'[v] = legacy[v] /\ seen'[v] = seen[v],
         Read', Fit(notes)', Filled(notes)', Archived', Healed', Kept', Reader(w)'
  PROVE  NInv'
<1>1. archive \in Seq(Piece) /\ \A v \in Wakeup : Reader(v)
  BY DEF NInv, Archived
<1>2. \A v \in Wakeup \ {w} : Reader(v)'
  BY <1>1, OtherReader
<1> QED
  BY <1>2 DEF NInv

\* A step that leaves the notes, the archive and the stray file as they are.
LEMMA QuietStep ==
  ASSUME NInv, bound' = bound, Forward, UNCHANGED <<notes, archive, stray, written, raced, blind>>,
         missed' = missed \/ missed' = missed \cup {"find"}
  PROVE  Onward /\ Fit(notes)' /\ Filled(notes)' /\ Archived' /\ Healed' /\ Kept'
<1>1. Safe' = Safe /\ Torn' = Torn
  BY DEF Safe, Torn, Texts
<1>2. Ids(archive)' = Ids(archive) /\ Texts(archive)' = Texts(archive) /\ Entries(notes.log)' = Entries(notes.log)
      /\ OldLast(notes)' = OldLast(notes)
  BY Primes
<1>3. Archived'
  BY DEF NInv, Archived
<1>4. Passing
  BY DEF Passing
<1>5. /\ Fit(notes) => Fit(notes)'
      /\ Ready(notes) => Ready(notes)'
      /\ Filled(notes)' = Filled(notes)
      /\ Lost => Lost'
  BY <1>4, StaysFit
<1>6. Onward
  BY <1>1, <1>2, <1>4 DEF Onward
<1>7. Healed'
  BY <1>1, <1>2, <1>5 DEF NInv, Healed, Lost
<1>8. Kept'
  BY <1>2 DEF NInv, Kept
<1> QED
  BY <1>3, <1>5, <1>6, <1>7, <1>8 DEF NInv

Late == {"fold", "write", "unlink", "rotate", "ids", "archive", "rewrite"}

\* A step that has nothing to do with the notes.
LEMMA FarStep ==
  ASSUME NInv, bound' = bound, Forward, UNCHANGED book, NEW w \in Wakeup,
         \A v \in Wakeup \ {w} : pc'[v] = pc[v], (pc'[w] \notin Late /\ pc[w] # "archive") \/ pc' = pc
  PROVE  NInv'
<1>1. UNCHANGED <<notes, archive, stray, base, legacy, seen, written, raced, blind, missed>>
  BY DEF book
<1>2. Onward /\ Fit(notes)' /\ Filled(notes)' /\ Archived' /\ Healed' /\ Kept'
  BY <1>1, QuietStep
<1>3. archive \in Seq(Piece) /\ Reader(w) /\ Fit(base[w]) /\ Read'
  BY <1>1 DEF NInv, Archived, Reader, Read
<1>4. CASE pc' = pc
  BY <1>1, <1>2, <1>3, <1>4, OtherReader, BookStep
<1>5. CASE pc'[w] \notin Late /\ pc[w] # "archive"
  <2>1. Fit(base[w])' /\ (legacy'[w] => bound'.stray) /\ seen'[w] = {}
    BY <1>1, <1>2, <1>3, <1>5, StaysFit DEF Reader, Onward
  <2>2. Reader(w)'
    BY <1>5, <2>1 DEF Reader, Late
  <2> QED
    BY <1>1, <1>2, <1>3, <2>2, BookStep
<1> QED
  BY <1>4, <1>5

\* Blocks are appended whose ids the archive does not have.
LEMMA ArchiveGrows ==
  ASSUME NInv, bound' = bound, Forward, UNCHANGED <<notes, stray, written, raced, missed>>,
         NEW q \in Seq(Piece), archive' = archive \o q,
         NEW known, blind' = (blind \/ known # Ids(archive)),
         \A j \in 1..Len(q) : ShortId[q[j].of] \notin known,
         missed = {} => \A j \in 1..Len(q) : Stray \in q[j].more => q[j].of = None,
         \A i, j \in 1..Len(q) : q[i].of = q[j].of => i = j,
         (bound.stray /\ bound.old /\ ~raced /\ ~Lost /\ archive = <<>> /\ q # <<>>)
            => Stray \in q[1].more \/ ~q[1].whole
  PROVE  /\ Onward /\ Fit(notes)' /\ Filled(notes)' /\ Archived' /\ Healed' /\ Kept'
         /\ \A j \in 1..Len(q) : ShortId[q[j].of] \in Ids(archive)'
         /\ q # <<>> => archive' # <<>>
<1> DEFINE z == Len(archive)
<1>1. /\ archive \in Seq(Piece) /\ z \in Nat /\ Len(q) \in Nat
      /\ missed = {} => \A i \in 1..z : Stray \in archive[i].more => archive[i].of = None
      /\ ~blind => \A i, j \in 1..z : archive[i].of = archive[j].of => i = j
  BY DEF NInv, Archived
<1>2. /\ archive' \in Seq(Piece) /\ Len(archive') = z + Len(q)
      /\ \A i \in 1..z + Len(q) : archive'[i] = IF i <= z THEN archive[i] ELSE q[i - z]
  BY <1>1, ConcatProperties
<1>3. \A i \in 1..z : i \in 1..Len(archive') /\ archive'[i] = archive[i]
  BY <1>1, <1>2
<1>4. \A j \in 1..Len(q) : z + j \in 1..Len(archive') /\ archive'[z + j] = q[j]
  <2>1. \A j \in 1..Len(q) : z + j \in 1..z + Len(q) /\ ~(z + j <= z) /\ (z + j) - z = j
    BY <1>1
  <2> QED
    BY <1>2, <2>1
<1>5. \A i \in 1..Len(archive') : \/ i \in 1..z /\ archive'[i] = archive[i]
                                  \/ i - z \in 1..Len(q) /\ archive'[i] = q[i - z]
  BY <1>1, <1>2
<1>6. DOMAIN archive = 1..z /\ DOMAIN archive' = 1..Len(archive')
  BY <1>1, <1>2
<1>a. /\ \A x : x \in Ids(archive) <=> \E i \in 1..z : ShortId[archive[i].of] = x
      /\ \A x : x \in Texts(archive) <=> \E i \in 1..z : x \in archive[i].more
  BY <1>1, InLog
<1>b. /\ \A x : x \in Ids(archive') <=> \E i \in 1..Len(archive') : ShortId[archive'[i].of] = x
      /\ \A x : x \in Texts(archive') <=> \E i \in 1..Len(archive') : x \in archive'[i].more
  <2>1. archive' \in Seq(Piece)
    BY <1>2
  <2> QED
    BY ONLY <2>1, InLog
<1>7. Ids(archive) \subseteq Ids(archive') /\ Texts(archive) \subseteq Texts(archive')
  BY <1>3, <1>a, <1>b
<1>8. Torn => Torn'
  BY <1>3, <1>6 DEF Torn
<1>9. \A j \in 1..Len(q) : ShortId[q[j].of] \in Ids(archive') /\ q[j].more \subseteq Texts(archive')
  <2> SUFFICES ASSUME NEW j \in 1..Len(q)
               PROVE  ShortId[q[j].of] \in Ids(archive') /\ q[j].more \subseteq Texts(archive')
    OBVIOUS
  <2>1. z + j \in 1..Len(archive') /\ archive'[z + j] = q[j]
    BY <1>4
  <2> QED
    BY <1>b, <2>1
<1>10. \A j \in 1..Len(q) : ~q[j].whole => Torn'
  BY <1>4, <1>6 DEF Torn
<1>11. Ids(archive)' = Ids(archive') /\ Texts(archive)' = Texts(archive')
       /\ Entries(notes.log)' = Entries(notes.log) /\ Texts(notes.log)' = Texts(notes.log)
       /\ OldLast(notes)' = OldLast(notes) /\ (Lost <=> Lost')
  BY Primes DEF Lost
<1>12. archive' = <<>> => archive = <<>> /\ q = <<>>
  <2>1. archive \o q = <<>> <=> archive = <<>> /\ q = <<>>
    BY <1>1, ConcatEqualIffEmpty
  <2> QED
    BY <2>1
<1>13. Safe => Safe'
  BY <1>7, <1>8, <1>11 DEF Safe
<1>18. Passing
  BY <1>12 DEF Passing
<1>14. Onward
  BY <1>7, <1>11, <1>13, <1>18 DEF Onward
<1>19. Fit(notes)' /\ Filled(notes)' /\ (Ready(notes) => Ready(notes)')
  BY <1>18, StaysFit DEF NInv
<1>15. Archived'
  <2>1. ASSUME missed = {}, NEW i \in 1..Len(archive'), Stray \in archive'[i].more PROVE archive'[i].of = None
    BY <1>1, <1>5, <2>1
  <2>2. ASSUME ~blind', NEW i \in 1..z, NEW j \in 1..Len(q), archive[i].of = q[j].of
        PROVE  FALSE
    <3>1. ShortId[archive[i].of] \in Ids(archive)
      BY <1>a
    <3>2. ShortId[q[j].of] \notin Ids(archive)
      BY <2>2
    <3> QED
      BY <2>2, <3>1, <3>2
  <2>3. ASSUME ~blind', NEW i \in 1..Len(archive'), NEW j \in 1..Len(archive'), archive'[i].of = archive'[j].of
        PROVE  i = j
    <3>1. CASE i \in 1..z /\ j \in 1..z
      BY <1>1, <1>3, <2>3, <3>1
    <3>2. CASE i - z \in 1..Len(q) /\ archive'[i] = q[i - z] /\ j - z \in 1..Len(q) /\ archive'[j] = q[j - z]
      <4>2. i - z = j - z
        BY <2>3, <3>2
      <4> QED
        BY <1>1, <4>2
    <3>3. ~(i \in 1..z /\ j - z \in 1..Len(q) /\ archive'[i] = archive[i] /\ archive'[j] = q[j - z])
      BY <2>2, <2>3
    <3>4. ~(j \in 1..z /\ i - z \in 1..Len(q) /\ archive'[j] = archive[j] /\ archive'[i] = q[i - z])
      BY <2>2, <2>3
    <3> QED
      BY <1>5, <3>1, <3>2, <3>3, <3>4
  <2>4. blind' \in BOOLEAN
    BY DEF NInv, Archived
  <2> QED
    BY <1>2, <2>1, <2>3, <2>4 DEF Archived
<1>16. Healed'
  <2>1. /\ stray' \in BOOLEAN /\ missed' \subseteq {"find", "unlink"} /\ (stray' => bound'.stray /\ Ready(notes)')
        /\ (bound'.stray /\ ~raced' /\ ~Lost' /\ "unlink" \in missed') => Safe'
    BY <1>11, <1>13, <1>19 DEF NInv, Healed
  <2>2. (bound'.stray /\ ~raced' /\ ~Lost') => stray' \/ Safe'
    BY <1>11, <1>13 DEF NInv, Healed
  <2>3. (bound'.stray /\ bound'.old /\ ~raced' /\ ~Lost' /\ archive' # <<>>) => Torn' \/ Stray \in Texts(archive)'
    <3>1. CASE archive # <<>>
      BY <1>7, <1>8, <1>11, <3>1 DEF NInv, Healed
    <3>2. CASE archive = <<>> /\ q # <<>>
      <4>1. 1 \in 1..Len(q)
        BY <1>1, <3>2
      <4> QED
        BY <1>9, <1>10, <1>11, <3>2, <4>1
    <3>3. archive = <<>> /\ q = <<>> => archive' = <<>>
      OBVIOUS
    <3> QED
      BY <3>1, <3>2, <3>3
  <2>4. (bound'.old /\ archive' = <<>>) => OldLast(notes)'
    BY <1>11, <1>12 DEF NInv, Healed
  <2> QED
    BY <2>1, <2>2, <2>3, <2>4 DEF Healed
<1>17. Kept'
  BY <1>7, <1>11 DEF NInv, Kept
<1> QED
  BY <1>9, <1>11, <1>12, <1>14, <1>15, <1>16, <1>17, <1>19

-----------------------------------------------------------------------------
(* The steps of the worker that takes notes. *)

\* Notes that nobody has read.
LEMMA NoShape == NoNotes \in Books /\ Fit(NoNotes)
<1>1. NoNotes.head = {} /\ NoNotes.log = <<>>
  BY DEF NoNotes
<1>2. NoNotes \in Books
  BY DEF NoNotes, Books
<1>3. Stray \notin NoNotes.head /\ Len(NoNotes.log) = 0
  BY <1>1
<1> QED
  BY <1>2, <1>3 DEF Fit, Shape, Calm, Unwritten

\* The text below the log is the old entry's.
LEMMA StrayIsLast ==
  ASSUME NEW n, Fit(n), Tame, Stray \in Texts(n.log)
  PROVE  bound.old /\ Stray \in n.log[Len(n.log)].more
<1>1. n.log \in Seq(Row)
  BY ShapeIs DEF Fit
<1>2. PICK i \in 1..Len(n.log) : Stray \in n.log[i].more
  BY <1>1, InLog
<1>3. n.log[i].of = None
  BY <1>2 DEF Fit, Calm
<1> QED
  BY <1>2, <1>3 DEF Fit, Shape

\* A worker goes from one place to the next, and the others stay.
LEMMA PlaceAfter ==
  ASSUME Types, NInv, NEW w \in Wakeup, NEW p, Go(w, p), p \notin Before \/ pc[w] \in Before
  PROVE  pc'[w] = p /\ (\A v \in Wakeup \ {w} : pc'[v] = pc[v]) /\ Forward
BY DEF Types, Go, Forward

\* What a reader reads, it reads alone.
LEMMA BaseAfter ==
  ASSUME NInv, NEW w \in Wakeup, NEW b \in Books, base' = [base EXCEPT ![w] = b]
  PROVE  base' \in [Wakeup -> Books] /\ base'[w] = b /\ \A v \in Wakeup \ {w} : base'[v] = base[v]
BY DEF NInv, Read

\* So is what it has seen of the stray file.
LEMMA LegacyAfter ==
  ASSUME NInv, NEW w \in Wakeup, NEW b \in BOOLEAN, legacy' = [legacy EXCEPT ![w] = b]
  PROVE  legacy' \in [Wakeup -> BOOLEAN] /\ (legacy'[w] <=> b) /\ \A v \in Wakeup \ {w} : legacy'[v] = legacy[v]
BY DEF NInv, Read

\* And of the archive.
LEMMA SeenAfter ==
  ASSUME NInv, NEW w \in Wakeup, NEW b \in SUBSET Nat, seen' = [seen EXCEPT ![w] = b]
  PROVE  seen' \in [Wakeup -> SUBSET Nat] /\ seen'[w] = b /\ \A v \in Wakeup \ {w} : seen'[v] = seen[v]
BY DEF NInv, Read

\* A worker that is killed, or gives up, leaves the files as they are.
LEMMA ForgetStep ==
  ASSUME Types, NInv, bound' = bound, NEW w \in Wakeup, Forget(w), NEW p \in {"killed", "release"}, Go(w, p)
  PROVE  NInv'
<1>1. UNCHANGED <<notes, archive, stray, written, raced, blind, missed>>
  BY DEF Forget
<1>3. pc'[w] = p /\ (\A v \in Wakeup \ {w} : pc'[v] = pc[v]) /\ Forward
  <2>1. p \notin Before
    BY DEF Before, Provisioning
  <2> QED
    BY <2>1, PlaceAfter
<1>2. Onward /\ Fit(notes)' /\ Filled(notes)' /\ Archived' /\ Healed' /\ Kept'
  BY <1>1, <1>3, QuietStep
<1>4. base' \in [Wakeup -> Books] /\ base'[w] = NoNotes /\ \A v \in Wakeup \ {w} : base'[v] = base[v]
  BY NoShape, BaseAfter DEF Forget
<1>5. legacy' \in [Wakeup -> BOOLEAN] /\ ~legacy'[w] /\ \A v \in Wakeup \ {w} : legacy'[v] = legacy[v]
  BY LegacyAfter DEF Forget
<1>8. seen' \in [Wakeup -> SUBSET Nat] /\ seen'[w] = {} /\ \A v \in Wakeup \ {w} : seen'[v] = seen[v]
  BY SeenAfter DEF Forget
<1>6. Fit(base[w])'
  BY <1>2, <1>4, NoShape, StaysFit DEF Onward
<1>7. Reader(w)'
  BY <1>3, <1>5, <1>6, <1>8 DEF Reader
<1>9. Read'
  BY <1>4, <1>5, <1>8 DEF Read
<1> QED
  BY <1>2, <1>3, <1>4, <1>5, <1>7, <1>8, <1>9, BookStep

\* The agent writes above the log.
LEMMA EditStep ==
  ASSUME Types, NInv, bound' = bound, NEW w \in Wakeup, EditNotes(w)
  PROVE  NInv'
<1>1. /\ notes' = [notes EXCEPT !.head = @ \cup {Hand}] /\ written' = written \cup {Hand}
      /\ UNCHANGED <<pc, archive, stray, base, legacy, seen, raced, blind, missed>>
  BY DEF EditNotes
<1>2. /\ Fit(notes) /\ notes = [head |-> notes.head, log |-> notes.log] /\ notes.head \subseteq {Hand, Stray}
      /\ notes.log \in Seq(Row)
  BY ShapeIs DEF NInv, Fit
<1>3. Hand # Stray /\ Hand \notin WId
  BY WorkspaceAssumption DEF WId
<1>4. notes' = [head |-> notes.head \cup {Hand}, log |-> notes.log]
  BY <1>1, <1>2
<1>5. notes'.head = notes.head \cup {Hand} /\ notes'.log = notes.log
  BY <1>4
<1>6. Fit(notes')
  <2>1. notes' \in Books
    BY <1>2, <1>4 DEF Books, Row, WId
  <2>2. Shape(notes')
    BY <1>2, <1>3, <1>5, <2>1 DEF Fit, Shape
  <2> QED
    BY <1>2, <1>5, <2>2 DEF Fit, Calm, Unwritten
<1>7. /\ OldLast(notes)' = OldLast(notes')
      /\ Ids(archive)' = Ids(archive) /\ Texts(archive)' = Texts(archive)
      /\ Entries(notes.log)' = Entries(notes.log) /\ Texts(notes.log)' = Texts(notes.log)
  BY <1>1, <1>5, Primes
<1>8. (Ready(notes) => Ready(notes')) /\ OldLast(notes') = OldLast(notes) /\ (Filled(notes) => Filled(notes'))
  BY <1>5 DEF Ready, IsFolded, OldLast, Filled
<1>9. Torn' = Torn /\ (Safe => Safe') /\ (Lost' <=> Lost)
  BY <1>1, <1>5, <1>7 DEF Torn, Safe, Lost
<1>15. Passing
  BY <1>1 DEF Passing, Forward
<1>10. Onward
  BY <1>1, <1>7, <1>9, <1>15 DEF Onward
<1>16. Fit(notes)' /\ Filled(notes)' /\ (Ready(notes) => Ready(notes)')
  BY <1>6, <1>8, <1>15, StaysFit DEF NInv
<1>11. Archived'
  BY <1>1 DEF NInv, Archived
<1>12. Healed'
  BY <1>1, <1>7, <1>8, <1>9, <1>16 DEF NInv, Healed
<1>13. Kept'
  BY <1>1, <1>3, <1>5, <1>7 DEF NInv, Kept
<1>14. Reader(w)'
  <2>1. archive \in Seq(Piece) /\ Reader(w)
    BY DEF NInv, Archived
  <2> QED
    BY <1>1, <1>10, <2>1, OtherReader
<1>17. Read'
  BY <1>1 DEF NInv, Read
<1> QED
  BY <1>1, <1>10, <1>11, <1>12, <1>13, <1>14, <1>16, <1>17, BookStep

\* The worker reads the notes.
LEMMA ReadStep ==
  ASSUME Types, NInv, bound' = bound, NEW w \in Wakeup, ReadNotes(w)
  PROVE  NInv'
<1>1. /\ UNCHANGED <<notes, archive, stray, legacy, seen, written, raced, blind, missed>>
      /\ pc[w] = "read" /\ Go(w, "fold") /\ base' = [base EXCEPT ![w] = notes]
  BY DEF ReadNotes, Notes, At
<1>3. pc'[w] = "fold" /\ (\A v \in Wakeup \ {w} : pc'[v] = pc[v]) /\ Forward
  BY <1>1, PlaceAfter DEF Before
<1>2. Onward /\ Fit(notes)' /\ Filled(notes)' /\ Archived' /\ Healed' /\ Kept'
  BY <1>1, <1>3, QuietStep
<1>4. /\ notes \in Books /\ Fit(notes) /\ Filled(notes) /\ Reader(w) /\ (stray => Ready(notes))
      /\ bound.old /\ archive = <<>> => OldLast(notes)
  BY DEF NInv, Fit, Shape, Healed
<1>5. base' \in [Wakeup -> Books] /\ base'[w] = notes /\ \A v \in Wakeup \ {w} : base'[v] = base[v]
  BY <1>1, <1>4, BaseAfter
<1>6. Fit(base[w])' /\ (stray => Ready(base[w])') /\ Filled(base[w])' /\ OldLast(base[w])' = OldLast(notes)
  BY <1>2, <1>4, <1>5, StaysFit, Primes DEF Onward
<1>8. seen'[w] = {}
  BY <1>1, <1>4 DEF Reader
<1>7. Reader(w)'
  BY <1>1, <1>3, <1>4, <1>6, <1>8 DEF Reader
<1>9. Read'
  BY <1>1, <1>5 DEF NInv, Read
<1> QED
  BY <1>1, <1>2, <1>3, <1>5, <1>7, <1>9, BookStep

\* The worker looks for the stray file, and finds it, or cannot read it.
LEMMA FindStep ==
  ASSUME Types, NInv, bound' = bound, NEW w \in Wakeup, FindStray(w)
  PROVE  NInv'
<1>1. /\ UNCHANGED <<notes, archive, stray, base, seen, written, raced, blind>> /\ Go(w, "write") /\ pc[w] = "fold"
      /\ \/ legacy' = [legacy EXCEPT ![w] = stray] /\ missed' = missed
         \/ legacy' = legacy /\ missed' = missed \cup {"find"}
  BY DEF FindStray, Notes, Errs, At
<1>3. pc'[w] = "write" /\ (\A v \in Wakeup \ {w} : pc'[v] = pc[v]) /\ Forward
  BY <1>1, PlaceAfter DEF Before
<1>2. Onward /\ Fit(notes)' /\ Filled(notes)' /\ Archived' /\ Healed' /\ Kept'
  BY <1>1, <1>3, QuietStep
<1>4. stray \in BOOLEAN /\ (stray => bound.stray) /\ Reader(w)
  BY DEF NInv, Healed
<1>5. /\ legacy' \in [Wakeup -> BOOLEAN] /\ \A v \in Wakeup \ {w} : legacy'[v] = legacy[v]
      /\ (legacy'[w] <=> stray) \/ (Lost' /\ legacy'[w] = legacy[w])
  <2>1. CASE legacy' = [legacy EXCEPT ![w] = stray]
    BY <1>4, <2>1, LegacyAfter
  <2>2. CASE legacy' = legacy /\ missed' = missed \cup {"find"}
    BY <2>2 DEF NInv, Read, Lost
  <2> QED
    BY <1>1, <2>1, <2>2
<1>6. /\ Fit(base[w])' /\ (Ready(base[w]) => Ready(base[w])')
      /\ Filled(base[w])' = Filled(base[w]) /\ OldLast(base[w])' = OldLast(base[w])
  BY <1>1, <1>2, <1>4, StaysFit, Primes DEF Onward, Reader
<1>8. Lost' => Ready(base[w])'
  BY DEF Ready
<1>7. Reader(w)'
  BY <1>1, <1>3, <1>4, <1>5, <1>6, <1>8 DEF Reader
<1>9. Read'
  BY <1>1, <1>5 DEF NInv, Read
<1> QED
  BY <1>1, <1>2, <1>3, <1>5, <1>7, <1>9, BookStep

\* The worker writes its entry, and heals what it read.
LEMMA AppendStep ==
  ASSUME Types, NInv, bound' = bound, NEW w \in Wakeup, AppendEntry(w)
  PROVE  NInv'
<1> DEFINE n == IF legacy[w] THEN Fold(base[w]) ELSE base[w]
<1>1. /\ pc[w] = "write" /\ Go(w, "unlink") /\ UNCHANGED <<archive, stray, legacy, seen, blind, missed>>
      /\ notes' = WithEntry(n, w) /\ raced' = (raced \/ notes # base[w])
      /\ base' = [base EXCEPT ![w] = NoNotes] /\ written' = written \cup {w}
  BY DEF AppendEntry, Notes, At, Replace
<1>2. /\ Shape(base[w]) /\ Calm(base[w]) /\ Unwritten(base[w]) /\ Filled(base[w])
      /\ (bound.old /\ archive = <<>> => OldLast(base[w]))
      /\ (legacy[w] => Ready(base[w]) /\ bound.stray) /\ (stray => legacy[w] \/ Lost) /\ seen[w] = {}
  BY <1>1 DEF NInv, Reader, Fit
<1>3. /\ Shape(n) /\ Calm(n) /\ base[w].head \subseteq n.head /\ Entries(base[w].log) \subseteq Entries(n.log)
      /\ OldLast(base[w]) => OldLast(n)
      /\ legacy[w] \/ IsFolded(base[w]) => IsFolded(n)
      /\ Len(n.log) = Len(base[w].log) /\ \A i \in 1..Len(base[w].log) : n.log[i].of = base[w].log[i].of
  <2>1. CASE legacy[w]
    BY <1>2, <2>1, FoldIs
  <2>2. CASE ~legacy[w]
    BY <1>2, <2>2
  <2> QED
    BY <2>1, <2>2
<1> HIDE DEF n
<1>a. Unwritten(n) /\ \A i \in 1..Len(n.log) : n.log[i].of # w
  <2>1. Unwritten(n)
    BY <1>2, <1>3 DEF Unwritten
  <2> QED
    BY <1>1, <2>1 DEF Unwritten, Before
<1>4. /\ Shape(notes') /\ Calm(notes') /\ notes'.head = n.head /\ notes'.log # <<>>
      /\ \A i \in 1..Len(notes'.log) : notes'.log[i].of = w \/ \E j \in 1..Len(n.log) : notes'.log[i].of = n.log[j].of
      /\ w \in Entries(notes'.log) /\ Entries(n.log) \subseteq Entries(notes'.log)
      /\ Texts(n.log) \subseteq Texts(notes'.log)
      /\ OldLast(n) => OldLast(notes')
  <2>1. Shape(n) /\ Calm(n) /\ w \in Wakeup /\ notes' = WithEntry(n, w) /\ Missing(n, w)
    BY <1>1, <1>3, <1>a DEF Missing
  <2>2. /\ Shape(notes') /\ Calm(notes') /\ notes'.head = n.head /\ notes'.log # <<>> /\ Adds(notes', n, w)
        /\ w \in Entries(notes'.log) /\ Entries(n.log) \subseteq Entries(notes'.log)
        /\ Texts(n.log) \subseteq Texts(notes'.log)
        /\ OldLast(n) => OldLast(notes')
    BY ONLY <2>1, WithEntryIs
  <2> QED
    BY <2>2 DEF Adds
<1>5. legacy[w] \/ IsFolded(base[w]) => IsFolded(notes')
  BY <1>3, <1>4 DEF IsFolded
<1>6. /\ OldLast(notes)' = OldLast(notes')
      /\ Ids(archive)' = Ids(archive) /\ Texts(archive)' = Texts(archive)
      /\ Entries(notes.log)' = Entries(notes'.log) /\ Texts(notes.log)' = Texts(notes'.log)
  BY <1>1, Primes
<1>7. Torn' = Torn /\ (IsFolded(notes') => Safe') /\ (Lost' <=> Lost) /\ (Tame' <=> Tame)
  BY <1>1, <1>6 DEF Torn, Safe, IsFolded, Lost, Tame
<1>8. ~raced' => ~raced /\ notes = base[w]
  BY <1>1
<1>9. (~raced' /\ Safe) => Safe'
  <2>1. Safe <=> IsFolded(notes) \/ Stray \in Texts(archive) \/ Torn
    BY DEF Safe, IsFolded
  <2>2. Stray \in Texts(archive) \/ Torn => Safe'
    BY <1>6, <1>7 DEF Safe
  <2> QED
    BY <1>5, <1>7, <1>8, <2>1, <2>2
<1>14. pc'[w] = "unlink" /\ (\A v \in Wakeup \ {w} : pc'[v] = pc[v]) /\ Forward
  BY <1>1, PlaceAfter DEF Before
<1>17. Passing
  BY <1>1, <1>14 DEF Passing
<1>10. Onward
  BY <1>1, <1>6, <1>9, <1>17 DEF Onward
<1>18. Fit(notes)' /\ Filled(notes)' /\ (Ready(notes') => Ready(notes)')
  <2>1. Shape(notes)'
    BY <1>4 DEF Shape
  <2>2. Calm(notes)'
    BY <1>4, <1>7 DEF Calm
  <2>3. Unwritten(notes)'
    BY <1>4, <1>14, <1>a DEF Unwritten, Forward, Before, Provisioning
  <2>4. Filled(notes)'
    BY <1>4 DEF Filled
  <2> QED
    BY <1>17, <2>1, <2>2, <2>3, <2>4, StaysFit DEF Fit
<1>11. Archived'
  BY <1>1 DEF NInv, Archived
<1>12. Healed'
  <2>1. /\ stray' \in BOOLEAN /\ missed' \subseteq {"find", "unlink"} /\ (stray' => bound'.stray /\ Ready(notes)')
    BY <1>1, <1>2, <1>5, <1>18 DEF NInv, Healed, Ready
  <2>2. /\ (bound'.stray /\ ~raced' /\ ~Lost') => stray' \/ Safe'
        /\ (bound'.stray /\ ~raced' /\ ~Lost' /\ "unlink" \in missed') => Safe'
    BY <1>1, <1>7, <1>8, <1>9 DEF NInv, Healed
  <2>3. (bound'.stray /\ bound'.old /\ ~raced' /\ ~Lost' /\ archive' # <<>>) => Torn' \/ Stray \in Texts(archive)'
    BY <1>1, <1>6, <1>7, <1>8 DEF NInv, Healed
  <2>4. (bound'.old /\ archive' = <<>>) => OldLast(notes)'
    BY <1>1, <1>2, <1>3, <1>4, <1>6
  <2> QED
    BY <2>1, <2>2, <2>3, <2>4 DEF Healed
<1>13. Kept'
  <2>1. written' \subseteq {Hand, Stray} \cup WId /\ (Stray \in written' => bound'.stray) /\ raced' \in BOOLEAN
    <3>1. w \in WId /\ w # Stray
      BY WorkspaceAssumption DEF WId
    <3> QED
      BY <1>1, <3>1 DEF NInv, Kept
  <2>2. ASSUME ~raced', NEW x \in written' \cap WId
        PROVE  x \in Entries(notes.log)' \/ ShortId[x] \in Ids(archive)'
    <3>1. CASE x = w
      BY <1>4, <1>6, <3>1
    <3>2. CASE x # w
      <4>1. x \in Entries(notes.log) \/ ShortId[x] \in Ids(archive)
        BY <1>1, <1>8, <2>2, <3>2 DEF NInv, Kept
      <4> QED
        BY <1>3, <1>4, <1>6, <1>8, <2>2, <4>1
    <3> QED
      BY <3>1, <3>2
  <2>3. (~raced' /\ Hand \in written') => Hand \in notes'.head
    <3>1. Hand # w
      BY WorkspaceAssumption
    <3> QED
      BY <1>1, <1>3, <1>4, <1>8, <3>1 DEF NInv, Kept
  <2> QED
    BY <2>1, <2>2, <2>3 DEF Kept
<1>15. base' \in [Wakeup -> Books] /\ base'[w] = NoNotes /\ \A v \in Wakeup \ {w} : base'[v] = base[v]
  BY <1>1, NoShape, BaseAfter
<1>16. Reader(w)'
  <2>1. Fit(base[w])'
    BY <1>15, <1>17, NoShape, StaysFit
  <2> QED
    BY <1>1, <1>2, <1>5, <1>7, <1>14, <2>1 DEF Reader
<1>19. Read'
  BY <1>1, <1>15 DEF NInv, Read
<1> QED
  BY <1>1, <1>10, <1>11, <1>12, <1>13, <1>14, <1>15, <1>16, <1>18, <1>19, BookStep

\* The worker drops the stray file, if it saw it and can.
LEMMA UnlinkStep ==
  ASSUME Types, NInv, bound' = bound, NEW w \in Wakeup, UnlinkStray(w)
  PROVE  NInv'
<1>1. /\ pc[w] = "unlink" /\ Go(w, "rotate") /\ UNCHANGED <<notes, archive, base, seen, written, raced, blind>>
      /\ legacy' = [legacy EXCEPT ![w] = FALSE]
      /\ \/ stray' = (stray /\ ~legacy[w]) /\ missed' = missed
         \/ legacy[w] /\ stray' = stray /\ missed' = missed \cup {"unlink"}
  BY DEF UnlinkStray, Notes, Errs, At
<1>2. /\ Fit(base[w]) /\ (legacy[w] /\ ~raced /\ ~Lost => Safe) /\ (stray => legacy[w] \/ Lost)
      /\ stray \in BOOLEAN /\ seen[w] = {}
  BY <1>1 DEF NInv, Reader, Healed
<1>3. (stray' => stray) /\ (stray' => missed' # {}) /\ (Lost' <=> Lost) /\ missed \subseteq missed'
      /\ (missed' = {} => missed = {})
  <2>1. CASE stray' = (stray /\ ~legacy[w]) /\ missed' = missed
    <3>1. stray' => stray /\ "find" \in missed
      BY <1>2, <2>1 DEF Lost
    <3> QED
      BY <2>1, <3>1 DEF Lost
  <2>2. CASE legacy[w] /\ stray' = stray /\ missed' = missed \cup {"unlink"}
    <3>1. missed' # {} /\ missed \subseteq missed' /\ ("find" \in missed' <=> "find" \in missed)
      BY <2>2
    <3> QED
      BY <2>2, <3>1 DEF Lost
  <2> QED
    BY <1>1, <2>1, <2>2
<1>4. /\ OldLast(notes)' = OldLast(notes)
      /\ Ids(archive)' = Ids(archive) /\ Texts(archive)' = Texts(archive)
      /\ Entries(notes.log)' = Entries(notes.log) /\ Texts(notes.log)' = Texts(notes.log)
  BY <1>1, Primes
<1>5. Torn' = Torn /\ Safe' = Safe
  BY <1>1, <1>4 DEF Torn, Safe
<1>9. pc'[w] = "rotate" /\ (\A v \in Wakeup \ {w} : pc'[v] = pc[v]) /\ Forward
  BY <1>1, PlaceAfter DEF Before, Provisioning
<1>12. Passing
  BY <1>1, <1>3, <1>9 DEF Passing
<1>6. Onward
  BY <1>1, <1>3, <1>4, <1>5, <1>12 DEF Onward
<1>13. Fit(notes)' /\ Filled(notes)' /\ (Ready(notes) => Ready(notes)')
  BY <1>1, <1>12, StaysFit DEF NInv
<1>7. Archived' /\ Kept'
  BY <1>1, <1>3, <1>4 DEF NInv, Archived, Kept
<1>8. Healed'
  <2>1. stray' \in BOOLEAN /\ missed' \subseteq {"find", "unlink"} /\ (stray' => bound'.stray /\ Ready(notes)')
    BY <1>1, <1>3, <1>13 DEF NInv, Healed
  <2>2. (bound'.stray /\ ~raced' /\ ~Lost') => stray' \/ Safe'
    BY <1>1, <1>2, <1>3, <1>5 DEF NInv, Healed
  <2>3. (bound'.stray /\ ~raced' /\ ~Lost' /\ "unlink" \in missed') => Safe'
    BY <1>1, <1>2, <1>3, <1>5 DEF NInv, Healed
  <2> QED
    BY <1>1, <1>3, <1>4, <1>5, <2>1, <2>2, <2>3 DEF NInv, Healed
<1>10. legacy' \in [Wakeup -> BOOLEAN] /\ ~legacy'[w] /\ \A v \in Wakeup \ {w} : legacy'[v] = legacy[v]
  BY <1>1, LegacyAfter
<1>11. Reader(w)'
  <2>1. Fit(base[w])'
    BY <1>1, <1>2, <1>12, StaysFit
  <2> QED
    BY <1>1, <1>2, <1>3, <1>9, <1>10, <2>1 DEF Reader
<1>14. Read'
  BY <1>1, <1>10 DEF NInv, Read
<1> QED
  BY <1>1, <1>6, <1>7, <1>8, <1>9, <1>10, <1>11, <1>13, <1>14, BookStep

\* The worker reads the notes again, and finds them too long, or not.
LEMMA OverfullStep ==
  ASSUME Types, NInv, bound' = bound, NEW w \in Wakeup, ReadOverfull(w)
  PROVE  NInv'
<1>1. /\ pc[w] = "rotate" /\ UNCHANGED <<notes, archive, stray, legacy, seen, written, raced, blind, missed>>
      /\ \/ IsOverfull(notes) /\ Go(w, "ids") /\ base' = [base EXCEPT ![w] = notes]
         \/ Go(w, "release") /\ base' = base
  BY DEF ReadOverfull, Notes, At
<1>2. CASE Go(w, "release") /\ base' = base
  <2>1. pc'[w] = "release" /\ (\A v \in Wakeup \ {w} : pc'[v] = pc[v]) /\ Forward
    <3>1. "release" \notin Before
      BY DEF Before, Provisioning
    <3> QED
      BY <1>2, <3>1, PlaceAfter
  <2>2. pc'[w] \notin Late /\ UNCHANGED book
    BY <1>1, <1>2, <2>1 DEF Late, book
  <2> QED
    BY <1>1, <2>1, <2>2, FarStep
<1>3. CASE IsOverfull(notes) /\ Go(w, "ids") /\ base' = [base EXCEPT ![w] = notes]
  <2>2. pc'[w] = "ids" /\ (\A v \in Wakeup \ {w} : pc'[v] = pc[v]) /\ Forward
    <3>1. "ids" \notin Before
      BY DEF Before, Provisioning
    <3> QED
      BY <1>3, <3>1, PlaceAfter
  <2>1. Onward /\ Fit(notes)' /\ Filled(notes)' /\ Archived' /\ Healed' /\ Kept'
    BY <1>1, <2>2, QuietStep
  <2>3. /\ notes \in Books /\ Fit(notes) /\ (stray => missed # {}) /\ (legacy[w] => bound.stray)
        /\ (stray => Ready(notes)) /\ seen[w] = {}
    BY <1>1 DEF NInv, Fit, Shape, Reader, Healed
  <2>4. base' \in [Wakeup -> Books] /\ base'[w] = notes /\ \A v \in Wakeup \ {w} : base'[v] = base[v]
    BY <1>3, <2>3, BaseAfter
  <2>5. Fit(base[w])' /\ IsOverfull(base[w])' = IsOverfull(notes)
        /\ OldLast(base[w])' = OldLast(notes) /\ (stray => Ready(base[w])')
    BY <2>1, <2>3, <2>4, Primes, StaysFit DEF Onward
  <2>6. ASSUME ~raced, ~Lost, bound.old, bound.stray, archive = <<>>
        PROVE  OldLast(notes) /\ Stray \in notes.log[Len(notes.log)].more
    <3>1. OldLast(notes) /\ Safe
      <4>1. OldLast(notes) /\ (stray \/ Safe) /\ ("unlink" \in missed => Safe) /\ missed \subseteq {"find", "unlink"}
        BY <2>6 DEF NInv, Healed
      <4> QED
        BY <2>3, <2>6, <4>1 DEF Lost
    <3>2. Stray \notin Texts(archive) /\ ~Torn
      BY <2>6 DEF Texts, ToSet, Torn
    <3>3. Stray \notin notes.head
      BY <2>3, <2>6 DEF Fit, Shape
    <3>4. Stray \in Texts(notes.log)
      BY <3>1, <3>2, <3>3 DEF Safe
    <3>5. Tame
      BY <2>6 DEF Tame
    <3> QED
      BY <2>3, <3>1, <3>4, <3>5, StrayIsLast
  <2>7. Reader(w)'
    <3>1. Lost' <=> Lost
      BY <1>1 DEF Lost
    <3> QED
      BY <1>1, <1>3, <2>2, <2>3, <2>4, <2>5, <2>6, <3>1 DEF Reader
  <2>8. Read'
    BY <1>1, <2>4 DEF NInv, Read
  <2> QED
    BY <1>1, <2>1, <2>2, <2>4, <2>7, <2>8, BookStep
<1> QED
  BY <1>1, <1>2, <1>3

\* The worker reads which ids the archive has, or cannot read it.
LEMMA IdsStep ==
  ASSUME Types, NInv, bound' = bound, NEW w \in Wakeup, ReadIds(w)
  PROVE  NInv'
<1>1. /\ pc[w] = "ids" /\ Go(w, "archive")
      /\ UNCHANGED <<notes, archive, stray, base, legacy, written, raced, blind, missed>>
      /\ seen' = [seen EXCEPT ![w] = Ids(archive)] \/ seen' = seen
  BY DEF ReadIds, Notes, Errs, At
<1>2. pc'[w] = "archive" /\ (\A v \in Wakeup \ {w} : pc'[v] = pc[v]) /\ Forward
  <2>1. "archive" \notin Before
    BY DEF Before, Provisioning
  <2> QED
    BY <1>1, <2>1, PlaceAfter
<1>3. Onward /\ Fit(notes)' /\ Filled(notes)' /\ Archived' /\ Healed' /\ Kept'
  BY <1>1, <1>2, QuietStep
<1>4. Reader(w) /\ seen[w] = {} /\ archive \in Seq(Piece)
  BY <1>1 DEF NInv, Reader, Archived
<1>5. Ids(archive) \in SUBSET Nat
  <2>1. \A x : x \in Ids(archive) <=> \E i \in 1..Len(archive) : ShortId[archive[i].of] = x
    BY <1>4, InLog
  <2>2. \A i \in 1..Len(archive) : archive[i].of \in WId
    <3>1. \A i \in 1..Len(archive) : archive[i] \in Piece
      BY <1>4
    <3>2. \A x \in Piece : x.of \in WId
      BY DEF Piece
    <3> QED
      BY <3>1, <3>2
  <2>3. \A x \in WId : ShortId[x] \in Nat
    BY WorkspaceAssumption DEF WId
  <2> QED
    BY <2>1, <2>2, <2>3
<1>6. /\ seen' \in [Wakeup -> SUBSET Nat] /\ \A v \in Wakeup \ {w} : seen'[v] = seen[v]
      /\ seen'[w] = Ids(archive) \/ seen'[w] = {}
  <2>1. CASE seen' = [seen EXCEPT ![w] = Ids(archive)]
    BY <1>5, <2>1, SeenAfter
  <2>2. CASE seen' = seen
    BY <1>4, <2>2 DEF NInv, Read
  <2> QED
    BY <1>1, <2>1, <2>2
<1>7. /\ Fit(base[w])' /\ (Ready(base[w]) => Ready(base[w])')
      /\ OldLast(base[w])' = OldLast(base[w])
      /\ IsOverfull(base[w])' = IsOverfull(base[w]) /\ Ids(archive)' = Ids(archive)
  BY <1>1, <1>3, <1>4, Primes, StaysFit DEF Onward, Reader
<1>8. Reader(w)'
  <2>1. Lost' <=> Lost
    BY <1>1 DEF Lost
  <2> QED
    BY <1>1, <1>2, <1>4, <1>6, <1>7, <2>1 DEF Reader
<1>9. Read'
  BY <1>1, <1>6 DEF NInv, Read
<1> QED
  BY <1>1, <1>2, <1>3, <1>6, <1>8, <1>9, BookStep

\* What a worker would append, from the ids that it has read.
LEMMA Appends ==
  ASSUME NInv, NEW w \in Wakeup, pc[w] = "archive", NEW r, r = ToArchive(base[w], seen[w])
  PROVE  /\ r \in Seq(Row)
         /\ \A j \in 1..Len(r) : ShortId[r[j].of] \notin seen[w]
         /\ missed = {} => \A j \in 1..Len(r) : Stray \in r[j].more => r[j].of = None
         /\ \A i, j \in 1..Len(r) : r[i].of = r[j].of => i = j
         /\ \A k \in Cut(base[w]) : \/ ShortId[base[w].log[k].of] \in Ids(archive)
                                    \/ \E j \in 1..Len(r) : r[j].of = base[w].log[k].of
         /\ (bound.stray /\ bound.old /\ ~raced /\ ~Lost /\ archive = <<>>) => r # <<>> /\ Stray \in r[1].more
<1> DEFINE n == base[w]
<1>2. /\ Shape(n) /\ Calm(n) /\ IsOverfull(n) /\ seen[w] \subseteq Ids(archive)
      /\ (~raced /\ ~Lost /\ bound.old /\ bound.stray /\ archive = <<>>) => Stray \in n.log[Len(n.log)].more
  BY DEF NInv, Reader, Fit
<1>3. /\ r \in Seq(Row)
      /\ \A j \in 1..Len(r) : /\ ShortId[r[j].of] \notin seen[w]
                              /\ \E k \in 1..Len(n.log) : r[j] = n.log[k]
      /\ \A i, j \in 1..Len(r) : r[i].of = r[j].of => i = j
      /\ \A k \in Cut(n) : ShortId[n.log[k].of] \in seen[w] \/ \E j \in 1..Len(r) : r[j].of = n.log[k].of
      /\ seen[w] = {} => r # <<>> /\ r[1] = n.log[Len(n.log)]
  <2> HIDE DEF n
  <2>1. r = ToArchive(n, seen[w])
    BY DEF n
  <2> QED
    BY <1>2, <2>1, GoesToArchive
<1>4. missed = {} => Tame
  BY DEF Tame, Lost
<1>5. missed = {} => \A j \in 1..Len(r) : Stray \in r[j].more => r[j].of = None
  BY <1>2, <1>3, <1>4 DEF Calm
<1>6. archive = <<>> => seen[w] = {}
  BY <1>2 DEF Ids, ToSet
<1> HIDE DEF n
<1>7. (bound.stray /\ bound.old /\ ~raced /\ ~Lost /\ archive = <<>>) => r # <<>> /\ Stray \in r[1].more
  BY <1>2, <1>3, <1>6
<1>8. \A k \in Cut(n) : ShortId[n.log[k].of] \in Ids(archive) \/ \E j \in 1..Len(r) : r[j].of = n.log[k].of
  BY <1>2, <1>3
<1> QED
  BY <1>3, <1>5, <1>7, <1>8 DEF n

\* The worker appends what it cuts to the archive.
LEMMA ArchiveStep ==
  ASSUME Types, NInv, bound' = bound, NEW w \in Wakeup, Archive(w)
  PROVE  NInv'
<1> DEFINE n == base[w]
           r == ToArchive(n, seen[w])
<1>1. /\ pc[w] = "archive" /\ Go(w, "rewrite") /\ UNCHANGED <<notes, stray, base, legacy, written, raced, missed>>
      /\ archive' = archive \o r /\ blind' = (blind \/ seen[w] # Ids(archive)) /\ seen' = [seen EXCEPT ![w] = {}]
  BY DEF Archive, Notes, At, Extend
<1>2. Reader(w)
  BY DEF NInv
<1>3. /\ r \in Seq(Row)
      /\ \A j \in 1..Len(r) : ShortId[r[j].of] \notin seen[w]
      /\ missed = {} => \A j \in 1..Len(r) : Stray \in r[j].more => r[j].of = None
      /\ \A i, j \in 1..Len(r) : r[i].of = r[j].of => i = j
      /\ \A k \in Cut(n) : ShortId[n.log[k].of] \in Ids(archive) \/ \E j \in 1..Len(r) : r[j].of = n.log[k].of
      /\ (bound.stray /\ bound.old /\ ~raced /\ ~Lost /\ archive = <<>>) => r # <<>> /\ Stray \in r[1].more
  BY <1>1, Appends
<1>4. r \in Seq(Piece)
  <2>1. Row \subseteq Piece
    BY DEF Row, Piece
  <2> QED
    BY <1>3, <2>1, SeqMonotonic
<1> HIDE DEF r
<1>7. pc'[w] = "rewrite" /\ (\A v \in Wakeup \ {w} : pc'[v] = pc[v]) /\ Forward
  <2>1. "rewrite" \notin Before
    BY DEF Before, Provisioning
  <2> QED
    BY <1>1, <2>1, PlaceAfter
<1>6. /\ Onward /\ Fit(notes)' /\ Filled(notes)' /\ Archived' /\ Healed' /\ Kept'
      /\ \A j \in 1..Len(r) : ShortId[r[j].of] \in Ids(archive)'
      /\ r # <<>> => archive' # <<>>
  BY <1>1, <1>3, <1>4, <1>7, ArchiveGrows
<1>8. /\ Fit(base[w])' /\ IsOverfull(base[w])' = IsOverfull(n) /\ Cut(base[w])' = Cut(n) /\ base'[w] = n
      /\ (Ready(n) => Ready(base[w])') /\ OldLast(base[w])' = OldLast(n)
  BY <1>1, <1>2, <1>6, Primes, StaysFit DEF Reader, Onward
<1>9. \A k \in Cut(n) : ShortId[n.log[k].of] \in Ids(archive)'
  BY <1>3, <1>6 DEF Onward
<1>10. (bound.stray /\ bound.old /\ ~raced /\ ~Lost) => archive' # <<>>
  BY <1>3, <1>6 DEF Onward, Passing
<1>5. seen' \in [Wakeup -> SUBSET Nat] /\ seen'[w] = {} /\ \A v \in Wakeup \ {w} : seen'[v] = seen[v]
  BY <1>1, SeenAfter
<1>11. Reader(w)'
  <2>1. Lost' <=> Lost
    BY <1>1 DEF Lost
  <2> QED
    BY <1>1, <1>2, <1>5, <1>7, <1>8, <1>9, <1>10, <2>1 DEF Reader
<1>12. Read'
  BY <1>1, <1>5 DEF NInv, Read
<1> QED
  BY <1>1, <1>5, <1>6, <1>7, <1>11, <1>12, BookStep

\* The worker is killed while it appends, or the disk is full: a beginning of what it cuts
\* is there.
LEMMA CutStep ==
  ASSUME Types, NInv, bound' = bound, NEW w \in Wakeup, ArchiveIsCut(w)
  PROVE  NInv'
<1> DEFINE n == base[w]
           r == ToArchive(n, seen[w])
<1>1. /\ pc[w] = "archive" /\ (Go(w, "killed") \/ Go(w, "release"))
      /\ UNCHANGED <<notes, stray, legacy, written, raced, missed>>
      /\ base' = [base EXCEPT ![w] = NoNotes]
      /\ blind' = (blind \/ seen[w] # Ids(archive)) /\ seen' = [seen EXCEPT ![w] = {}]
  BY DEF ArchiveIsCut, Errs, At, Extend
<1>2. Reader(w)
  BY DEF NInv
<1>3. /\ r \in Seq(Row)
      /\ \A j \in 1..Len(r) : ShortId[r[j].of] \notin seen[w]
      /\ missed = {} => \A j \in 1..Len(r) : Stray \in r[j].more => r[j].of = None
      /\ \A i, j \in 1..Len(r) : r[i].of = r[j].of => i = j
      /\ (bound.stray /\ bound.old /\ ~raced /\ ~Lost /\ archive = <<>>) => r # <<>> /\ Stray \in r[1].more
  BY <1>1, Appends
<1>4. PICK k \in 0..Len(r), torn \in BOOLEAN :
         /\ torn => k < Len(r)
         /\ archive' = archive \o (SubSeq(r, 1, k)
                                   \o (IF torn THEN <<Block(r[k + 1].of, {}, FALSE)>> ELSE <<>>))
  BY DEF ArchiveIsCut, Extend
<1> HIDE DEF r
<1>5. Len(r) \in Nat /\ k \in Nat /\ k <= Len(r) /\ \A j \in 1..Len(r) : r[j] \in Row /\ r[j] \in Piece /\ r[j].of \in WId
  <2>1. Len(r) \in Nat /\ \A j \in 1..Len(r) : r[j] \in Row
    BY <1>3
  <2>2. \A x \in Row : x \in Piece /\ x.of \in WId
    BY DEF Row, Piece
  <2>3. k \in Nat /\ k <= Len(r)
    BY <1>4, <2>1
  <2> QED
    BY <2>1, <2>2, <2>3
<1> DEFINE s == SubSeq(r, 1, k)
           b == Block(r[k + 1].of, {}, FALSE)
           t == IF torn THEN <<b>> ELSE <<>>
           q == s \o t
<1>6. s \in Seq(Piece) /\ Len(s) = k /\ \A j \in 1..k : s[j] = r[j]
  <2>1. \A j \in 1..k : r[j] \in Piece
    BY <1>5
  <2>2. /\ s \in Seq(Piece) /\ Len(s) = IF 1 <= k THEN k - 1 + 1 ELSE 0
        /\ \A j \in 1..k - 1 + 1 : s[j] = r[1 + j - 1]
    <3>1. 1 \in Int /\ k \in Int
      BY <1>5
    <3> QED
      BY ONLY <2>1, <3>1, SubSeqProperties
  <2>3. k - 1 + 1 = k /\ (~(1 <= k) => k = 0) /\ \A j \in 1..k : 1 + j - 1 = j
    BY <1>5
  <2> QED
    BY <2>2, <2>3
<1>7. torn => b \in Piece /\ b.of = r[k + 1].of /\ b.more = {} /\ ~b.whole /\ k + 1 \in 1..Len(r)
  <2>1. torn => k + 1 \in 1..Len(r)
    BY <1>4, <1>5
  <2> QED
    BY <1>5, <2>1 DEF Block, Piece
<1> HIDE DEF s, b
<1>8. /\ t \in Seq(Piece) /\ (torn => Len(t) = 1 /\ t[1] = b) /\ (~torn => t = <<>> /\ Len(t) = 0)
  BY <1>7
<1> HIDE DEF t
<1>9. /\ q \in Seq(Piece) /\ Len(q) = k + Len(t)
      /\ \A j \in 1..k + Len(t) : q[j] = IF j <= k THEN s[j] ELSE t[j - k]
  <2>1. s \in Seq(Piece) /\ t \in Seq(Piece) /\ Len(s) = k
    BY <1>6, <1>8
  <2> QED
    BY ONLY <2>1, ConcatProperties
<1>10. archive' = archive \o q
  BY <1>4 DEF s, t, b
<1> HIDE DEF q
<1>11. \A j \in 1..Len(q) : /\ j \in 1..Len(r)
                            /\ q[j] = r[j] \/ (q[j].of = r[j].of /\ q[j].more = {} /\ ~q[j].whole)
  <2> SUFFICES ASSUME NEW j \in 1..Len(q)
               PROVE  /\ j \in 1..Len(r)
                      /\ q[j] = r[j] \/ (q[j].of = r[j].of /\ q[j].more = {} /\ ~q[j].whole)
    OBVIOUS
  <2>1. CASE j <= k
    BY <1>5, <1>6, <1>8, <1>9, <2>1
  <2>2. CASE ~(j <= k)
    <3>1. torn /\ j = k + 1 /\ j - k = 1
      BY <1>5, <1>8, <1>9, <2>2
    <3> QED
      BY <1>5, <1>7, <1>8, <1>9, <2>2, <3>1
  <2> QED
    BY <2>1, <2>2
<1>12. /\ \A j \in 1..Len(q) : ShortId[q[j].of] \notin seen[w]
       /\ missed = {} => \A j \in 1..Len(q) : Stray \in q[j].more => q[j].of = None
  BY <1>3, <1>11
<1>13. \A i, j \in 1..Len(q) : q[i].of = q[j].of => i = j
  <2> SUFFICES ASSUME NEW i \in 1..Len(q), NEW j \in 1..Len(q), q[i].of = q[j].of PROVE i = j
    OBVIOUS
  <2>1. i \in 1..Len(r) /\ j \in 1..Len(r) /\ r[i].of = r[j].of
    BY <1>11
  <2> QED
    BY <1>3, <2>1
<1>14. (bound.stray /\ bound.old /\ ~raced /\ ~Lost /\ archive = <<>> /\ q # <<>>) => Stray \in q[1].more \/ ~q[1].whole
  <2> SUFFICES ASSUME bound.stray, bound.old, ~raced, ~Lost, archive = <<>>, q # <<>>
               PROVE  Stray \in q[1].more \/ ~q[1].whole
    OBVIOUS
  <2>1. 1 \in 1..Len(q)
    BY <1>9
  <2>2. Stray \in r[1].more
    BY <1>3
  <2> QED
    BY <1>11, <2>1, <2>2
<1>16. pc'[w] \in {"killed", "release"} /\ (\A v \in Wakeup \ {w} : pc'[v] = pc[v]) /\ Forward
  <2>1. "killed" \notin Before /\ "release" \notin Before
    BY DEF Before, Provisioning
  <2>2. CASE Go(w, "killed")
    BY <2>1, <2>2, PlaceAfter
  <2>3. CASE Go(w, "release")
    BY <2>1, <2>3, PlaceAfter
  <2> QED
    BY <1>1, <2>2, <2>3
<1>15. Onward /\ Fit(notes)' /\ Filled(notes)' /\ Archived' /\ Healed' /\ Kept'
  BY <1>1, <1>9, <1>10, <1>12, <1>13, <1>14, <1>16, ArchiveGrows
<1>17. base' \in [Wakeup -> Books] /\ base'[w] = NoNotes /\ \A v \in Wakeup \ {w} : base'[v] = base[v]
  BY <1>1, NoShape, BaseAfter
<1>19. seen' \in [Wakeup -> SUBSET Nat] /\ seen'[w] = {} /\ \A v \in Wakeup \ {w} : seen'[v] = seen[v]
  BY <1>1, SeenAfter
<1>18. Reader(w)'
  <2>1. Fit(base[w])'
    BY <1>15, <1>17, NoShape, StaysFit DEF Onward
  <2> QED
    BY <1>1, <1>2, <1>16, <1>19, <2>1 DEF Reader
<1>20. Read'
  BY <1>1, <1>17, <1>19 DEF NInv, Read
<1> QED
  BY <1>1, <1>15, <1>16, <1>17, <1>18, <1>19, <1>20, BookStep

\* The worker cuts the notes down to the newest half.
LEMMA RewriteStep ==
  ASSUME Types, NInv, bound' = bound, NEW w \in Wakeup, RewriteNotes(w)
  PROVE  NInv'
<1> DEFINE n == base[w]
<1>1. /\ pc[w] = "rewrite" /\ Go(w, "release") /\ UNCHANGED <<archive, stray, legacy, seen, written, blind, missed>>
      /\ notes' = Rotated(n) /\ raced' = (raced \/ notes # n)
      /\ base' = [base EXCEPT ![w] = NoNotes]
  BY DEF RewriteNotes, Notes, At, Replace
<1>2. /\ Fit(n) /\ IsOverfull(n) /\ (stray => missed # {} /\ Ready(n)) /\ (legacy[w] => bound.stray) /\ seen[w] = {}
      /\ \A k \in Cut(n) : ShortId[n.log[k].of] \in Ids(archive)
  BY <1>1 DEF NInv, Reader
<1> HIDE DEF n
<1>3. /\ Fit(notes') /\ notes'.head = n.head /\ notes'.log # <<>> /\ Cut(n) # {} /\ n.log # <<>>
      /\ \A x \in Entries(n.log) : x \in Entries(notes'.log) \/ \E k \in Cut(n) : n.log[k].of = x
      /\ Stray \in Texts(n.log) => Lost \/ bound.old
  BY <1>1, <1>2, RotatedIs
<1>4. /\ Ids(archive)' = Ids(archive) /\ Texts(archive)' = Texts(archive)
      /\ Entries(notes.log)' = Entries(notes'.log) /\ Texts(notes.log)' = Texts(notes'.log)
  BY <1>1, Primes
<1>5. archive # <<>>
  <2>1. Ids(archive) # {}
    BY <1>2, <1>3
  <2> QED
    BY <2>1 DEF Ids, ToSet
<1>6. ~raced' => ~raced /\ notes = n
  BY <1>1
<1>7. Torn' = Torn /\ (Lost' <=> Lost)
  BY <1>1 DEF Torn, Lost
<1>8. (bound.stray /\ ~raced' /\ ~Lost /\ Safe) => Safe'
  <2> SUFFICES ASSUME bound.stray, ~raced', ~Lost, Safe PROVE Safe'
    OBVIOUS
  <2>1. CASE Stray \in notes.head
    BY <1>3, <1>6, <2>1 DEF Safe
  <2>2. CASE Stray \in Texts(archive) \/ Torn
    BY <1>4, <1>7, <2>2 DEF Safe
  <2>3. CASE Stray \in Texts(notes.log)
    <3>1. bound.old
      BY <1>3, <1>6, <2>3
    <3>2. Torn \/ Stray \in Texts(archive)
      BY <1>5, <1>6, <3>1 DEF NInv, Healed
    <3> QED
      BY <2>2, <3>2
  <2> QED
    BY <2>1, <2>2, <2>3 DEF Safe
<1>13. pc'[w] = "release" /\ (\A v \in Wakeup \ {w} : pc'[v] = pc[v]) /\ Forward
  <2>1. "release" \notin Before
    BY DEF Before, Provisioning
  <2> QED
    BY <1>1, <2>1, PlaceAfter
<1>16. Passing
  BY <1>1, <1>13 DEF Passing
<1>9. Onward
  BY <1>1, <1>4, <1>7, <1>8, <1>16 DEF Onward
<1>17. stray => Ready(notes')
  <2> SUFFICES ASSUME stray, ~Lost PROVE Ready(notes')
    BY DEF Ready
  <2>1. missed # {} /\ missed \subseteq {"find", "unlink"}
    BY <1>2 DEF NInv, Healed
  <2>2. ~Tame
    BY <1>5, <2>1 DEF Tame, Lost
  <2>3. CASE bound.old
    BY <2>2, <2>3 DEF Ready
  <2>4. CASE ~bound.old
    <3>1. IsFolded(n)
      BY <1>2, <1>3, <2>4 DEF Ready
    <3>2. Stray \in n.head
      BY <1>3, <2>4, <3>1 DEF IsFolded
    <3> QED
      BY <1>3, <3>2 DEF Ready, IsFolded
  <2> QED
    BY <2>3, <2>4
<1>18. Fit(notes)' /\ Filled(notes)' /\ (stray => Ready(notes)')
  <2>1. Filled(notes')
    BY <1>3 DEF Filled
  <2> QED
    BY <1>3, <1>16, <1>17, <2>1, StaysFit
<1>10. Archived'
  BY <1>1 DEF NInv, Archived
<1>11. Healed'
  <2>1. /\ stray' \in BOOLEAN /\ missed' \subseteq {"find", "unlink"} /\ (stray' => bound'.stray /\ Ready(notes)')
    BY <1>1, <1>18 DEF NInv, Healed
  <2>2. /\ (bound'.stray /\ ~raced' /\ ~Lost') => stray' \/ Safe'
        /\ (bound'.stray /\ ~raced' /\ ~Lost' /\ "unlink" \in missed') => Safe'
    BY <1>1, <1>6, <1>7, <1>8 DEF NInv, Healed
  <2>3. (bound'.stray /\ bound'.old /\ ~raced' /\ ~Lost' /\ archive' # <<>>) => Torn' \/ Stray \in Texts(archive)'
    BY <1>1, <1>4, <1>6, <1>7 DEF NInv, Healed
  <2> QED
    BY <1>1, <1>5, <2>1, <2>2, <2>3 DEF Healed
<1>12. Kept'
  <2>1. ASSUME ~raced', NEW x \in written' \cap WId
        PROVE  x \in Entries(notes.log)' \/ ShortId[x] \in Ids(archive)'
    <3>1. x \in Entries(n.log) \/ ShortId[x] \in Ids(archive)
      BY <1>1, <1>6, <2>1 DEF NInv, Kept
    <3> QED
      BY <1>2, <1>3, <1>4, <3>1
  <2>2. (~raced' /\ Hand \in written') => Hand \in notes'.head
    BY <1>1, <1>3, <1>6 DEF NInv, Kept
  <2>3. written' \subseteq {Hand, Stray} \cup WId /\ (Stray \in written' => bound'.stray) /\ raced' \in BOOLEAN
    BY <1>1 DEF NInv, Kept
  <2> QED
    BY <2>1, <2>2, <2>3 DEF Kept
<1>14. base' \in [Wakeup -> Books] /\ base'[w] = NoNotes /\ \A v \in Wakeup \ {w} : base'[v] = base[v]
  BY <1>1, NoShape, BaseAfter DEF n
<1>15. Reader(w)'
  <2>1. Fit(base[w])'
    BY <1>14, <1>16, NoShape, StaysFit
  <2> QED
    BY <1>1, <1>2, <1>13, <2>1 DEF Reader
<1>19. Read'
  BY <1>1, <1>14 DEF NInv, Read
<1> QED
  BY <1>1, <1>9, <1>10, <1>11, <1>12, <1>13, <1>14, <1>15, <1>18, <1>19, BookStep

\* The first notes are those of an old version, or none.
LEMMA NInvInit ==
  ASSUME Init
  PROVE  NInv
<1> DEFINE b == Block(None, {}, TRUE)
           l == IF bound.old THEN <<b>> ELSE <<>>
<1>1. notes = [NoNotes EXCEPT !.log = l] /\ archive = <<>> /\ stray = bound.stray /\ raced = FALSE
      /\ written = Entries(notes.log) \cup (IF stray THEN {Stray} ELSE {}) /\ blind = FALSE /\ missed = {}
      /\ base = [w \in Wakeup |-> NoNotes] /\ legacy = [w \in Wakeup |-> FALSE] /\ pc = [w \in Wakeup |-> "idle"]
      /\ seen = [w \in Wakeup |-> {}]
      /\ bound.old \in BOOLEAN /\ bound.stray \in BOOLEAN
  BY WorkspaceAssumption DEF Init
<1>2. b \in Row /\ b.of = None /\ b.more = {} /\ b.whole
  BY DEF Block, Row, WId
<1> HIDE DEF b
<1>3. l \in Seq(Row) /\ (bound.old => Len(l) = 1 /\ l[1] = b /\ l # <<>>) /\ (~bound.old => Len(l) = 0 /\ l = <<>>)
  BY <1>1, <1>2
<1> HIDE DEF l
<1>4. notes = [head |-> {}, log |-> l]
  BY <1>1 DEF NoNotes
<1>5. notes.head = {} /\ notes.log = l
  BY <1>4
<1>6. Fit(notes) /\ Filled(notes) /\ OldLast(notes) = bound.old
  <2>1. notes \in Books
    BY <1>3, <1>4 DEF Books, Row, WId
  <2>2. ASSUME NEW i \in 1..Len(l) PROVE bound.old /\ i = Len(l) /\ Len(l) = 1 /\ l[i] = b
    <3>1. CASE bound.old
      <4>0. Len(l) = 1
        BY ONLY <1>3, <3>1
      <4>1. i = 1
        BY ONLY <4>0, i \in 1..Len(l)
      <4> QED
        BY <1>3, <3>1, <4>0, <4>1
    <3>2. CASE ~bound.old
      BY <1>3, <3>2
    <3> QED
      BY <3>1, <3>2
  <2>3. Stray \notin notes.head
    BY <1>5
  <2>4. Shape(notes)
    BY <1>2, <1>5, <2>1, <2>2, <2>3 DEF Shape
  <2>5. Calm(notes)
    BY <1>2, <1>5, <2>2 DEF Calm
  <2>6. \A v \in Wakeup : v # None
    BY Rows
  <2>7. Unwritten(notes)
    BY <1>2, <1>5, <2>2, <2>6 DEF Unwritten
  <2>8. Filled(notes)
    BY <1>3, <1>5 DEF Filled
  <2>9. OldLast(notes) = bound.old
    BY <1>1, <1>2, <1>3, <1>5 DEF OldLast
  <2> QED
    BY <2>4, <2>5, <2>7, <2>8, <2>9 DEF Fit
<1>7. Archived
  <2>1. archive \in Seq(Piece) /\ Len(archive) = 0
    BY <1>1
  <2>2. \A i \in 1..Len(archive) : FALSE
    BY <2>1
  <2>3. blind \in BOOLEAN /\ missed = {}
    BY <1>1
  <2> QED
    BY <2>1, <2>2, <2>3 DEF Archived
<1>8. Healed
  BY <1>1, <1>3, <1>5, <1>6 DEF Healed, Ready, Lost
<1>9. Kept
  <2>1. \A x : x \in Entries(l) <=> \E i \in 1..Len(l) : l[i].of = x /\ l[i].whole
    BY <1>3, InLog
  <2>2. \A x \in Entries(l) : x = None
    BY <1>1, <1>2, <1>3, <2>1
  <2>3. None \in WId /\ Stray \notin WId /\ Hand \notin WId /\ Hand # Stray
    BY WorkspaceAssumption DEF WId
  <2> QED
    BY <1>1, <1>5, <2>2, <2>3 DEF Kept
<1>10. \A w \in Wakeup : Reader(w)
  BY <1>1, NoShape DEF Reader
<1>11. Read
  BY <1>1, NoShape DEF Read
<1> QED
  BY <1>6, <1>7, <1>8, <1>9, <1>10, <1>11 DEF NInv

-----------------------------------------------------------------------------
(* The theorems. *)

\* Every step keeps the invariant of the notes.
LEMMA NInvStep ==
  ASSUME Types, Placed, NInv, [Next]_vars
  PROVE  NInv'
<1>1. CASE UNCHANGED vars
  <2>1. UNCHANGED <<notes, archive, stray, base, legacy, seen, written, raced, blind, missed, pc, bound>>
    BY <1>1 DEF vars, book
  <2>2. Onward /\ Fit(notes)' /\ Filled(notes)' /\ Archived' /\ Healed' /\ Kept'
    BY <2>1, QuietStep DEF Forward
  <2>3. \A w \in Wakeup : Reader(w)'
    BY <2>1, <2>2, OtherReader DEF NInv, Archived
  <2>4. Read'
    BY <2>1 DEF NInv, Read
  <2> QED
    BY <2>2, <2>3, <2>4 DEF NInv
<1> SUFFICES ASSUME bound' = bound, NEW w \in Wakeup,
                    \/ \E t \in Task : Begin(w, t)
                    \/ Provision(w) \/ WriteFile(w) \/ EditNotes(w) \/ Note(w) \/ CleanUp(w)
                    \/ \E how \in {"completed", "quiet", "failed", "error"} : Finish(w, how)
                    \/ Kill(w) \/ ArchiveIsCut(w)
             PROVE  NInv'
  BY <1>1 DEF Next
<1>2. CASE EditNotes(w) \/ ArchiveIsCut(w)
  BY <1>2, EditStep, CutStep
<1>5. CASE Kill(w) \/ NotesFail(w)
  <2>1. Forget(w) /\ \E p \in {"killed", "release"} : Go(w, p)
    BY <1>5 DEF Kill, NotesFail, Errs, At
  <2> QED
    BY <2>1, ForgetStep
<1>3. CASE ReadNotes(w) \/ FindStray(w) \/ AppendEntry(w) \/ UnlinkStray(w) \/ ReadOverfull(w)
           \/ ReadIds(w) \/ Archive(w) \/ RewriteNotes(w)
  BY <1>3, ReadStep, FindStep, AppendStep, UnlinkStep, OverfullStep, IdsStep, ArchiveStep, RewriteStep
<1>4. CASE \/ \E t \in Task : Begin(w, t)
           \/ Provision(w) \/ WriteFile(w) \/ Summarize(w) \/ CleanUp(w)
           \/ \E how \in {"completed", "quiet", "failed", "error"} : Finish(w, how)
  <2>1. UNCHANGED book /\ (pc' = pc \/ \E p : p \notin Late /\ (p \notin Before \/ pc[w] \in Before) /\ Go(w, p))
        /\ (pc[w] # "archive" \/ pc' = pc)
    <3>1. CASE Provision(w)
      BY <3>1 DEF Late, Before, Provisioning, Provision, PrepareDir, MakeKey, StartAgent, AddKey, CloneBegins,
         CloneEnds, SwitchBranch, Step, Refused, Raises, Quits, IsGit
    <3>2. CASE ~Provision(w)
      BY <1>4, <3>2 DEF Late, Before, Provisioning, Begin, WriteFile, Summarize, Notes, At, CleanUp, Release,
         CleanGit, CleanTree, Clean, Finish, IsGit
    <3> QED
      BY <3>1, <3>2
  <2>2. ((pc'[w] \notin Late /\ pc[w] # "archive") \/ pc' = pc) /\ (\A v \in Wakeup \ {w} : pc'[v] = pc[v]) /\ Forward
    <3>1. CASE pc' = pc
      BY <3>1 DEF Forward
    <3>2. CASE pc' # pc
      BY <2>1, <3>2, PlaceAfter
    <3> QED
      BY <3>1, <3>2
  <2> QED
    BY <2>1, <2>2, FarStep
<1> QED
  BY <1>2, <1>3, <1>4, <1>5 DEF Note

\* A set whose members are one and the same has at most one.
LEMMA AtMostOne ==
  ASSUME NEW S, \A x, y \in S : x = y
  PROVE  Cardinality(S) \in Nat /\ Cardinality(S) <= 1
<1>1. CASE S = {}
  BY <1>1, FS_EmptySet
<1>2. CASE S # {}
  <2>1. PICK x : S = {x}
    <3>1. PICK x \in S : TRUE
      BY <1>2
    <3>2. S = {x}
      BY <3>1
    <3> QED
      BY <3>2
  <2>2. Cardinality(S) = 1
    BY <2>1, FS_Singleton
  <2> QED
    BY <2>2
<1> QED
  BY <1>1, <1>2

\* The stray text is at one place of the notes and at one of the archive.
LEMMA NInvFolded ==
  ASSUME NInv
  PROVE  FoldedOnce
<1> DEFINE Has(log) == {i \in DOMAIN log : Stray \in log[i].more}
<1>1. /\ notes.log \in Seq(Row)
      /\ \A i, j \in 1..Len(notes.log) : Stray \in notes.log[i].more /\ Stray \in notes.log[j].more => i = j
      /\ Stray \in notes.head => \A i \in 1..Len(notes.log) : Stray \notin notes.log[i].more
  BY ShapeIs DEF NInv, Fit, Shape
<1>2. /\ archive \in Seq(Piece)
      /\ (missed = {} /\ ~blind) => \A i, j \in 1..Len(archive) :
                                        Stray \in archive[i].more /\ Stray \in archive[j].more => i = j
  BY DEF NInv, Archived
<1>3. DOMAIN notes.log = 1..Len(notes.log) /\ DOMAIN archive = 1..Len(archive)
  BY <1>1, <1>2
<1>4. \A i, j \in Has(notes.log) : i = j
  BY <1>1, <1>3
<1>5. (missed = {} /\ ~blind) => \A i, j \in Has(archive) : i = j
  BY <1>2, <1>3
<1>6. Stray \in notes.head => Has(notes.log) = {}
  BY <1>1, <1>3
<1>7. missed # {} \/ blind \/ Cardinality(Has(archive)) <= 1
  <2> HIDE DEF Has
  <2> QED
    BY <1>5, AtMostOne
<1>8. Cardinality(Has(notes.log)) \in Nat /\ Cardinality(Has(notes.log)) <= 1
  <2> HIDE DEF Has
  <2> QED
    BY <1>4, AtMostOne
<1>9. Stray \in notes.head => Cardinality(Has(notes.log)) = 0
  BY <1>6, FS_EmptySet
<1>10. Cardinality(Has(notes.log)) + (IF Stray \in notes.head THEN 1 ELSE 0) <= 1
  <2> HIDE DEF Has
  <2> QED
    BY <1>8, <1>9
<1> QED
  BY <1>7, <1>10 DEF FoldedOnce

\* The archive has no entry twice.
LEMMA NInvOnce ==
  ASSUME NInv
  PROVE  ArchivedOnce
<1>1. archive \in Seq(Piece)
  BY DEF NInv, Archived
<1>2. DOMAIN archive = 1..Len(archive)
  BY <1>1
<1> QED
  BY <1>2 DEF NInv, Archived, ArchivedOnce

\* What was written is found.
LEMMA NInvKept ==
  ASSUME NInv
  PROVE  NothingIsForgotten
<1> SUFFICES ASSUME ~raced, NEW x \in written
             PROVE  Found(x) \/ Shadowed(x) \/ (x = Stray /\ (Torn \/ "find" \in missed))
  BY DEF NothingIsForgotten
<1>1. CASE x = Hand
  BY <1>1 DEF NInv, Kept, Found
<1>2. CASE x = Stray
  BY <1>2 DEF NInv, Kept, Healed, Safe, Found, Lost
<1>3. CASE x \in WId
  BY <1>3 DEF NInv, Kept, Found, Shadowed, WId
<1> QED
  BY <1>1, <1>2, <1>3 DEF NInv, Kept

\* Every variable keeps its type: what the notes, the archive and a reader's copy are made
\* of (wakeup_summary.py), and the tables and the disk.
THEOREM TypesHold == Spec => []TypeOK
<1>1. Init => IInv /\ NInv
  BY IInvInit, NInvInit
<1>2. (IInv /\ NInv) /\ [Next]_vars => (IInv /\ NInv)'
  BY IInvStep, NInvStep DEF IInv
<1>3. IInv /\ NInv => TypeOK
  BY DEF IInv, Types, NInv, Read, Fit, Shape, Archived, Healed, Kept, TypeOK, Place, DirRow, WId
<1> QED
  BY <1>1, <1>2, <1>3, PTL DEF Spec

\* "Never loses an entry", "deduped by wakeup id" (wakeup_summary.py 431-434), "without folding
\* the content in twice" (285-288): of what the agent wrote, and what was written for it,
\* nothing is lost to a kill, to a file that fails, to the heal or to the rotation while no
\* worker overwrites what it has not read, but for an entry whose short id is in the archive
\* already, and the stray text below a torn block or once it could not be read; the archive
\* has no entry twice while no worker appends to it unread; and the stray text is in the
\* notes once, and in the archive once while the stray file can be read and removed as well.
THEOREM NotebookHolds == Spec => []NotebookIsSound
<1>1. Init => IInv /\ NInv
  BY IInvInit, NInvInit
<1>2. (IInv /\ NInv) /\ [Next]_vars => (IInv /\ NInv)'
  BY IInvStep, NInvStep DEF IInv
<1>3. NInv => NotebookIsSound
  BY NInvFolded, NInvKept, NInvOnce DEF NotebookIsSound
<1> QED
  BY <1>1, <1>2, <1>3, PTL DEF Spec

=============================================================================
