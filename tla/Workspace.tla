------------------------------ MODULE Workspace ------------------------------
(***************************************************************************)
(* What the wakeups of one agent leave on disk: the sandbox of each task   *)
(* (runtime/worktree.py), the git overlay with its key and ssh-agent       *)
(* (runtime/git_context.py), and the agent's notes with their archive      *)
(* (runtime/wakeup_summary.py), in the order in which a run-task worker    *)
(* uses them. Workers are killed, and a worker whose lease ran out goes on *)
(* beside its successor.                                                   *)
(***************************************************************************)
EXTENDS Notebook, FiniteSets

CONSTANTS
    Task, GitTask,      \* the agent's tasks; those with a git_context
    Wakeup, None,       \* its wakeups in the order of their start: 1..n, and 0 for none
    Hand,               \* text that the agent writes above the log
    Bound               \* bounds: how many wakeups run, of which tasks, on which notes, with
                        \* which cheap models for the summary, and how many faults of which kinds

ASSUME WorkspaceAssumption ==
    /\ GitTask \subseteq Task /\ None = 0 /\ Wakeup = 1..Cardinality(Wakeup)
    /\ ShortId \in [{None} \cup Wakeup -> Nat] /\ MaxEntries \in Nat
    /\ Hand # Stray /\ {Hand, Stray} \cap ({None} \cup Wakeup) = {}
    /\ \A b \in Bound : b.tasks \subseteq Task /\ {b.wakeups, b.faults} \subseteq Nat /\ b.old \in BOOLEAN /\ b.stray \in BOOLEAN

VARIABLES
    status, holder,     \* of each task: tasks.status and lease_holder
    rows,               \* wakeups with ended_at IS NULL
    pc, at, end,        \* of each wakeup: where its worker is, on which task, how it ended
    dir, ssh, agents,   \* <task>/ and <task>.ssh/ on disk; wakeups whose ssh-agent lives
    notes, archive, stray,  \* the notes file, its archive; is there a stray one
    base, legacy, seen, \* the notes and the ids of the archive that a worker has read;
                        \* whether it saw the stray file
    written,            \* history: all that was ever written;
    raced, blind,       \* an edit was overwritten unread; the archive was appended to unread;
    missed,             \* the stray file could not be read, or not be removed
    faults,
    bound       \* the bounds of this behaviour, never changed

db    == <<status, holder, rows>>
disk  == <<dir, ssh, agents>>
book  == <<notes, archive, stray, base, legacy, seen, written, raced, blind, missed>>
vars  == <<db, pc, at, end, disk, book, faults, bound>>

Gone     == [what |-> "none", by |-> None]
Content(what, w) == [what |-> what, by |-> w]
Provisioning == {"key", "agent", "add", "clone", "cloning", "switch"}
Noting   == {"summary", "read", "fold", "write", "unlink", "rotate", "ids", "archive", "rewrite"}
Cleaning == {"release", "git", "tree"}
Alive    == {"dir", "work"} \cup Provisioning \cup Noting \cup Cleaning
Endings  == {"completed", "quiet", "failed", "error", "refused", "raised"}
Books    == [head : SUBSET {Hand, Stray}, log : Seq([of : {None} \cup Wakeup, more : SUBSET {Stray}, whole : {TRUE}])]

TypeOK ==
    /\ status \in [Task -> {"pending", "in_progress", "completed", "failed"}]
    /\ holder \in [Task -> {None} \cup Wakeup] /\ rows \subseteq Wakeup
    /\ pc \in [Wakeup -> {"idle", "over", "killed"} \cup Alive]
    /\ at \in [Wakeup -> {None} \cup Task] /\ end \in [Wakeup -> {"none"} \cup Endings]
    /\ dir \in [Task -> [what : {"none", "empty", "files", "partial", "base", "target"}, by : {None} \cup Wakeup]]
    /\ ssh \in [Task -> SUBSET {"key", "pub"}] /\ agents \subseteq Wakeup
    /\ notes \in Books /\ \A w \in Wakeup : base[w] \in Books
    /\ stray \in BOOLEAN /\ legacy \in [Wakeup -> BOOLEAN] /\ seen \in [Wakeup -> SUBSET Nat]
    /\ raced \in BOOLEAN /\ blind \in BOOLEAN /\ missed \subseteq {"find", "unlink"}
    /\ written \subseteq {Hand, Stray, None} \cup Wakeup /\ faults \in 0..bound.faults /\ bound \in Bound

NoNotes == [head |-> {}, log |-> <<>>]

\* A notebook with an entry, or a new one; the stray file of the old version.
Init ==
    /\ status = [t \in Task |-> "pending"] /\ holder = [t \in Task |-> None] /\ rows = {}
    /\ pc = [w \in Wakeup |-> "idle"] /\ at = [w \in Wakeup |-> None] /\ end = [w \in Wakeup |-> "none"]
    /\ dir = [t \in Task |-> Gone] /\ ssh = [t \in Task |-> {}] /\ agents = {}
    /\ bound \in Bound
    /\ notes = [NoNotes EXCEPT !.log = IF bound.old THEN <<Block(None, {}, TRUE)>> ELSE <<>>]
    /\ archive = <<>> /\ stray = bound.stray
    /\ base = [w \in Wakeup |-> NoNotes] /\ legacy = [w \in Wakeup |-> FALSE]
    /\ seen = [w \in Wakeup |-> {}]
    /\ written = Entries(notes.log) \cup (IF stray THEN {Stray} ELSE {})
    /\ raced = FALSE /\ blind = FALSE /\ missed = {}
    /\ faults = 0

Fault(kind) == kind \in bound.kinds /\ faults < bound.faults /\ faults' = faults + 1
Go(w, place) == pc' = [pc EXCEPT ![w] = place]
IsGit(w) == at[w] \in GitTask

-----------------------------------------------------------------------------
(* The lease, in outline: TaskLease has it in full. *)

\* has_active_for_agent: an open row of a task that is not over.
HasActive == \E w \in rows : status[at[w]] \in {"pending", "in_progress"}

\* A pending task is dispatched; one whose worker was killed, or stalls, is
\* recovered when its lease has run out.
MayRun(t) ==
    \/ status[t] = "pending" /\ ~HasActive /\ UNCHANGED faults
    \/ status[t] = "in_progress" /\ holder[t] # None /\ pc[holder[t]] = "killed" /\ UNCHANGED faults
    \/ status[t] = "in_progress" /\ holder[t] # None /\ pc[holder[t]] \in Alive /\ Fault("stall")

Begin(w, t) ==
    /\ w <= bound.wakeups /\ pc[w] = "idle" /\ \A v \in Wakeup : v < w => pc[v] # "idle"
    /\ t \in bound.tasks /\ MayRun(t)
    /\ status' = [status EXCEPT ![t] = "in_progress"] /\ holder' = [holder EXCEPT ![t] = w]
    /\ rows' = {v \in rows : at[v] # t} \cup {w}
    /\ at' = [at EXCEPT ![w] = t] /\ Go(w, "dir")
    /\ UNCHANGED <<end, disk, book>>

\* What a worker has read goes with it; the files stay.
Forget(w) ==
    /\ base' = [base EXCEPT ![w] = NoNotes] /\ legacy' = [legacy EXCEPT ![w] = FALSE]
    /\ seen' = [seen EXCEPT ![w] = {}]
    /\ UNCHANGED <<notes, archive, stray, written, raced, blind, missed>>

Kill(w) ==
    /\ pc[w] \in Alive /\ Fault("kill") /\ Go(w, "killed") /\ Forget(w)
    /\ UNCHANGED <<db, at, end, disk>>

-----------------------------------------------------------------------------
(* Provisioning. Each command succeeds, is refused, or hangs until it is
   killed; _run raises then, past the code that stops the ssh-agent. *)

\* WorktreeManager.prepare: mkdir, or what is there.
PrepareDir(w) ==
    /\ pc[w] = "dir" /\ Go(w, IF IsGit(w) THEN "key" ELSE "work")
    /\ dir' = IF dir[at[w]] = Gone THEN [dir EXCEPT ![at[w]] = Content("empty", None)] ELSE dir
    /\ UNCHANGED <<db, at, end, ssh, agents, book, faults>>

Step(w, next) == Go(w, next) /\ UNCHANGED <<db, at, end, book, faults>>

\* The task fails, whoever holds it; what is on disk stays.
Quits(w, how) ==
    /\ Go(w, "over") /\ end' = [end EXCEPT ![w] = how]
    /\ holder' = IF holder[at[w]] = w THEN [holder EXCEPT ![at[w]] = None] ELSE holder
    /\ status' = [status EXCEPT ![at[w]] = "failed"]
    /\ UNCHANGED <<rows, at, book>>

\* A command is refused: the ssh-agent, if there is one, is killed.
Refused(w) ==
    Quits(w, "refused") /\ agents' = agents \ {w} /\ UNCHANGED <<ssh, faults>>

\* A command hangs, or cannot be started: nothing is cleaned up.
Raises(w) == Quits(w, "raised") /\ UNCHANGED agents

Leave(w, keys) == ssh' = [ssh EXCEPT ![at[w]] = keys]

\* A key of an earlier attempt is used again.
MakeKey(w) ==
    LET keys == ssh[at[w]] IN
    /\ pc[w] = "key" /\ UNCHANGED dir
    /\ \/ keys = {} /\ Step(w, "agent") /\ Leave(w, {"key", "pub"}) /\ UNCHANGED agents
       \/ keys = {} /\ Refused(w)
       \/ keys = {} /\ Raises(w) /\ Fault("hang") /\ (Leave(w, {"key"}) \/ Leave(w, {}))
       \/ keys = {"key"} /\ Raises(w) /\ UNCHANGED <<ssh, faults>>
       \/ keys = {"key", "pub"} /\ Step(w, "agent") /\ UNCHANGED <<ssh, agents>>

\* An agent whose output cannot be parsed is killed.
StartAgent(w) ==
    /\ pc[w] = "agent" /\ UNCHANGED dir
    /\ \/ Step(w, "add") /\ agents' = agents \cup {w} /\ UNCHANGED ssh
       \/ Refused(w)

AddKey(w) ==
    /\ pc[w] = "add" /\ UNCHANGED dir
    /\ \/ "key" \in ssh[at[w]] /\ Step(w, "clone") /\ UNCHANGED <<ssh, agents>>
       \/ Refused(w)
       \/ Raises(w) /\ Fault("hang") /\ UNCHANGED ssh

Fill(w, what) == dir' = [dir EXCEPT ![at[w]] = Content(what, w)]

\* (slip) the clone does not mind what it finds
MCloneBegins(w) ==
    /\ pc[w] = "clone"
    /\ \/ dir[at[w]] # Gone /\ Step(w, "cloning") /\ Fill(w, "partial") /\ UNCHANGED <<ssh, agents>>
       \/ dir[at[w]] = Gone /\ Raises(w) /\ UNCHANGED <<dir, ssh, faults>>

\* git clone . wants an empty directory; without one it is not even started.
CloneBegins(w) ==
    LET found == dir[at[w]].what IN
    /\ pc[w] = "clone"
    /\ \/ found = "empty" /\ Step(w, "cloning") /\ Fill(w, "partial") /\ UNCHANGED <<ssh, agents>>
       \/ found \notin {"none", "empty"} /\ Refused(w) /\ UNCHANGED dir
       \/ found = "none" /\ Raises(w) /\ UNCHANGED <<dir, ssh, faults>>

\* git removes what it made, unless it is killed.
CloneEnds(w) ==
    LET found == dir[at[w]] IN
    /\ pc[w] = "cloning"
    /\ \/ found.by = w /\ Step(w, "switch") /\ Fill(w, "base") /\ UNCHANGED <<ssh, agents>>
       \/ Refused(w) /\ dir' = [dir EXCEPT ![at[w]] = IF found.by = w THEN Content("empty", None) ELSE found]
       \/ Raises(w) /\ Fault("hang") /\ UNCHANGED <<dir, ssh>>

\* (slip) the agent of a refused switch is forgotten
MSwitchBranch(w) ==
    /\ pc[w] = "switch"
    /\ \/ dir[at[w]] = Content("base", w) /\ Step(w, "work") /\ Fill(w, "target") /\ UNCHANGED <<ssh, agents>>
       \/ Quits(w, "refused") /\ UNCHANGED <<disk, faults>>
       \/ Raises(w) /\ Fault("hang") /\ UNCHANGED <<dir, ssh>>

SwitchBranch(w) ==
    /\ pc[w] = "switch"
    /\ \/ dir[at[w]] = Content("base", w) /\ Step(w, "work") /\ Fill(w, "target") /\ UNCHANGED <<ssh, agents>>
       \/ Refused(w) /\ UNCHANGED dir
       \/ Raises(w) /\ Fault("hang") /\ UNCHANGED <<dir, ssh>>

-----------------------------------------------------------------------------
(* The wakeup at work, and Step 9. *)

\* A file in the sandbox.
WriteFile(w) ==
    /\ pc[w] = "work" /\ dir[at[w]].what \in {"empty", "files"}
    /\ dir' = [dir EXCEPT ![at[w]] = Content("files", w)]
    /\ UNCHANGED <<db, pc, at, end, ssh, agents, book, faults>>

\* The agent edits its notes, above the log.
EditNotes(w) ==
    /\ pc[w] = "work" /\ Hand \notin notes.head
    /\ notes' = [notes EXCEPT !.head = @ \cup {Hand}] /\ written' = written \cup {Hand}
    /\ UNCHANGED <<db, pc, at, end, disk, archive, stray, base, legacy, seen, raced, blind, missed, faults>>

\* (slip) the status of the wakeup is written into the task
MTaskStatus(how) == how

\* _wakeup_status_to_task_status; "quiet" is a success without a call or a text.
TaskStatus(how) == IF how \in {"completed", "quiet"} THEN "completed" ELSE "failed"

\* The wakeup's row is closed; the task's status is written by the holder.
Finish(w, how) ==
    /\ pc[w] = "work" /\ end' = [end EXCEPT ![w] = how] /\ rows' = rows \ {w}
    /\ status' = IF holder[at[w]] = w THEN [status EXCEPT ![at[w]] = TaskStatus(how)] ELSE status
    /\ Go(w, IF how = "error" THEN "release" ELSE "summary")
    /\ UNCHANGED <<holder, at, disk, book, faults>>

-----------------------------------------------------------------------------
(* summarize_and_append. The row is closed: the next wakeup may be at work. *)

At(w, place, next)    == pc[w] = place /\ Go(w, next) /\ UNCHANGED <<db, at, end, disk>>
Notes(w, place, next) == At(w, place, next) /\ UNCHANGED faults
Errs(w, place, next)  == At(w, place, next) /\ Fault("io")

\* _build_prompt: is there anything to say.
HasPrompt(w) == end[w] # "quiet"

\* Which of the cheap models answer: _call_for_summary is "" for the others.
Answers == SUBSET bound.models

Summarize(w) ==
    /\ \E answers \in Answers :
         Notes(w, "summary", IF HasPrompt(w) /\ answers # {} THEN "read" ELSE "release")
    /\ UNCHANGED book

\* A file cannot be read or written: the summary, or the rotation, is given up.
NotesFail(w) ==
    /\ \E place \in {"read", "write", "rotate", "ids", "rewrite"} : Errs(w, place, "release")
    /\ Forget(w)

ReadNotes(w) ==
    /\ Notes(w, "read", "fold") /\ base' = [base EXCEPT ![w] = notes]
    /\ UNCHANGED <<notes, archive, stray, legacy, seen, written, raced, blind, missed>>

\* (slip) the stray file is dropped before the notes are written
MFindStray(w) ==
    /\ Notes(w, "fold", "write") /\ legacy' = [legacy EXCEPT ![w] = stray] /\ stray' = FALSE
    /\ UNCHANGED <<notes, archive, base, seen, written, raced, blind, missed>>

\* A stray file that cannot be read is left for the next wakeup.
FindStray(w) ==
    /\ \/ Notes(w, "fold", "write") /\ legacy' = [legacy EXCEPT ![w] = stray] /\ UNCHANGED missed
       \/ stray /\ Errs(w, "fold", "write") /\ UNCHANGED legacy /\ missed' = missed \cup {"find"}
    /\ UNCHANGED <<notes, archive, stray, base, seen, written, raced, blind>>

\* atomic_write_text, over whatever the file has become since it was read.
Replace(w, text) ==
    /\ notes' = text /\ raced' = (raced \/ notes # base[w])
    /\ base' = [base EXCEPT ![w] = NoNotes]

AppendEntry(w) ==
    /\ Notes(w, "write", "unlink")
    /\ Replace(w, WithEntry(IF legacy[w] THEN Fold(base[w]) ELSE base[w], w))
    /\ written' = written \cup {w}
    /\ UNCHANGED <<archive, stray, legacy, seen, blind, missed>>

\* Only now is the stray file dropped; if that fails it stays, and the rotation goes on.
UnlinkStray(w) ==
    /\ \/ Notes(w, "unlink", "rotate") /\ stray' = (stray /\ ~legacy[w]) /\ UNCHANGED missed
       \/ legacy[w] /\ Errs(w, "unlink", "rotate") /\ missed' = missed \cup {"unlink"} /\ UNCHANGED stray
    /\ legacy' = [legacy EXCEPT ![w] = FALSE]
    /\ UNCHANGED <<notes, archive, base, seen, written, raced, blind>>

\* _maybe_rotate_notes.
ReadOverfull(w) ==
    /\ Notes(w, "rotate", IF IsOverfull(notes) THEN "ids" ELSE "release")
    /\ base' = IF IsOverfull(notes) THEN [base EXCEPT ![w] = notes] ELSE base
    /\ UNCHANGED <<notes, archive, stray, legacy, seen, written, raced, blind, missed>>

\* _archived_wakeup_ids: an archive that cannot be read has none.
ReadIds(w) ==
    /\ \/ Notes(w, "ids", "archive") /\ seen' = [seen EXCEPT ![w] = Ids(archive)]
       \/ Errs(w, "ids", "archive") /\ UNCHANGED seen
    /\ UNCHANGED <<notes, archive, stray, base, legacy, written, raced, blind, missed>>

\* The archive gets these blocks, whatever it has become since its ids were read.
Extend(w, blocks) ==
    /\ archive' = archive \o blocks /\ blind' = (blind \/ seen[w] # Ids(archive))
    /\ seen' = [seen EXCEPT ![w] = {}]

\* (slip) the notes are cut before the archive has what is cut
MArchive(w) ==
    /\ Notes(w, "archive", "rewrite")
    /\ notes' = Rotated(base[w]) /\ raced' = (raced \/ notes # base[w])
    /\ UNCHANGED <<archive, stray, base, legacy, seen, written, blind, missed>>

Archive(w) ==
    /\ Notes(w, "archive", "rewrite") /\ Extend(w, ToArchive(base[w], seen[w]))
    /\ UNCHANGED <<notes, stray, base, legacy, written, raced, missed>>

\* The worker is killed while it appends, or the disk is full: some blocks, and
\* perhaps the head of the next.
ArchiveIsCut(w) ==
    /\ \/ At(w, "archive", "killed") /\ Fault("kill")
       \/ Errs(w, "archive", "release")
    /\ LET blocks == ToArchive(base[w], seen[w]) IN
       \E k \in 0..Len(blocks), torn \in BOOLEAN :
         /\ torn => k < Len(blocks)
         /\ Extend(w, SubSeq(blocks, 1, k)
                      \o (IF torn THEN <<Block(blocks[k + 1].of, {}, FALSE)>> ELSE <<>>))
    /\ base' = [base EXCEPT ![w] = NoNotes]
    /\ UNCHANGED <<notes, stray, legacy, written, raced, missed>>

RewriteNotes(w) ==
    /\ Notes(w, "rewrite", "release") /\ Replace(w, Rotated(base[w]))
    /\ UNCHANGED <<archive, stray, legacy, seen, written, blind, missed>>

-----------------------------------------------------------------------------
(* The end of _run_task_inline. *)

Clean(w, place, next) == pc[w] = place /\ Go(w, next) /\ UNCHANGED <<rows, status, at, end, book, faults>>

Release(w) ==
    /\ Clean(w, "release", IF IsGit(w) THEN "git" ELSE "tree")
    /\ holder' = IF holder[at[w]] = w THEN [holder EXCEPT ![at[w]] = None] ELSE holder
    /\ UNCHANGED disk

\* GitContextProvisioner.cleanup: the ssh-agent, then <task>.ssh.
CleanGit(w) ==
    /\ Clean(w, "git", "tree") /\ agents' = agents \ {w} /\ ssh' = [ssh EXCEPT ![at[w]] = {}]
    /\ UNCHANGED <<holder, dir>>

\* WorktreeManager.cleanup: rm -rf after a success, whoever holds the task.
CleanTree(w) ==
    /\ Clean(w, "tree", "over")
    /\ dir' = IF TaskStatus(end[w]) = "completed" THEN [dir EXCEPT ![at[w]] = Gone] ELSE dir
    /\ UNCHANGED <<holder, ssh, agents>>

-----------------------------------------------------------------------------
Provision(w) ==
    \/ PrepareDir(w) \/ MakeKey(w) \/ StartAgent(w) \/ AddKey(w)
    \/ CloneBegins(w) \/ CloneEnds(w) \/ SwitchBranch(w)
Note(w) ==
    \/ Summarize(w) \/ ReadNotes(w) \/ FindStray(w) \/ AppendEntry(w) \/ UnlinkStray(w)
    \/ ReadOverfull(w) \/ ReadIds(w) \/ Archive(w) \/ RewriteNotes(w) \/ NotesFail(w)
CleanUp(w) == Release(w) \/ CleanGit(w) \/ CleanTree(w)

Next ==
    /\ UNCHANGED bound
    /\ \E w \in Wakeup :
        \/ \E t \in Task : Begin(w, t)
        \/ Provision(w) \/ WriteFile(w) \/ EditNotes(w) \/ Note(w) \/ CleanUp(w)
        \/ \E how \in {"completed", "quiet", "failed", "error"} : Finish(w, how)
        \/ Kill(w) \/ ArchiveIsCut(w)

Spec == Init /\ [][Next]_vars

-----------------------------------------------------------------------------
Succeeded(w) == end[w] # "none" /\ TaskStatus(end[w]) = "completed"

\* However attempts overlap, who works on a git task, as its holder or no more, has a
\* checkout that it made itself, on the target branch, and its ssh-agent.
CheckoutIsOwn ==
    \A w \in Wakeup : (pc[w] = "work" /\ IsGit(w)) =>
        dir[at[w]] = Content("target", w) /\ w \in agents

\* The sandbox of a task that was begun is gone only when an attempt at it succeeded.
SandboxIsKept ==
    \A w \in Wakeup : (pc[w] \notin {"idle", "dir", "killed"} /\ dir[at[w]] = Gone)
        => \E v \in Wakeup : at[v] = at[w] /\ Succeeded(v)

\* An ssh-agent outlives its worker only when a command hung, or could not be
\* started, or the worker was killed.
AgentIsStopped == \A w \in agents : pc[w] = "over" => end[w] = "raised"

\* Attempts at a task share its directory and leave nothing behind that they should not.
SandboxIsSound == CheckoutIsOwn /\ SandboxIsKept /\ AgentIsStopped

\* What a reader finds, and what the archive has under the same short id.
Found(x) == \/ x \in notes.head \cup Texts(notes.log) \cup Entries(notes.log)
            \/ x \in Texts(archive) \cup Entries(archive)
            \/ x = Stray /\ stray
Shadowed(x) == x \in {None} \cup Wakeup /\ ShortId[x] \in Ids(archive)
Torn == \E i \in DOMAIN archive : ~archive[i].whole

\* "Never loses an entry" (wakeup_summary.py 431-434): while nobody overwrites what it has not
\* read, no kill, no failing file and no rotation loses an entry, a text of the agent or the
\* stray notes; but an entry whose short id is in the archive already, of a torn block or of
\* a neighbour in time, what stood below a torn block, and a stray text that could not be
\* read at once: it is folded in below an entry that may be such a neighbour.
NothingIsForgotten ==
    raced \/ \A x \in written : \/ Found(x) \/ Shadowed(x)
                                \/ x = Stray /\ (Torn \/ "find" \in missed)

\* "Without folding the content in twice" (wakeup_summary.py 285-288): the notes have the
\* stray text once, and the archive has it once, unless the stray file could not be read
\* or removed, or the archive was appended to by one that did not know what it holds.
FoldedOnce ==
    LET Has(log) == {i \in DOMAIN log : Stray \in log[i].more}
    IN  /\ Cardinality(Has(notes.log)) + (IF Stray \in notes.head THEN 1 ELSE 0) <= 1
        /\ missed # {} \/ blind \/ Cardinality(Has(archive)) <= 1

\* "The marker makes the merge idempotent" (wakeup_summary.py 285-288), taken at its word:
\* while workers know what they overwrite and what the archive holds, the archive gets the
\* stray text once. It does not hold: the rotation takes the marker along, so a stray file
\* that could not be removed is folded in again.
MergeIsIdempotent ==
    raced \/ blind \/ Cardinality({i \in DOMAIN archive : Stray \in archive[i].more}) <= 1

\* "Deduped by wakeup id" (wakeup_summary.py 431-434): nor does the archive have an entry
\* twice, whole or torn, however often a rotation is begun.
ArchivedOnce ==
    blind \/ \A i, j \in DOMAIN archive : archive[i].of = archive[j].of => i = j

\* What an agent wrote, and what was written for it, is there for its next wakeup, once.
NotebookIsSound == NothingIsForgotten /\ FoldedOnce /\ ArchivedOnce

=============================================================================
