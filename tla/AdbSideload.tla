----------------------------- MODULE AdbSideload -----------------------------
(***************************************************************************)
(* An adb sideload session: the action thread of the recovery              *)
(* (GUIAction::adbsideload and apply_from_adb), the GUI thread, which runs *)
(* a cancel itself (adbsideloadcancel), the minadbd child that serves the  *)
(* package through FuseSideload, and the kernel's reads for the installer. *)
(* The two threads share sideload_child_pid without a lock.  The pid of a  *)
(* session's child is the number of the session.                           *)
(***************************************************************************)
EXTENDS FuseSideload

CONSTANTS
  MaxPolls,    \* ADB_INSTALL_TIMEOUT
  Requests,    \* offset and size of the kernel's reads
  MaxReads,    \* bound on the kernel's reads
  MaxSessions  \* bound on sessions

ASSUME SessionAssumption ==
  /\ MaxPolls \in Nat \ {0} /\ MaxReads \in Nat /\ MaxSessions \in Nat
  /\ Requests \subseteq {r \in Offsets \X (1..BlockSize) : r[1] + r[2] <= MaxOffset + 1}
  /\ Callers = {"gui", "cancel", "kernel"}

VARIABLES
  session,
  gui, polls, reads,   \* where the action thread is; polls and reads made
  cancel,              \* where the GUI thread is in a cancel
  sideload_child_pid,
  tw_has_cancel,
  child,               \* state of the child process
  adbd,                \* adbd runs
  killed               \* the pid of the cancel's last kill

session_vars == <<session, gui, polls, reads, cancel, sideload_child_pid, tw_has_cancel, child, adbd,
                  killed>>
vars == <<fuseVars, session_vars>>

Gui == {"idle", "fork", "assign", "poll", "stat", "stated", "giveup", "reap", "failed", "install",
        "signal", "signalled", "wait", "adbd", "dead"}
Cancel == {"idle", "stat", "stated", "check", "kill", "wait", "clear"}
Alive == {"listening", "serving"}
ForkFailed == -1
NobodyKilled == -2

TypeOK ==
  /\ FuseTypeOK
  /\ session \in 0..MaxSessions /\ gui \in Gui /\ cancel \in Cancel
  /\ polls \in 0..(MaxPolls - 1) /\ reads \in 0..MaxReads
  /\ sideload_child_pid \in ForkFailed..MaxSessions /\ tw_has_cancel \in BOOLEAN
  /\ child \in {"none", "zombie", "reaped"} \cup Alive
  /\ adbd \in BOOLEAN
  /\ killed \in NobodyKilled..MaxSessions

Init ==
  /\ FuseInit
  /\ session = 0 /\ gui = "idle" /\ polls = 0 /\ reads = 0 /\ cancel = "idle"
  /\ sideload_child_pid = 0 /\ tw_has_cancel = FALSE
  /\ child = "none" /\ adbd = TRUE /\ killed = NobodyKilled

-----------------------------------------------------------------------------
(* The child                                                               *)

\* External: a host asks minadbd for a service.  An old one, bad
\* arguments, sizes out of range and a failed mount make the child exit.
HostConnects ==
  /\ child = "listening"
  /\ \/ child' = "serving" /\ mounted' = TRUE
     \/ child' = "zombie" /\ UNCHANGED mounted
  /\ UNCHANGED <<cache, calls, seen, session, gui, polls, reads, cancel, sideload_child_pid,
                 tw_has_cancel, adbd, killed>>

ChildServes ==
  /\ child = "serving" /\ Serve
  /\ UNCHANGED session_vars

\* The part of it that no host is needed for.
ChildServesAlone ==
  /\ child = "serving" /\ ServeAlone
  /\ UNCHANGED session_vars

\* run_fuse_sideload has returned.
ChildExits ==
  /\ child = "serving" /\ ~mounted
  /\ child' = "zombie"
  /\ UNCHANGED <<fuseVars, session, gui, polls, reads, cancel, sideload_child_pid, tw_has_cancel,
                 adbd, killed>>

\* A signal ends the child, and the filesystem with it.
ChildKilled ==
  IF child \in Alive
    THEN child' = "zombie" /\ Gone /\ UNCHANGED <<cache, seen>>
    ELSE UNCHANGED <<child, fuseVars>>

Reap == child' = (IF child = "zombie" THEN "reaped" ELSE child)

-----------------------------------------------------------------------------
(* The action thread                                                       *)

GuiTo(next) == gui' = next
KeepFuse == UNCHANGED fuseVars

\* External: the user starts a session; the GUI thread is not in a cancel then.  stop_adbd.
Start ==
  /\ gui = "idle" /\ cancel = "idle" /\ session < MaxSessions
  /\ session' = session + 1 /\ GuiTo("fork")
  /\ adbd' = FALSE /\ tw_has_cancel' = TRUE
  /\ KeepFuse /\ UNCHANGED <<polls, reads, cancel, sideload_child_pid, child, killed>>

\* fork may fail.
Fork ==
  /\ gui = "fork" /\ GuiTo("assign")
  /\ child' \in {"listening", "none"}
  /\ KeepFuse
  /\ UNCHANGED <<session, polls, reads, cancel, sideload_child_pid, tw_has_cancel, adbd, killed>>

Assign ==
  /\ gui = "assign" /\ GuiTo("poll")
  /\ sideload_child_pid' = (IF child = "none" THEN ForkFailed ELSE session) /\ polls' = 0
  /\ KeepFuse /\ UNCHANGED <<session, reads, cancel, tw_has_cancel, child, adbd, killed>>

\* waitpid(child, &status, WNOHANG): the child has ended, the cancel has already
\* waited for it, or there is none (waitpid(-1), of a recovery without children).
PollChild ==
  /\ gui = "poll"
  /\ GuiTo(IF child \in Alive THEN "stat" ELSE "failed")
  /\ Reap
  /\ KeepFuse
  /\ UNCHANGED <<session, polls, reads, cancel, sideload_child_pid, tw_has_cancel, adbd, killed>>

\* Mutant: one poll too many.
PollAbsent_Late ==
  /\ gui = "stat" /\ ~mounted
  /\ IF polls < MaxPolls
       THEN /\ GuiTo("poll") /\ polls' = polls + 1
            /\ KeepFuse /\ UNCHANGED child
       ELSE GuiTo("giveup") /\ ChildKilled /\ UNCHANGED polls
  /\ UNCHANGED <<session, reads, cancel, sideload_child_pid, tw_has_cancel, adbd, killed>>

\* Mutant: the child survives the timeout.
PollAbsent_NoKill ==
  /\ gui = "stat" /\ ~mounted
  /\ IF polls < MaxPolls - 1
       THEN GuiTo("poll") /\ polls' = polls + 1
       ELSE GuiTo("giveup") /\ UNCHANGED polls
  /\ KeepFuse
  /\ UNCHANGED <<session, reads, cancel, sideload_child_pid, tw_has_cancel, child, adbd, killed>>

\* stat fails with ENOENT: another second, or SIGKILL for the child.
PollAbsent ==
  /\ gui = "stat" /\ ~mounted
  /\ IF polls < MaxPolls - 1
       THEN /\ GuiTo("poll") /\ polls' = polls + 1
            /\ KeepFuse /\ UNCHANGED child
       ELSE GuiTo("giveup") /\ ChildKilled /\ UNCHANGED polls
  /\ UNCHANGED <<session, reads, cancel, sideload_child_pid, tw_has_cancel, adbd, killed>>

PollStat ==
  /\ gui = "stat" /\ mounted /\ GuiTo("stated")
  /\ Ask("gui", [op |-> "lookup", name |-> "package.zip"])
  /\ UNCHANGED <<session, polls, reads, cancel, sideload_child_pid, tw_has_cancel, child, adbd, killed>>

\* The package is there: apply_from_adb returns 0 and the cancel button goes.
\* Any other answer than ENOENT ends the wait.
PollStated ==
  /\ gui = "stated" /\ pending["gui"] = NoRequest
  /\ IF reply["gui"] = "ok"
       THEN /\ GuiTo("install") /\ tw_has_cancel' = FALSE
            /\ KeepFuse /\ UNCHANGED child
       ELSE GuiTo("giveup") /\ ChildKilled /\ UNCHANGED tw_has_cancel
  /\ UNCHANGED <<session, polls, reads, cancel, sideload_child_pid, adbd, killed>>

\* *child_pid = 0.  The exit file is gone with the child that was killed.
GiveUp ==
  /\ gui = "giveup" /\ GuiTo("reap")
  /\ sideload_child_pid' = 0
  /\ KeepFuse
  /\ UNCHANGED <<session, polls, reads, cancel, tw_has_cancel, child, adbd, killed>>

GiveUpWait ==
  /\ gui = "reap" /\ child \notin Alive /\ GuiTo("failed")
  /\ Reap
  /\ KeepFuse
  /\ UNCHANGED <<session, polls, reads, cancel, sideload_child_pid, tw_has_cancel, adbd, killed>>

\* maybe_restart_adbd, then back in adbsideload with a failure.
Failed ==
  /\ gui = "failed" /\ GuiTo("signal")
  /\ sideload_child_pid' = 0 /\ tw_has_cancel' = FALSE
  /\ adbd' = TRUE
  /\ KeepFuse /\ UNCHANGED <<session, polls, reads, cancel, child, killed>>

\* External: the kernel reads for TWinstall_zip, ahead of it or for it.
KernelReads ==
  /\ gui = "install" /\ reads < MaxReads /\ mounted
  /\ \E r \in Requests : Ask("kernel", [op |-> "read", offset |-> r[1], size |-> r[2]])
  /\ reads' = reads + 1
  /\ UNCHANGED <<session, gui, polls, cancel, sideload_child_pid, tw_has_cancel, child, adbd, killed>>

Installed ==
  /\ gui = "install" /\ pending["kernel"] = NoRequest /\ GuiTo("signal")
  /\ KeepFuse
  /\ UNCHANGED <<session, polls, reads, cancel, sideload_child_pid, tw_has_cancel, child, adbd, killed>>

Signal ==
  /\ gui = "signal"
  /\ IF sideload_child_pid # 0 /\ mounted
       THEN GuiTo("signalled") /\ Ask("gui", [op |-> "lookup", name |-> "exit"])
       ELSE GuiTo(IF sideload_child_pid # 0 THEN "wait" ELSE "adbd") /\ KeepFuse
  /\ UNCHANGED <<session, polls, reads, cancel, sideload_child_pid, tw_has_cancel, child, adbd, killed>>

Signalled ==
  /\ gui = "signalled" /\ pending["gui"] = NoRequest /\ GuiTo("wait")
  /\ KeepFuse
  /\ UNCHANGED <<session, polls, reads, cancel, sideload_child_pid, tw_has_cancel, child, adbd, killed>>

\* Mutant: the child is told to go and not waited for.
WaitChild_Not ==
  /\ gui = "wait" /\ GuiTo("adbd")
  /\ KeepFuse
  /\ UNCHANGED <<session, polls, reads, cancel, sideload_child_pid, tw_has_cancel, child, adbd,
                 killed>>

\* waitpid; the pid keeps its value.
WaitChild ==
  /\ gui = "wait" /\ child \notin Alive /\ GuiTo("adbd")
  /\ Reap
  /\ KeepFuse
  /\ UNCHANGED <<session, polls, reads, cancel, sideload_child_pid, tw_has_cancel, adbd, killed>>

\* The next child starts with a filesystem of its own.
Forget ==
  /\ mounted' = FALSE /\ curr_block' = NoBlock
  /\ block_data' = [i \in InBlock |-> Junk] /\ extra_block' = [i \in InBlock |-> Junk]
  /\ hashes' = [b \in 0..(file_blocks - 1) |-> None]
  /\ pending' = [c \in Callers |-> NoRequest] /\ current' = Nobody /\ stage' = 1
  /\ reply' = [c \in Callers |-> "none"]
  /\ data' = [offset |-> 0, size |-> 0, units |-> block_data', stale |-> {}]
  /\ first' = [p \in Offsets |-> None] /\ stale' = {}
  /\ mishap' = NoMishap

End ==
  /\ gui = "adbd" /\ GuiTo("idle")
  /\ adbd' = TRUE
  /\ Forget
  /\ UNCHANGED <<session, polls, reads, cancel, sideload_child_pid, tw_has_cancel, child, killed>>

-----------------------------------------------------------------------------
(* A cancel, in the GUI thread                                             *)

CancelTo(next) == cancel' = next
SessionKept == UNCHANGED <<session, polls, reads, adbd>>

\* External: the button is pressed.  (Not while the pid is still that of the
\* session before.)
PressCancel ==
  /\ tw_has_cancel /\ cancel = "idle" /\ gui \notin {"idle", "dead"}
  /\ gui \in {"fork", "assign"} => sideload_child_pid = 0
  /\ CancelTo("stat") /\ tw_has_cancel' = FALSE
  /\ KeepFuse /\ SessionKept /\ UNCHANGED <<gui, sideload_child_pid, child, killed>>

CancelStat ==
  /\ cancel = "stat"
  /\ IF mounted
       THEN CancelTo("stated") /\ Ask("cancel", [op |-> "lookup", name |-> "exit"])
       ELSE CancelTo("check") /\ KeepFuse
  /\ SessionKept /\ UNCHANGED <<gui, sideload_child_pid, tw_has_cancel, child, killed>>

CancelStated ==
  /\ cancel = "stated" /\ pending["cancel"] = NoRequest /\ CancelTo("check")
  /\ KeepFuse
  /\ SessionKept /\ UNCHANGED <<gui, sideload_child_pid, tw_has_cancel, child, killed>>

\* Without a pid it gives up; otherwise it sleeps for a second.
CancelCheck ==
  /\ cancel = "check" /\ CancelTo(IF sideload_child_pid = 0 THEN "idle" ELSE "kill")
  /\ KeepFuse
  /\ SessionKept /\ UNCHANGED <<gui, sideload_child_pid, tw_has_cancel, child, killed>>

\* kill(sideload_child_pid, SIGTERM), with the pid as it is now.  Pid 0 stands
\* for every process of the group, the recovery itself included, and -1 for
\* every other process.
CancelKill ==
  /\ cancel = "kill"
  /\ killed' = sideload_child_pid
  /\ ChildKilled
  /\ IF sideload_child_pid = 0
       THEN gui' = "dead" /\ CancelTo("idle")
       ELSE CancelTo("wait") /\ UNCHANGED gui
  /\ SessionKept /\ UNCHANGED <<sideload_child_pid, tw_has_cancel>>

CancelWait ==
  /\ cancel = "wait" /\ child \notin Alive /\ CancelTo("clear")
  /\ Reap
  /\ KeepFuse
  /\ SessionKept /\ UNCHANGED <<gui, sideload_child_pid, tw_has_cancel, killed>>

CancelClear ==
  /\ cancel = "clear" /\ CancelTo("idle")
  /\ sideload_child_pid' = 0
  /\ KeepFuse
  /\ SessionKept /\ UNCHANGED <<gui, tw_has_cancel, child, killed>>

\* External: init starts the recovery again.
Restart ==
  /\ gui = "dead" /\ GuiTo("idle")
  /\ sideload_child_pid' = 0 /\ tw_has_cancel' = FALSE /\ child' = "none" /\ adbd' = TRUE
  /\ Forget /\ UNCHANGED <<session, polls, reads, cancel, killed>>

GuiStep == \/ Fork \/ Assign \/ PollChild \/ PollAbsent \/ PollStat \/ PollStated \/ GiveUp
           \/ GiveUpWait \/ Failed \/ Installed \/ Signal \/ Signalled \/ WaitChild \/ End
CancelStep == \/ CancelStat \/ CancelStated \/ CancelCheck \/ CancelKill \/ CancelWait \/ CancelClear

Next == \/ Start \/ GuiStep \/ KernelReads
        \/ PressCancel \/ CancelStep
        \/ HostConnects \/ ChildServes \/ ChildExits \/ Restart

\* The threads run, and the child serves what it can serve by itself and exits
\* when it is told to.  Users, readers and the host owe nothing: read_block_adb
\* waits for the host's answer without a timeout.
Spec == /\ Init /\ [][Next]_vars
        /\ WF_vars(GuiStep) /\ WF_vars(CancelStep)
        /\ WF_vars(ChildServesAlone) /\ WF_vars(ChildExits)

-----------------------------------------------------------------------------
\* Every read of a position returns what the first read of that position
\* returned, whatever the provider delivers and although its reads fail in
\* between: blocks are cached, spill over, fail and are fetched again, and a
\* block that differs from its first version is never served.  The one
\* exception is a read answered from a buffer that a failed fetch has written
\* over and that fetch_block still takes for the block it held before.
SameUnlessStale == data.stale # {} \/ Same

\* "each read of a given position returns the same data as the first read at
\* that position" (fuse_sideload.cpp:25), without that exception.
SameData == Same

\* A read is refused only if the provider failed during this read, or then
\* delivered a block other than it did first.
NoFalseError ==
  pending["kernel"] = NoRequest /\ reply["kernel"] = "error" /\ mounted
    => mishap.failed \/ mishap.changed

\* adbd is never started while the child still serves the same USB endpoint,
\* whoever of the two threads found out that the child must go.
OneDaemon == ~(adbd /\ child \in Alive)

\* A cancel signals the session's child and nothing else.
CancelKillsChild == killed \in {NobodyKilled, session}

\* A session ends, by the timeout, a failed fork, the installer, the cancel
\* button or a child that exits, and no thread waits for ever for a child or for
\* an answer; unless the host keeps one read waiting for ever, which hangs the
\* installation.  A recovery that a cancel kills with kill(0) is an end, too.
SideloadEnds == <>[]Fetching \/ (gui = "fork" ~> gui \in {"adbd", "dead"})
=============================================================================
