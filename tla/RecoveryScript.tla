--------------------------- MODULE RecoveryScript ---------------------------
(***************************************************************************)
(* The commands recovery is started with: get_args and the bootloader      *)
(* message, their conversion to a script in /tmp, the OpenRecoveryScript   *)
(* left on /cache, the run of both, the reboot that follows, and commands  *)
(* from the twrp command line tool.                                        *)
(*                                                                         *)
(* Two things go wrong around it.  The recovery process may crash; init    *)
(* starts it again and /tmp is still there.  Or the power is lost; /tmp is *)
(* gone and an unlink that was not synced may be undone.                   *)
(***************************************************************************)
EXTENDS Integers, Sequences, SequencesExt, FiniteSets

CONSTANTS
  Args,        \* the command lists the system may leave for recovery
  Scripts,     \* the OpenRecoveryScripts it may leave
  Cli,         \* commands of the command line tool
  Kind,        \* what each command does
  MaxMishaps,  \* bound on crashes, power losses and failed system calls
  MaxVisits    \* bound on what the user does

\* "quiet" are the commands without a result: mount, unmount, set, cmd, print.  "op" are the rest.
Kinds == {"install", "wipe", "sideload", "reboot", "quiet", "op"}

Lists    == Args \cup Scripts
Commands == Cli \cup UNION {ToSet(l) : l \in Lists}

ASSUME CommandsAssumption ==
  /\ Lists \subseteq Seq(Commands) /\ Kind \in [Commands -> Kinds]
  /\ \A l \in Lists : IsInjective(l)
  /\ \A l \in Args, s \in Scripts : ToSet(l) \cap ToSet(s) = {}
  /\ \A c \in Cli, l \in Lists : c \notin ToSet(l)
ASSUME BoundsAssumption == MaxMishaps \in Nat /\ MaxVisits \in Nat

VARIABLES
  bcb,         \* bootloader message: boot into recovery, and with which arguments
  cmdfile,     \* /cache/recovery/command
  ors,         \* the OpenRecoveryScript on /cache; <<>> if there is none
  orsDisk,     \* the same, as of the last sync
  tmp,         \* SCRIPT_FILE_TMP
  key,         \* the next boot goes to recovery without a message
  encrypted,   \* TW_IS_ENCRYPTED
  pc,
  args,        \* arguments still to be converted
  stage,       \* which script is run: "aosp", "ors" or "cli"
  line, ret_val, sideload,   \* variables of run_script_file
  reboot,      \* of Run_OpenRecoveryScript_Action
  rebooting,   \* init has been asked to reboot
  asked, script,       \* the lists the system left
  hasCache,    \* the device has a /cache partition, which get_log_dir then returns
  started, passed,     \* how often each command was started; those the script once went on after
  excused,     \* recovery has crashed or the message could not be cleared
  mishaps, visits

disk   == <<bcb, cmdfile, ors, orsDisk>>
run    == <<args, stage, line, ret_val, sideload, reboot>>
story  == <<asked, script, hasCache, started, passed>>
faults == <<excused, mishaps>>
vars   == <<disk, tmp, key, encrypted, pc, run, rebooting, story, faults, visits>>

MaxStarts == 3   \* starts are counted up to here

NoMessage == [boot |-> FALSE, args |-> <<>>]
Empty == <<>>

Outside == {"off", "android"}
PC == Outside \cup {"start", "insert", "decrypt", "message", "file", "decide", "scripts", "line",
                    "cmd", "find", "unlink", "after", "gui"}

\* a is what is left of l after some number of its elements.
EndOf(a, l) == Len(a) <= Len(l) /\ \A i \in 1..Len(a) : a[i] = l[Len(l) - Len(a) + i]

TypeOK ==
  /\ bcb.boot \in BOOLEAN /\ bcb.args \in Args \cup {Empty}
  /\ cmdfile \in Args \cup {Empty}
  /\ ors \in Scripts \cup {Empty} /\ orsDisk \in Scripts \cup {Empty}
  /\ tmp \in Seq(Commands)
  /\ key \in BOOLEAN /\ encrypted \in BOOLEAN /\ pc \in PC
  /\ args \in Seq(Commands) /\ EndOf(args, asked)
  /\ stage \in {"aosp", "ors", "cli"}
  /\ line \in Nat /\ pc \in {"line", "cmd"} => line \in 1..(Len(tmp) + 1)
  /\ ret_val \in {0, 1} /\ sideload \in BOOLEAN /\ reboot \in BOOLEAN /\ rebooting \in BOOLEAN
  /\ asked \in Args \cup {Empty} /\ script \in Scripts \cup {Empty}
  /\ started \in [Commands -> 0..MaxStarts] /\ passed \subseteq Commands /\ hasCache \in BOOLEAN
  /\ excused \in BOOLEAN /\ mishaps \in 0..MaxMishaps /\ visits \in 0..MaxVisits

\* The system has written a message or a command file, or an application a script, and
\* reboots into recovery.
Init ==
  /\ asked \in Args \cup {Empty} /\ script \in Scripts \cup {Empty} /\ hasCache \in BOOLEAN
  /\ \/ bcb = [boot |-> TRUE, args |-> asked] /\ cmdfile = Empty /\ key = FALSE
     \/ bcb = NoMessage /\ cmdfile = asked /\ key = TRUE /\ hasCache
  /\ ors = script /\ orsDisk = script /\ tmp = Empty
  /\ encrypted \in BOOLEAN
  /\ pc = "off"
  /\ args = Empty /\ stage = "aosp" /\ line = 1 /\ ret_val = 0
  /\ sideload = FALSE /\ reboot = FALSE /\ rebooting = FALSE
  /\ started = [c \in Commands |-> 0] /\ passed = {}
  /\ excused = FALSE /\ mishaps = 0 /\ visits = 0

Mishap == mishaps < MaxMishaps /\ mishaps' = mishaps + 1

\* The bootloader.
Boot ==
  /\ pc = "off"
  /\ pc' = IF bcb.boot \/ key THEN "start" ELSE "android"
  /\ key' = FALSE
  /\ UNCHANGED <<disk, tmp, encrypted, run, rebooting, story, faults, visits>>

(***************************************************************************)
(* main of twrp.cpp                                                        *)
(***************************************************************************)

\* The arguments of the message, else those of the command file, are written back.  A
\* message that cannot be read counts as empty; that it cannot be written is only printed.
GetArgs ==
  /\ pc = "start"
  /\ \E readable, writable \in BOOLEAN :
       LET got == IF readable /\ bcb.args # Empty THEN bcb.args ELSE cmdfile IN
       /\ args' = got
       /\ bcb' = IF writable THEN [boot |-> TRUE, args |-> got] ELSE bcb
       /\ IF readable /\ writable THEN UNCHANGED mishaps ELSE Mishap
  /\ pc' = "insert"
  /\ UNCHANGED <<cmdfile, ors, orsDisk, tmp, key, encrypted, stage, line, ret_val, sideload,
                 reboot, rebooting, story, excused, visits>>

\* One argument becomes a line at the end of SCRIPT_FILE_TMP; if that fails the rest is dropped.
Insert_ORS_Command ==
  /\ pc = "insert" /\ args # Empty
  /\ \/ tmp' = Append(tmp, Head(args)) /\ args' = Tail(args) /\ UNCHANGED mishaps
     \/ args' = Empty /\ Mishap /\ UNCHANGED tmp
  /\ UNCHANGED <<disk, key, encrypted, pc, stage, line, ret_val, sideload, reboot, rebooting,
                 story, excused, visits>>

ArgsEnd ==
  /\ pc = "insert" /\ args = Empty
  /\ pc' = "decrypt"
  /\ UNCHANGED <<disk, tmp, key, encrypted, run, rebooting, story, faults, visits>>

\* The decrypt page: the password is given or the page is left.
Decrypt ==
  /\ pc = "decrypt"
  /\ encrypted' \in {encrypted, FALSE}
  /\ pc' = "message"
  /\ UNCHANGED <<disk, tmp, key, run, rebooting, story, faults, visits>>

\* Mutant: the message stays until recovery reboots.
ClearMessage_Later ==
  /\ pc = "message"
  /\ pc' = "file"
  /\ UNCHANGED <<disk, tmp, key, encrypted, run, rebooting, story, faults, visits>>

\* Update_Log_File clears the message; an error is only logged,
ClearMessage ==
  /\ pc = "message"
  /\ \/ bcb' = NoMessage /\ UNCHANGED faults
     \/ Mishap /\ excused' = TRUE /\ UNCHANGED bcb
  /\ pc' = "file"
  /\ UNCHANGED <<cmdfile, ors, orsDisk, tmp, key, encrypted, run, rebooting, story, visits>>

\* removes the command file if there is a /cache, and syncs.
ClearCommandFile ==
  /\ pc = "file"
  /\ \/ hasCache /\ cmdfile' = Empty /\ UNCHANGED faults
     \/ hasCache /\ Mishap /\ excused' = TRUE /\ UNCHANGED cmdfile
     \/ ~hasCache /\ UNCHANGED <<cmdfile, faults>>
  /\ orsDisk' = ors
  /\ pc' = "decide"
  /\ UNCHANGED <<bcb, ors, tmp, key, encrypted, run, rebooting, story, visits>>

\* "Run any outstanding OpenRecoveryScript"
Decide ==
  /\ pc = "decide"
  /\ pc' = IF tmp # Empty \/ (~encrypted /\ ors # Empty) THEN "scripts" ELSE "gui"
  /\ reboot' = FALSE
  /\ UNCHANGED <<disk, tmp, key, encrypted, args, stage, line, ret_val, sideload, rebooting,
                 story, faults, visits>>

(***************************************************************************)
(* Run_OpenRecoveryScript_Action                                           *)
(***************************************************************************)

\* run_script_file opens the script, or fails if there is none.
Open(s, failed) ==
  /\ stage' = s /\ line' = 1 /\ ret_val' = 0 /\ sideload' = FALSE
  /\ pc' = IF tmp' # Empty THEN "line" ELSE failed

\* "Check for the SCRIPT_FILE_TMP first as these are AOSP recovery commands"
RecoveryCommands ==
  /\ pc = "scripts"
  /\ UNCHANGED tmp
  /\ Open("aosp", "find")
  /\ UNCHANGED <<disk, key, encrypted, args, reboot, rebooting, story, faults, visits>>

\* The script is copied to /tmp; whether that worked is not looked at.
CopyScript ==
  /\ pc = "find" /\ ors # Empty
  /\ \/ tmp' = ors /\ UNCHANGED mishaps
     \/ Mishap /\ UNCHANGED tmp
  /\ pc' = "unlink"
  /\ UNCHANGED <<disk, key, encrypted, run, rebooting, story, excused, visits>>

\* There is no script, or /cache cannot be mounted.
NoScript ==
  /\ pc = "find"
  /\ IF ors # Empty THEN Mishap ELSE UNCHANGED mishaps
  /\ pc' = "after"
  /\ UNCHANGED <<disk, tmp, key, encrypted, run, rebooting, story, excused, visits>>

\* Mutant: the script is left on /cache.
UnlinkScript_Not ==
  /\ pc = "unlink"
  /\ UNCHANGED tmp
  /\ Open("ors", "after")
  /\ UNCHANGED <<disk, key, encrypted, args, reboot, rebooting, story, faults, visits>>

\* "Delete the file from cache", before it is run; whether that worked is not looked at.
UnlinkScript ==
  /\ pc = "unlink"
  /\ \/ ors' = Empty /\ UNCHANGED mishaps
     \/ Mishap /\ UNCHANGED ors
  /\ UNCHANGED tmp
  /\ Open("ors", "after")
  /\ UNCHANGED <<bcb, cmdfile, orsDisk, key, encrypted, args, reboot, rebooting, story, excused,
                 visits>>

(***************************************************************************)
(* run_script_file                                                         *)
(***************************************************************************)
Start(c) == started' = [started EXCEPT ![c] = IF @ < MaxStarts THEN @ + 1 ELSE @]

\* Mutant: the loop goes on after a failure.
NextLine_NoStop ==
  /\ pc = "line" /\ line <= Len(tmp)
  /\ Start(tmp[line])
  /\ pc' = "cmd"
  /\ UNCHANGED <<disk, tmp, key, encrypted, run, rebooting, asked, script, hasCache, passed,
                 faults, visits>>

\* A line is read and its command begins, unless the last one failed.
NextLine ==
  /\ pc = "line" /\ line <= Len(tmp) /\ ret_val = 0
  /\ Start(tmp[line])
  /\ pc' = "cmd"
  /\ UNCHANGED <<disk, tmp, key, encrypted, run, rebooting, asked, script, hasCache, passed,
                 faults, visits>>

\* Commands whose failure ends the script.  That of a wipe is ignored (one of something unknown
\* fails without effect, as an "op" may).
Checked(k) == k \in {"install", "sideload", "op"}

\* What a wipe of /cache takes with it.  Without such a partition it fails.
WipeCache ==
  IF hasCache THEN cmdfile' = Empty /\ ors' = Empty /\ UNCHANGED <<bcb, orsDisk>>
  ELSE UNCHANGED disk

\* TWFunc::tw_reboot: Update_Log_File, which may fail to clear the message or the command file,
\* sync, and a request to init, which returns.
TwReboot ==
  /\ \E message \in BOOLEAN, file \in {FALSE, hasCache} :
       /\ bcb' = IF message THEN NoMessage ELSE bcb
       /\ cmdfile' = IF file THEN Empty ELSE cmdfile
       /\ IF message /\ (file <=> hasCache) THEN UNCHANGED mishaps ELSE Mishap
  /\ orsDisk' = ors /\ UNCHANGED ors
  /\ rebooting' = TRUE

\* Mutant: a line is skipped.
Advance_Two == line' = line + 2

Advance == line' = line + 1

\* The command ends.  An installed package may ask for /cache to be wiped, and "reboot" does
\* not end the script.
CommandEnds ==
  /\ pc = "cmd"
  /\ LET c == tmp[line] k == Kind[c] IN
     \E ok \in IF Checked(k) THEN BOOLEAN ELSE {TRUE} :
       /\ ret_val' = IF ok THEN 0 ELSE 1
       /\ passed' = IF ok THEN passed \cup {c} ELSE passed
       /\ sideload' = (sideload \/ k = "sideload")
       /\ \/ k = "reboot" /\ TwReboot /\ key' \in BOOLEAN
          \/ k # "reboot" /\ UNCHANGED <<key, rebooting, mishaps>>
             /\ \/ UNCHANGED disk
                \/ (k = "wipe" \/ (k \in {"install", "sideload"} /\ ok)) /\ WipeCache
  /\ Advance
  /\ pc' = "line"
  /\ UNCHANGED <<tmp, encrypted, args, stage, reboot, asked, script, hasCache, started, excused,
                 visits>>

\* The script is deleted whether or not all of it was run.  Success makes the device reboot;
\* a sideload "forces booting to the home page".
ScriptEnds ==
  /\ pc = "line" /\ (line > Len(tmp) \/ ret_val # 0)
  /\ tmp' = Empty
  /\ reboot' = (reboot \/ (stage # "cli" /\ ret_val = 0 /\ ~sideload))
  /\ pc' = CASE stage = "aosp" -> "find" [] stage = "ors" -> "after" [] stage = "cli" -> "gui"
  /\ line' = 1 /\ ret_val' = 0 /\ sideload' = FALSE
  /\ UNCHANGED <<disk, key, encrypted, args, stage, rebooting, story, faults, visits>>

\* The end of Run_OpenRecoveryScript_Action: reboot into the system, or go to the GUI.
ActionEnds ==
  /\ pc = "after"
  /\ IF reboot THEN TwReboot ELSE UNCHANGED <<disk, rebooting, mishaps>>
  /\ pc' = "gui" /\ reboot' = FALSE
  /\ UNCHANGED <<tmp, key, encrypted, args, stage, line, ret_val, sideload, story, excused, visits>>

(***************************************************************************)
(* The user, init and faults                                               *)
(***************************************************************************)
Visit == visits < MaxVisits /\ visits' = visits + 1

\* Run_CLI_Command, which ors_command_read admits when nothing else runs (not "get", "decrypt" and
\* "runscript").
CliCommand ==
  /\ pc = "gui" /\ Visit
  /\ \E c \in Cli : tmp' = Append(tmp, c)
  /\ Open("cli", "gui")
  /\ UNCHANGED <<disk, key, encrypted, args, reboot, rebooting, story, faults>>

\* The user leaves recovery.
UserReboots ==
  /\ pc = "gui" /\ Visit
  /\ TwReboot
  /\ UNCHANGED <<tmp, key, encrypted, pc, run, story, excused>>

\* The user starts recovery from the system.
UserEntersRecovery ==
  /\ pc = "android" /\ Visit
  /\ pc' = "off" /\ key' = TRUE
  /\ UNCHANGED <<disk, tmp, encrypted, run, rebooting, story, faults>>

Restart(p) ==
  /\ pc' = p
  /\ args' = Empty /\ stage' = "aosp" /\ line' = 1 /\ ret_val' = 0 /\ sideload' = FALSE
  /\ reboot' = FALSE

\* init shuts down, whatever recovery is doing.
Reboots ==
  /\ rebooting
  /\ Restart("off") /\ tmp' = Empty /\ rebooting' = FALSE
  /\ orsDisk' = ors
  /\ UNCHANGED <<bcb, cmdfile, ors, key, encrypted, story, faults, visits>>

\* Recovery crashes and init starts it again.
ProcessCrash ==
  /\ pc \notin Outside
  /\ Mishap /\ excused' = TRUE
  /\ Restart("start")
  /\ UNCHANGED <<disk, tmp, key, encrypted, rebooting, story, visits>>

PowerLoss ==
  /\ pc \notin Outside
  /\ Mishap
  /\ Restart("off") /\ tmp' = Empty /\ rebooting' = FALSE
  /\ ors' \in {ors, orsDisk} /\ orsDisk' = ors'
  /\ UNCHANGED <<bcb, cmdfile, key, encrypted, story, excused, visits>>

Main == GetArgs \/ Insert_ORS_Command \/ ArgsEnd \/ Decrypt \/ ClearMessage \/ ClearCommandFile
          \/ Decide
Script == RecoveryCommands \/ CopyScript \/ NoScript \/ UnlinkScript \/ NextLine \/ CommandEnds
            \/ ScriptEnds \/ ActionEnds
Device == Boot \/ Main \/ Script \/ Reboots
User   == CliCommand \/ UserReboots \/ UserEntersRecovery
Fault  == ProcessCrash \/ PowerLoss

Next == Device \/ User \/ Fault

\* The device boots, commands end and init reboots.  Nothing is assumed of users and faults.
Spec == Init /\ [][Next]_vars /\ WF_vars(Device)

----------------------------------------------------------------------------
\* A command of the system (an update, a wipe) is not started a second time by a reboot or a
\* power loss, however badly timed; only a crash of the recovery process, whose script
\* survives in /tmp, or a message that cannot be cleared may repeat it.
AtMostOnce == ~excused => \A i \in DOMAIN asked : started[asked[i]] <= 1

\* A command is started only when all those before it in its list have succeeded (a wipe or a
\* "quiet" command, whose failure is ignored, has at least ended), in spite of crashes that
\* insert commands again or run a script again.
OrderKept ==
  \A l \in {asked, script} : \A i, j \in DOMAIN l :
    (i < j /\ started[l[j]] > 0) => l[i] \in passed

\* Once crashes and users have had their turn the device stays in the system or in the GUI: no
\* command, script or message makes it reboot for ever.
NoBootLoop == <>[](pc \in {"android", "gui"})

\* get_args writes the message to "always boot into recovery after this (until
\* finish_recovery() is called)"; "after this, rebooting will attempt to reinstall the update":
\* the device does not come up in the system with a command forgotten that was never begun.
RestartsUnfinished ==
  (pc = "android" /\ visits = 0 /\ asked # Empty)
    => started[asked[1]] > 0 \/ bcb.boot \/ cmdfile # Empty
=============================================================================
