------------------------ MODULE RecoveryScriptProofs ------------------------
(***************************************************************************)
(* Proofs about RecoveryScript, for any command lists and scripts and any  *)
(* number of faults and visits: the types, that a command of the system is *)
(* started at most once unless recovery crashes, and that no command is    *)
(* started before those in front of it have succeeded, or ended where the  *)
(* code ignores a failure.                                                 *)
(***************************************************************************)
EXTENDS RecoveryScript, TLAPS

-----------------------------------------------------------------------------
(* The lists                                                               *)

LEMMA Bounds == MaxMishaps \in Nat /\ MaxVisits \in Nat
  BY BoundsAssumption

LEMMA KindType == Kind \in [Commands -> Kinds]
  BY CommandsAssumption

LEMMA ListType == ASSUME NEW l \in Lists \cup {Empty} PROVE l \in Seq(Commands)
<1>1. Lists \subseteq Seq(Commands)
  BY CommandsAssumption
<1>2. << >> \in Seq(Commands)
  OBVIOUS
<1>3. Empty \in Seq(Commands)
  BY <1>2 DEF Empty
<1> QED BY <1>1, <1>3, Zenon

LEMMA CliType == Cli \subseteq Commands
  BY DEF Commands

\* No list has a command twice,
LEMMA Injective ==
  ASSUME NEW l \in Lists \cup {Empty}, NEW i \in DOMAIN l, NEW j \in DOMAIN l, l[i] = l[j]
  PROVE  i = j
<1>1. CASE l = Empty
  BY <1>1 DEF Empty
<1>2. CASE l \in Lists
  BY <1>2, CommandsAssumption DEF IsInjective
<1> QED BY <1>1, <1>2

\* and no command is in a list of the system and in a script,
LEMMA Disjoint ==
  ASSUME NEW l \in Args \cup {Empty}, NEW s \in Scripts \cup {Empty},
         NEW i \in DOMAIN l, NEW j \in DOMAIN s
  PROVE  l[i] # s[j]
<1>1. CASE l = Empty \/ s = Empty
  BY <1>1 DEF Empty
<1>2. CASE l \in Args /\ s \in Scripts
  BY <1>2, CommandsAssumption DEF ToSet
<1> QED BY <1>1, <1>2

\* or in a list and given by the command line tool.
LEMMA NotCli ==
  ASSUME NEW l \in Lists \cup {Empty}, NEW c \in Cli, NEW i \in DOMAIN l
  PROVE  l[i] # c
<1>1. CASE l = Empty
  BY <1>1 DEF Empty
<1>2. CASE l \in Lists
  BY <1>2, CommandsAssumption DEF ToSet
<1> QED BY <1>1, <1>2

LEMMA AreLists ==
  /\ Args \cup {Empty} \subseteq Lists \cup {Empty}
  /\ Scripts \cup {Empty} \subseteq Lists \cup {Empty}
  BY DEF Lists

\* The message that is written when recovery has taken its arguments.
LEMMA NothingAsked == NoMessage.boot = FALSE /\ NoMessage.args = Empty
  BY DEF NoMessage, Empty

LEMMA MessageOf ==
  ASSUME NEW a
  PROVE  [boot |-> TRUE, args |-> a].boot = TRUE /\ [boot |-> TRUE, args |-> a].args = a
  OBVIOUS

-----------------------------------------------------------------------------
(* The types                                                               *)

\* Whatever Update_Log_File fails to do, the message and the command file are kept or cleared,
LEMMA RebootFacts ==
  ASSUME TwReboot
  PROVE  /\ bcb' = NoMessage \/ bcb' = bcb
         /\ cmdfile' \in {cmdfile, Empty} /\ ors' = ors /\ orsDisk' = ors /\ rebooting' = TRUE
         /\ mishaps' = mishaps \/ Mishap
  BY Zenon DEF TwReboot

\* and so is what a wipe of /cache may take.
LEMMA WipeFacts ==
  ASSUME WipeCache
  PROVE  bcb' = bcb /\ cmdfile' \in {cmdfile, Empty} /\ ors' \in {ors, Empty} /\ orsDisk' = orsDisk
  BY Zenon DEF WipeCache, disk

Flags ==
  /\ bcb.boot \in BOOLEAN /\ key \in BOOLEAN /\ encrypted \in BOOLEAN /\ sideload \in BOOLEAN
  /\ reboot \in BOOLEAN /\ rebooting \in BOOLEAN /\ excused \in BOOLEAN /\ hasCache \in BOOLEAN

Counters ==
  /\ pc \in PC /\ stage \in {"aosp", "ors", "cli"} /\ ret_val \in {0, 1}
  /\ mishaps \in 0..MaxMishaps /\ visits \in 0..MaxVisits

\* What is left of a list on the disk is all of it or nothing.
Kept ==
  /\ asked \in Args \cup {Empty} /\ script \in Scripts \cup {Empty}
  /\ bcb.args \in {asked, Empty} /\ cmdfile \in {asked, Empty}
  /\ ors \in {script, Empty} /\ orsDisk \in {script, Empty}
  /\ hasCache \/ cmdfile = Empty

ListInv ==
  /\ tmp \in Seq(Commands) /\ args \in Seq(Commands) /\ EndOf(args, asked)
  /\ pc # "insert" => args = Empty
  /\ line \in Nat \ {0}
  /\ pc = "line" => line <= Len(tmp) + 1
  /\ pc = "cmd" => line <= Len(tmp)

History == started \in [Commands -> 0..MaxStarts] /\ passed \subseteq Commands

LEMMA FlagsStep == Flags /\ [Next]_vars => Flags'
<1> SUFFICES ASSUME Flags, [Next]_vars PROVE Flags'
  OBVIOUS
<1>f. /\ bcb.boot \in BOOLEAN /\ key \in BOOLEAN /\ encrypted \in BOOLEAN /\ sideload \in BOOLEAN
      /\ reboot \in BOOLEAN /\ rebooting \in BOOLEAN /\ excused \in BOOLEAN /\ hasCache \in BOOLEAN
  BY Zenon DEF Flags
<1>g. SUFFICES /\ bcb'.boot \in BOOLEAN /\ key' \in BOOLEAN /\ encrypted' \in BOOLEAN
               /\ sideload' \in BOOLEAN /\ reboot' \in BOOLEAN /\ rebooting' \in BOOLEAN
               /\ excused' \in BOOLEAN /\ hasCache' \in BOOLEAN
  BY Zenon DEF Flags
<1>1. CASE Boot
  BY <1>1, <1>f, Zenon DEF Boot, disk, run, story, faults
<1>2. CASE GetArgs
  <2>1. PICK writable \in BOOLEAN : \E got :
           bcb' = IF writable THEN [boot |-> TRUE, args |-> got] ELSE bcb
    BY <1>2, Zenon DEF GetArgs
  <2>2. bcb'.boot \in {TRUE, bcb.boot}
    BY <2>1, MessageOf
  <2>3. bcb'.boot \in BOOLEAN
    BY <2>2, <1>f, Zenon
  <2> QED BY <1>2, <1>f, <2>3, Zenon DEF GetArgs, story
<1>3. CASE Insert_ORS_Command
  BY <1>3, <1>f, Zenon DEF Insert_ORS_Command, disk, run, story, faults
<1>4. CASE ArgsEnd
  BY <1>4, <1>f, Zenon DEF ArgsEnd, disk, run, story, faults
<1>5. CASE Decrypt
  BY <1>5, <1>f, Zenon DEF Decrypt, disk, run, story, faults
<1>6. CASE ClearMessage
  BY <1>6, <1>f, NothingAsked, Zenon DEF ClearMessage, disk, run, story, faults
<1>7. CASE ClearCommandFile
  BY <1>7, <1>f, Zenon DEF ClearCommandFile, disk, run, story, faults
<1>8. CASE Decide
  BY <1>8, <1>f, Zenon DEF Decide, disk, run, story, faults
<1>9. CASE RecoveryCommands
  BY <1>9, <1>f, Zenon DEF RecoveryCommands, Open, disk, run, story, faults
<1>10. CASE CopyScript
  BY <1>10, <1>f, Zenon DEF CopyScript, disk, run, story, faults
<1>11. CASE NoScript
  BY <1>11, <1>f, Zenon DEF NoScript, disk, run, story, faults
<1>12. CASE UnlinkScript
  BY <1>12, <1>f, Zenon DEF UnlinkScript, Open, disk, run, story, faults
<1>13. CASE NextLine
  BY <1>13, <1>f, Zenon DEF NextLine, disk, run, story, faults
<1>14. CASE CommandEnds
  <2>1. \/ (bcb' = NoMessage \/ bcb' = bcb) /\ rebooting' = TRUE /\ key' \in BOOLEAN
        \/ UNCHANGED <<bcb, key, rebooting>>
    BY <1>14, RebootFacts, WipeFacts, Zenon DEF CommandEnds, disk
  <2>2. bcb'.boot \in BOOLEAN /\ key' \in BOOLEAN /\ rebooting' \in BOOLEAN
    BY <2>1, <1>f, NothingAsked, Zenon
  <2>3. PICK k : sideload' = (sideload \/ k = "sideload")
    BY <1>14, Zenon DEF CommandEnds
  <2>4. sideload' \in BOOLEAN
    BY <2>3, Zenon
  <2>5. encrypted' = encrypted /\ reboot' = reboot /\ excused' = excused /\ hasCache' = hasCache
    BY <1>14, Zenon DEF CommandEnds, faults
  <2> QED BY <2>2, <2>4, <2>5, <1>f, Zenon
<1>15. CASE ScriptEnds
  BY <1>15, <1>f, Zenon DEF ScriptEnds, disk, run, story, faults
<1>16. CASE ActionEnds
  <2>1. \/ (bcb' = NoMessage \/ bcb' = bcb) /\ rebooting' = TRUE
        \/ UNCHANGED <<bcb, rebooting>>
    BY <1>16, RebootFacts, Zenon DEF ActionEnds, disk
  <2> QED BY <1>16, <2>1, <1>f, NothingAsked, Zenon DEF ActionEnds, story
<1>17. CASE Reboots
  BY <1>17, <1>f, Zenon DEF Reboots, Restart, disk, run, story, faults
<1>18. CASE CliCommand
  BY <1>18, <1>f, Zenon DEF CliCommand, Open, disk, run, story, faults
<1>19. CASE UserReboots
  BY <1>19, <1>f, RebootFacts, NothingAsked, Zenon DEF UserReboots, run, story
<1>20. CASE UserEntersRecovery
  BY <1>20, <1>f, Zenon DEF UserEntersRecovery, disk, run, story, faults
<1>21. CASE ProcessCrash
  BY <1>21, <1>f, Zenon DEF ProcessCrash, Restart, disk, run, story, faults
<1>22. CASE PowerLoss
  BY <1>22, <1>f, Zenon DEF PowerLoss, Restart, disk, run, story, faults
<1>23. CASE UNCHANGED vars
  BY <1>23, <1>f, Zenon DEF vars, disk, run, story, faults
<1> QED BY <1>1, <1>2, <1>3, <1>4, <1>5, <1>6, <1>7, <1>8, <1>9, <1>10, <1>11, <1>12, <1>13,
     <1>14, <1>15, <1>16, <1>17, <1>18, <1>19, <1>20, <1>21, <1>22, <1>23 DEF Next, Device,
     Main, Script, User, Fault

LEMMA CountersStep == Counters /\ [Next]_vars => Counters'
<1> SUFFICES ASSUME Counters, [Next]_vars PROVE Counters'
  OBVIOUS
<1>b. MaxMishaps \in Nat /\ MaxVisits \in Nat
  BY Bounds
<1>1. CASE Boot
  BY <1>1, <1>b DEF Counters, Mishap, Visit, PC, Outside, Boot, disk, run, story, faults
<1>2. CASE GetArgs
  BY <1>2, <1>b DEF Counters, Mishap, Visit, PC, Outside, GetArgs, disk, run, story, faults
<1>3. CASE Insert_ORS_Command
  BY <1>3, <1>b DEF Counters, Mishap, Visit, PC, Outside, Insert_ORS_Command, disk, run, story,
       faults
<1>4. CASE ArgsEnd
  BY <1>4, <1>b DEF Counters, Mishap, Visit, PC, Outside, ArgsEnd, disk, run, story, faults
<1>5. CASE Decrypt
  BY <1>5, <1>b DEF Counters, Mishap, Visit, PC, Outside, Decrypt, disk, run, story, faults
<1>6. CASE ClearMessage
  BY <1>6, <1>b DEF Counters, Mishap, Visit, PC, Outside, ClearMessage, NoMessage, disk, run,
       story, faults
<1>7. CASE ClearCommandFile
  BY <1>7, <1>b DEF Counters, Mishap, Visit, PC, Outside, ClearCommandFile, disk, run, story, faults
<1>8. CASE Decide
  BY <1>8, <1>b DEF Counters, Mishap, Visit, PC, Outside, Decide, disk, run, story, faults
<1>9. CASE RecoveryCommands
  BY <1>9, <1>b DEF Counters, Mishap, Visit, PC, Outside, RecoveryCommands, Open, disk, run,
       story, faults
<1>10. CASE CopyScript
  BY <1>10, <1>b DEF Counters, Mishap, Visit, PC, Outside, CopyScript, disk, run, story, faults
<1>11. CASE NoScript
  BY <1>11, <1>b DEF Counters, Mishap, Visit, PC, Outside, NoScript, disk, run, story, faults
<1>12. CASE UnlinkScript
  BY <1>12, <1>b DEF Counters, Mishap, Visit, PC, Outside, UnlinkScript, Open, disk, run, story,
       faults
<1>13. CASE NextLine
  BY <1>13, <1>b DEF Counters, Mishap, Visit, PC, Outside, NextLine, disk, run, story, faults
<1>14. CASE CommandEnds
  BY <1>14, <1>b DEF Counters, Mishap, Visit, PC, Outside, CommandEnds, TwReboot, NoMessage,
       WipeCache, disk, run, story, faults
<1>15. CASE ScriptEnds
  BY <1>15, <1>b DEF Counters, Mishap, Visit, PC, Outside, ScriptEnds, disk, run, story, faults
<1>16. CASE ActionEnds
  BY <1>16, <1>b DEF Counters, Mishap, Visit, PC, Outside, ActionEnds, TwReboot, NoMessage,
       disk, run, story, faults
<1>17. CASE Reboots
  BY <1>17, <1>b DEF Counters, Mishap, Visit, PC, Outside, Reboots, Restart, disk, run, story,
       faults
<1>18. CASE CliCommand
  BY <1>18, <1>b DEF Counters, Mishap, Visit, PC, Outside, CliCommand, Open, disk, run, story,
       faults
<1>19. CASE UserReboots
  BY <1>19, <1>b DEF Counters, Mishap, Visit, PC, Outside, UserReboots, TwReboot, NoMessage,
       disk, run, story, faults
<1>20. CASE UserEntersRecovery
  BY <1>20, <1>b DEF Counters, Mishap, Visit, PC, Outside, UserEntersRecovery, disk, run, story,
       faults
<1>21. CASE ProcessCrash
  BY <1>21, <1>b DEF Counters, Mishap, Visit, PC, Outside, ProcessCrash, Restart, disk, run,
       story, faults
<1>22. CASE PowerLoss
  BY <1>22, <1>b DEF Counters, Mishap, Visit, PC, Outside, PowerLoss, Restart, disk, run, story,
       faults
<1>23. CASE UNCHANGED vars
  BY <1>23 DEF Counters, vars, disk, run, story, faults
<1> QED BY <1>1, <1>2, <1>3, <1>4, <1>5, <1>6, <1>7, <1>8, <1>9, <1>10, <1>11, <1>12, <1>13,
     <1>14, <1>15, <1>16, <1>17, <1>18, <1>19, <1>20, <1>21, <1>22, <1>23 DEF Next, Device,
     Main, Script, User, Fault

LEMMA KeptStep == Kept /\ [Next]_vars => Kept'
<1> SUFFICES ASSUME Kept, [Next]_vars PROVE Kept'
  OBVIOUS
<1>1. CASE Boot
  BY <1>1, Zenon DEF Kept, Boot, disk, run, story, faults
<1>2. CASE GetArgs
  <2>1. PICK readable, writable, got :
           /\ readable \in BOOLEAN /\ writable \in BOOLEAN
           /\ got = IF readable /\ bcb.args # Empty THEN bcb.args ELSE cmdfile
           /\ bcb' = IF writable THEN [boot |-> TRUE, args |-> got] ELSE bcb
    BY <1>2, Zenon DEF GetArgs
  <2>2. got \in {asked, Empty}
    BY <2>1, Zenon DEF Kept
  <2>3. bcb'.args \in {asked, Empty}
    BY <2>1, <2>2, MessageOf, Zenon DEF Kept
  <2> QED BY <1>2, <2>3, Zenon DEF Kept, GetArgs, story
<1>3. CASE Insert_ORS_Command
  BY <1>3, Zenon DEF Kept, Insert_ORS_Command, disk, run, story, faults
<1>4. CASE ArgsEnd
  BY <1>4, Zenon DEF Kept, ArgsEnd, disk, run, story, faults
<1>5. CASE Decrypt
  BY <1>5, Zenon DEF Kept, Decrypt, disk, run, story, faults
<1>6. CASE ClearMessage
  BY <1>6, NothingAsked, Zenon DEF Kept, ClearMessage, disk, run, story, faults
<1>7. CASE ClearCommandFile
  BY <1>7, Zenon DEF Kept, ClearCommandFile, disk, run, story, faults
<1>8. CASE Decide
  BY <1>8, Zenon DEF Kept, Decide, disk, run, story, faults
<1>9. CASE RecoveryCommands
  BY <1>9, Zenon DEF Kept, RecoveryCommands, Open, disk, run, story, faults
<1>10. CASE CopyScript
  BY <1>10, Zenon DEF Kept, CopyScript, disk, run, story, faults
<1>11. CASE NoScript
  BY <1>11, Zenon DEF Kept, NoScript, disk, run, story, faults
<1>12. CASE UnlinkScript
  BY <1>12, Zenon DEF Kept, UnlinkScript, Open, disk, run, story, faults
<1>13. CASE NextLine
  BY <1>13, Zenon DEF Kept, NextLine, disk, run, story, faults
<1>14. CASE CommandEnds
  <2>1. /\ bcb' = NoMessage \/ bcb' = bcb
        /\ cmdfile' \in {cmdfile, Empty} /\ ors' \in {ors, Empty} /\ orsDisk' \in {orsDisk, ors}
    BY <1>14, RebootFacts, WipeFacts, Zenon DEF CommandEnds, disk
  <2>2. UNCHANGED <<asked, script, hasCache>>
    BY <1>14, Zenon DEF CommandEnds
  <2> QED BY <2>1, <2>2, NothingAsked, Zenon DEF Kept
<1>15. CASE ScriptEnds
  BY <1>15, Zenon DEF Kept, ScriptEnds, disk, run, story, faults
<1>16. CASE ActionEnds
  BY <1>16, NothingAsked, Zenon DEF Kept, ActionEnds, TwReboot, disk, run, story, faults
<1>17. CASE Reboots
  BY <1>17, Zenon DEF Kept, Reboots, Restart, disk, run, story, faults
<1>18. CASE CliCommand
  BY <1>18, Zenon DEF Kept, CliCommand, Open, disk, run, story, faults
<1>19. CASE UserReboots
  BY <1>19, NothingAsked, Zenon DEF Kept, UserReboots, TwReboot, disk, run, story, faults
<1>20. CASE UserEntersRecovery
  BY <1>20, Zenon DEF Kept, UserEntersRecovery, disk, run, story, faults
<1>21. CASE ProcessCrash
  BY <1>21, Zenon DEF Kept, ProcessCrash, Restart, disk, run, story, faults
<1>22. CASE PowerLoss
  BY <1>22, Zenon DEF Kept, PowerLoss, Restart, disk, run, story, faults
<1>23. CASE UNCHANGED vars
  BY <1>23, Zenon DEF Kept, vars, disk, story
<1> QED BY <1>1, <1>2, <1>3, <1>4, <1>5, <1>6, <1>7, <1>8, <1>9, <1>10, <1>11, <1>12, <1>13,
     <1>14, <1>15, <1>16, <1>17, <1>18, <1>19, <1>20, <1>21, <1>22, <1>23 DEF Next, Device,
     Main, Script, User, Fault

LEMMA HistoryStep == ListInv /\ History /\ [Next]_vars => History'
<1> SUFFICES ASSUME ListInv, History, [Next]_vars PROVE History'
  OBVIOUS
<1>1. CASE Boot
  BY <1>1 DEF History, story, Boot
<1>2. CASE GetArgs
  BY <1>2 DEF History, story, GetArgs
<1>3. CASE Insert_ORS_Command
  BY <1>3 DEF History, story, Insert_ORS_Command
<1>4. CASE ArgsEnd
  BY <1>4 DEF History, story, ArgsEnd
<1>5. CASE Decrypt
  BY <1>5 DEF History, story, Decrypt
<1>6. CASE ClearMessage
  BY <1>6 DEF History, story, ClearMessage
<1>7. CASE ClearCommandFile
  BY <1>7 DEF History, story, ClearCommandFile
<1>8. CASE Decide
  BY <1>8 DEF History, story, Decide
<1>9. CASE RecoveryCommands
  BY <1>9 DEF History, story, RecoveryCommands
<1>10. CASE CopyScript
  BY <1>10 DEF History, story, CopyScript
<1>11. CASE NoScript
  BY <1>11 DEF History, story, NoScript
<1>12. CASE UnlinkScript
  BY <1>12 DEF History, story, UnlinkScript
<1>13. CASE NextLine
  <2>1. line \in DOMAIN tmp /\ tmp[line] \in Commands
    BY <1>13 DEF NextLine, ListInv
  <2> QED BY <1>13, <2>1 DEF NextLine, Start, History, MaxStarts
<1>14. CASE CommandEnds
  <2>1. line \in DOMAIN tmp /\ tmp[line] \in Commands
    BY <1>14 DEF CommandEnds, ListInv
  <2>2. started' = started /\ passed' \subseteq passed \cup {tmp[line]}
    BY <1>14, Zenon DEF CommandEnds
  <2> QED BY <2>1, <2>2 DEF History
<1>15. CASE ScriptEnds
  BY <1>15 DEF History, story, ScriptEnds
<1>16. CASE ActionEnds
  BY <1>16 DEF History, story, ActionEnds
<1>17. CASE Reboots
  BY <1>17 DEF History, story, Reboots
<1>18. CASE CliCommand
  BY <1>18 DEF History, story, CliCommand
<1>19. CASE UserReboots
  BY <1>19 DEF History, story, UserReboots
<1>20. CASE UserEntersRecovery
  BY <1>20 DEF History, story, UserEntersRecovery
<1>21. CASE ProcessCrash
  BY <1>21 DEF History, story, ProcessCrash
<1>22. CASE PowerLoss
  BY <1>22 DEF History, story, PowerLoss
<1>23. CASE UNCHANGED vars
  BY <1>23 DEF History, vars, story
<1> QED BY <1>1, <1>2, <1>3, <1>4, <1>5, <1>6, <1>7, <1>8, <1>9, <1>10, <1>11, <1>12, <1>13,
     <1>14, <1>15, <1>16, <1>17, <1>18, <1>19, <1>20, <1>21, <1>22, <1>23 DEF Next, Device,
     Main, Script, User, Fault

LEMMA Elements == ASSUME NEW s \in Seq(Commands), s # Empty
                  PROVE  Len(s) \in Nat \ {0} /\ Head(s) = s[1] /\ Head(s) \in Commands
  BY DEF Empty

LEMMA NothingLeft == ASSUME NEW l \in Seq(Commands) PROVE EndOf(Empty, l) /\ EndOf(l, l)
  BY DEF EndOf, Empty

LEMMA OneLess ==
  ASSUME NEW a \in Seq(Commands), NEW l \in Seq(Commands), a # Empty, EndOf(a, l)
  PROVE  Tail(a) \in Seq(Commands) /\ EndOf(Tail(a), l)
<1>1. Tail(a) \in Seq(Commands) /\ Len(Tail(a)) = Len(a) - 1 /\ Len(a) \in Nat \ {0}
      /\ \A i \in 1..Len(Tail(a)) : Tail(a)[i] = a[i + 1]
  BY DEF Empty
<1> QED BY <1>1 DEF EndOf

LEMMA ListInvStep == Counters /\ Kept /\ ListInv /\ [Next]_vars => ListInv'
<1> SUFFICES ASSUME Counters, Kept, ListInv, [Next]_vars PROVE ListInv'
  OBVIOUS
<1>a. asked \in Seq(Commands) /\ script \in Seq(Commands) /\ Empty \in Seq(Commands)
  <2>1. asked \in Lists \cup {Empty} /\ script \in Lists \cup {Empty} /\ Empty \in Lists \cup {Empty}
    BY AreLists, Zenon DEF Kept
  <2> QED BY <2>1, ListType, Zenon
<1>e. Len(Empty) = 0
  BY DEF Empty
<1>n. EndOf(Empty, asked) /\ EndOf(asked, asked)
  BY <1>a, NothingLeft
<1>k. Len(tmp) \in Nat /\ line \in Nat \ {0}
  BY DEF ListInv
<1>h. asked' = asked /\ script' = script
  BY Zenon DEF Next, Device, Main, Script, User, Fault, vars, story, Boot, GetArgs,
       Insert_ORS_Command, ArgsEnd, Decrypt, ClearMessage, ClearCommandFile, Decide,
       RecoveryCommands, CopyScript, NoScript, UnlinkScript, NextLine, CommandEnds, ScriptEnds,
       ActionEnds, Reboots, CliCommand, UserReboots, UserEntersRecovery, ProcessCrash, PowerLoss
<1>1. CASE Boot
  BY <1>1, <1>a, <1>e, <1>h, <1>n, <1>k DEF ListInv, Boot, disk, run, story, faults
<1>2. CASE GetArgs
  <2>1. args' \in {bcb.args, cmdfile}
    BY <1>2, Zenon DEF GetArgs
  <2>2. args' \in {asked, Empty}
    BY <2>1, Zenon DEF Kept
  <2>3. args' \in Seq(Commands) /\ EndOf(args', asked')
    BY <2>2, <1>a, <1>n, <1>h, Zenon
  <2> QED BY <1>2, <2>3 DEF GetArgs, ListInv
<1>3. CASE Insert_ORS_Command
  <2>1. Head(args) \in Commands
    BY <1>3, Elements DEF Insert_ORS_Command, ListInv
  <2>2. Tail(args) \in Seq(Commands) /\ EndOf(Tail(args), asked)
    BY <1>3, OneLess, <1>a DEF Insert_ORS_Command, ListInv
  <2>3. Append(tmp, Head(args)) \in Seq(Commands)
    BY <2>1 DEF ListInv
  <2>4. tmp' \in Seq(Commands)
    BY <1>3, <2>3, Zenon DEF Insert_ORS_Command, ListInv
  <2>5. args' \in Seq(Commands) /\ EndOf(args', asked')
    BY <1>3, <2>2, <1>a, <1>n, <1>h, Zenon DEF Insert_ORS_Command, ListInv
  <2> QED BY <1>3, <2>4, <2>5 DEF Insert_ORS_Command, ListInv
<1>4. CASE ArgsEnd
  BY <1>4, <1>a, <1>e, <1>h, <1>n, <1>k DEF ListInv, ArgsEnd, disk, run, story, faults
<1>5. CASE Decrypt
  BY <1>5, <1>a, <1>e, <1>h, <1>n, <1>k DEF ListInv, Decrypt, disk, run, story, faults
<1>6. CASE ClearMessage
  BY <1>6, <1>a, <1>e, <1>h, <1>n, <1>k DEF ListInv, ClearMessage, NoMessage, disk, run, story,
       faults
<1>7. CASE ClearCommandFile
  BY <1>7, <1>a, <1>e, <1>h, <1>n, <1>k DEF ListInv, ClearCommandFile, disk, run, story, faults
<1>8. CASE Decide
  BY <1>8, <1>a, <1>e, <1>h, <1>n, <1>k DEF ListInv, Decide, disk, run, story, faults
<1>9. CASE RecoveryCommands
  BY <1>9, <1>a, <1>e, <1>h, <1>n, <1>k DEF ListInv, RecoveryCommands, Open, disk, run, story,
       faults
<1>10. CASE CopyScript
  <2>1. tmp' \in {tmp, script, Empty}
    BY <1>10, Zenon DEF CopyScript, Kept
  <2>2. tmp' \in Seq(Commands)
    BY <2>1, <1>a, Zenon DEF ListInv
  <2> QED BY <1>10, <2>2, <1>h DEF CopyScript, ListInv, run
<1>11. CASE NoScript
  BY <1>11, <1>a, <1>e, <1>h, <1>n, <1>k DEF ListInv, NoScript, disk, run, story, faults
<1>12. CASE UnlinkScript
  BY <1>12, <1>a, <1>e, <1>h, <1>n, <1>k DEF ListInv, UnlinkScript, Open, disk, run, story, faults
<1>13. CASE NextLine
  BY <1>13, <1>h, <1>k DEF NextLine, ListInv, run
<1>14. CASE CommandEnds
  BY <1>14, <1>h, <1>k DEF CommandEnds, Advance, ListInv
<1>15. CASE ScriptEnds
  <2>1. pc' \in {"find", "after", "gui"}
    BY <1>15 DEF ScriptEnds, Counters
  <2>2. tmp' = Empty /\ args' = args /\ line' = 1 /\ pc # "insert"
    BY <1>15 DEF ScriptEnds
  <2> QED BY <2>1, <2>2, <1>a, <1>h DEF ListInv
<1>16. CASE ActionEnds
  BY <1>16, <1>a, <1>e, <1>h, <1>n, <1>k DEF ListInv, ActionEnds, TwReboot, NoMessage, disk,
       run, story, faults
<1>17. CASE Reboots
  BY <1>17, <1>a, <1>e, <1>h, <1>n, <1>k DEF ListInv, Reboots, Restart, disk, run, story, faults
<1>18. CASE CliCommand
  <2>1. PICK c \in Cli : tmp' = Append(tmp, c)
    BY <1>18, Zenon DEF CliCommand
  <2>2. tmp' \in Seq(Commands)
    BY <2>1, CliType DEF ListInv
  <2>3. Len(tmp') \in Nat
    BY <2>2
  <2> QED BY <1>18, <2>2, <2>3, <1>h DEF CliCommand, Open, ListInv
<1>19. CASE UserReboots
  BY <1>19, <1>a, <1>e, <1>h, <1>n, <1>k DEF ListInv, UserReboots, TwReboot, NoMessage, disk,
       run, story, faults
<1>20. CASE UserEntersRecovery
  BY <1>20, <1>a, <1>e, <1>h, <1>n, <1>k DEF ListInv, UserEntersRecovery, disk, run, story, faults
<1>21. CASE ProcessCrash
  BY <1>21, <1>a, <1>e, <1>h, <1>n, <1>k DEF ListInv, ProcessCrash, Restart, disk, run, story,
       faults
<1>22. CASE PowerLoss
  BY <1>22, <1>a, <1>e, <1>h, <1>n, <1>k DEF ListInv, PowerLoss, Restart, disk, run, story, faults
<1>23. CASE UNCHANGED vars
  BY <1>23 DEF ListInv, vars, run, story
<1> QED BY <1>1, <1>2, <1>3, <1>4, <1>5, <1>6, <1>7, <1>8, <1>9, <1>10, <1>11, <1>12, <1>13,
     <1>14, <1>15, <1>16, <1>17, <1>18, <1>19, <1>20, <1>21, <1>22, <1>23 DEF Next, Device,
     Main, Script, User, Fault

TypeInv == Flags /\ Counters /\ Kept /\ ListInv /\ History

LEMMA TypeInvInit == Init => TypeInv
<1> SUFFICES ASSUME Init PROVE TypeInv
  OBVIOUS
<1>1. Flags
  <2>1. bcb.boot \in BOOLEAN
    BY NothingAsked, MessageOf, Zenon DEF Init
  <2> QED BY <2>1, Zenon DEF Init, Flags
<1>2. Counters
  BY Bounds DEF Init, Counters, PC, Outside
<1>3. Kept
  BY NothingAsked, MessageOf, Zenon DEF Init, Kept
<1>4. ListInv
  <2>1. asked \in Seq(Commands) /\ Empty \in Seq(Commands)
    <3>1. asked \in Lists \cup {Empty} /\ Empty \in Lists \cup {Empty}
      BY AreLists, Zenon DEF Init
    <3> QED BY <3>1, ListType, Zenon
  <2>2. EndOf(Empty, asked)
    BY <2>1, NothingLeft
  <2> QED BY <2>1, <2>2 DEF Init, ListInv
<1>5. History
  BY DEF Init, History, MaxStarts
<1> QED BY <1>1, <1>2, <1>3, <1>4, <1>5 DEF TypeInv

LEMMA TypeInvStep == TypeInv /\ [Next]_vars => TypeInv'
  BY FlagsStep, CountersStep, KeptStep, ListInvStep, HistoryStep, Zenon DEF TypeInv

LEMMA TypeInvImplies == TypeInv => TypeOK
<1> SUFFICES ASSUME TypeInv PROVE TypeOK
  OBVIOUS
<1>1. /\ bcb.boot \in BOOLEAN /\ key \in BOOLEAN /\ encrypted \in BOOLEAN /\ sideload \in BOOLEAN
      /\ reboot \in BOOLEAN /\ rebooting \in BOOLEAN /\ excused \in BOOLEAN /\ hasCache \in BOOLEAN
  BY Zenon DEF TypeInv, Flags
<1>2. /\ pc \in PC /\ stage \in {"aosp", "ors", "cli"} /\ ret_val \in {0, 1}
      /\ mishaps \in 0..MaxMishaps /\ visits \in 0..MaxVisits
  BY Zenon DEF TypeInv, Counters
<1>3. /\ asked \in Args \cup {Empty} /\ script \in Scripts \cup {Empty}
      /\ bcb.args \in Args \cup {Empty} /\ cmdfile \in Args \cup {Empty}
      /\ ors \in Scripts \cup {Empty} /\ orsDisk \in Scripts \cup {Empty}
  BY Zenon DEF TypeInv, Kept
<1>4. tmp \in Seq(Commands) /\ args \in Seq(Commands) /\ EndOf(args, asked)
  BY Zenon DEF TypeInv, ListInv
<1>5. line \in Nat /\ (pc \in {"line", "cmd"} => line \in 1..(Len(tmp) + 1))
  BY DEF TypeInv, ListInv
<1>6. started \in [Commands -> 0..MaxStarts] /\ passed \subseteq Commands
  BY Zenon DEF TypeInv, History
<1> QED BY <1>1, <1>2, <1>3, <1>4, <1>5, <1>6, Zenon DEF TypeOK

LEMMA TypeInvAlways == Spec => []TypeInv
  BY TypeInvInit, TypeInvStep, PTL DEF Spec

\* The variables have their types: what is on the disk is a list of the system or nothing, what
\* is still to be converted is an end of that list, and run_script_file stays in its script.
THEOREM Types == Spec => []TypeOK
  BY TypeInvAlways, TypeInvImplies, PTL

-----------------------------------------------------------------------------
(* Commands are started in their order                                     *)

\* Where a script t has a command of the list l, the line before it has the command that is
\* before it in l.  Crashes leave scripts that repeat an end or a beginning of a list; this
\* is what they keep.
WellOrdered(t, l) ==
  \A j \in DOMAIN t, k \in DOMAIN l :
    t[j] = l[k] /\ k > 1 => j > 1 /\ t[j - 1] = l[k - 1]

ScriptOrder ==
  /\ WellOrdered(tmp, asked) /\ WellOrdered(tmp, script)
  /\ pc = "insert" /\ args # Empty /\ Len(args) < Len(asked) =>
       tmp # Empty /\ tmp[Len(tmp)] = asked[Len(asked) - Len(args)]

\* The script went on after every line in front of the current one; what it went on after was
\* started.
RunOrder ==
  /\ pc \in {"line", "cmd"} /\ ret_val = 0 =>
       \A j \in DOMAIN tmp : j < line => tmp[j] \in passed
  /\ pc = "cmd" => ret_val = 0 /\ started[tmp[line]] > 0
  /\ \A c \in passed : started[c] > 0

OrderOf(l) == \A i, j \in DOMAIN l : (i < j /\ started[l[j]] > 0) => l[i] \in passed

LEMMA EmptyOrdered == ASSUME NEW l PROVE WellOrdered(Empty, l)
  BY DEF WellOrdered, Empty

LEMMA SelfOrdered == ASSUME NEW l \in Lists \cup {Empty} PROVE WellOrdered(l, l)
  BY Injective, ListType DEF WellOrdered

LEMMA OthersOrdered ==
  ASSUME NEW t, NEW l, \A j \in DOMAIN t, k \in DOMAIN l : t[j] # l[k]
  PROVE  WellOrdered(t, l)
  BY DEF WellOrdered

LEMMA AppendOrdered ==
  ASSUME NEW t \in Seq(Commands), NEW l \in Seq(Commands), NEW c \in Commands, WellOrdered(t, l),
         \A k \in DOMAIN l : c = l[k] /\ k > 1 => t # Empty /\ t[Len(t)] = l[k - 1]
  PROVE  WellOrdered(Append(t, c), l)
<1> SUFFICES ASSUME NEW j \in DOMAIN Append(t, c), NEW k \in DOMAIN l,
                    Append(t, c)[j] = l[k], k > 1
             PROVE  j > 1 /\ Append(t, c)[j - 1] = l[k - 1]
  BY DEF WellOrdered
<1>1. Len(t) \in Nat /\ j \in 1..(Len(t) + 1) /\ k \in Nat
  OBVIOUS
<1>2. \A i \in 1..Len(t) : Append(t, c)[i] = t[i]
  OBVIOUS
<1>3. CASE j \in 1..Len(t)
  <2>1. j \in DOMAIN t /\ t[j] = l[k]
    BY <1>2, <1>3
  <2>2. j > 1 /\ t[j - 1] = l[k - 1]
    BY <2>1 DEF WellOrdered
  <2> QED BY <2>2, <1>1, <1>2, <1>3
<1>4. CASE j = Len(t) + 1
  <2>1. c = l[k]
    BY <1>4
  <2>2. t # Empty /\ t[Len(t)] = l[k - 1]
    BY <2>1
  <2>3. Len(t) > 0
    BY <2>2 DEF Empty
  <2> QED BY <2>2, <2>3, <1>1, <1>2, <1>4
<1> QED BY <1>1, <1>3, <1>4

LEMMA ListsOf ==
  ASSUME Kept
  PROVE  /\ asked \in Seq(Commands) /\ script \in Seq(Commands) /\ Empty \in Seq(Commands)
         /\ asked \in Lists \cup {Empty} /\ script \in Lists \cup {Empty}
         /\ asked \in Args \cup {Empty} /\ script \in Scripts \cup {Empty}
<1>1. asked \in Lists \cup {Empty} /\ script \in Lists \cup {Empty} /\ Empty \in Lists \cup {Empty}
  BY AreLists, Zenon DEF Kept
<1> QED BY <1>1, ListType, Zenon DEF Kept

LEMMA ListsStay == [Next]_vars => asked' = asked /\ script' = script
  BY Zenon DEF Next, Device, Main, Script, User, Fault, vars, story, Boot, GetArgs,
       Insert_ORS_Command, ArgsEnd, Decrypt, ClearMessage, ClearCommandFile, Decide,
       RecoveryCommands, CopyScript, NoScript, UnlinkScript, NextLine, CommandEnds, ScriptEnds,
       ActionEnds, Reboots, CliCommand, UserReboots, UserEntersRecovery, ProcessCrash, PowerLoss

LEMMA ScriptOrderStep == TypeInv /\ ScriptOrder /\ [Next]_vars => ScriptOrder'
<1> SUFFICES ASSUME TypeInv, ScriptOrder, [Next]_vars PROVE ScriptOrder'
  OBVIOUS
<1>h. asked' = asked /\ script' = script
  BY ListsStay
<1>a. /\ asked \in Seq(Commands) /\ script \in Seq(Commands)
      /\ asked \in Lists \cup {Empty} /\ script \in Lists \cup {Empty}
      /\ asked \in Args \cup {Empty} /\ script \in Scripts \cup {Empty}
  BY ListsOf DEF TypeInv
<1>l. tmp \in Seq(Commands) /\ args \in Seq(Commands) /\ EndOf(args, asked)
  BY DEF TypeInv, ListInv
<1>o. WellOrdered(tmp, asked) /\ WellOrdered(tmp, script)
  BY DEF ScriptOrder
<1>e. WellOrdered(Empty, asked) /\ WellOrdered(Empty, script)
  BY EmptyOrdered
<1>s. CASE tmp' \in {tmp, Empty} /\ pc' # "insert"
  <2>1. WellOrdered(tmp', asked') /\ WellOrdered(tmp', script')
    BY <1>s, <1>h, <1>o, <1>e, Zenon
  <2> QED BY <2>1, <1>s DEF ScriptOrder
<1>1. CASE Boot
  BY <1>1, <1>s DEF Boot, disk, run, story, faults
<1>2. CASE GetArgs
  <2>1. args' \in {asked, Empty}
    BY <1>2, Zenon DEF GetArgs, TypeInv, Kept
  <2>2. ~(args' # Empty /\ Len(args') < Len(asked'))
    BY <2>1, <1>a, <1>h
  <2>3. WellOrdered(tmp', asked') /\ WellOrdered(tmp', script')
    BY <1>2, <1>h, <1>o, Zenon DEF GetArgs
  <2> QED BY <2>2, <2>3 DEF ScriptOrder
<1>3. CASE Insert_ORS_Command
  <2>1. CASE args' = Empty /\ tmp' = tmp
    <3>1. WellOrdered(tmp', asked') /\ WellOrdered(tmp', script')
      BY <2>1, <1>h, <1>o, Zenon
    <3> QED BY <3>1, <2>1 DEF ScriptOrder
  <2>2. CASE tmp' = Append(tmp, Head(args)) /\ args' = Tail(args)
    <3> DEFINE n == Len(asked) - Len(args)
               c == Head(args)
    <3>1. /\ n \in Nat /\ Len(args) \in Nat \ {0} /\ n + 1 \in DOMAIN asked
          /\ c = asked[n + 1] /\ c \in Commands /\ Len(Tail(args)) = Len(args) - 1
      <4>1. args # Empty
        BY <1>3 DEF Insert_ORS_Command
      <4>2. Len(args) \in Nat \ {0} /\ c = args[1] /\ c \in Commands
        BY <4>1, <1>l, Elements
      <4>3. Len(asked) \in Nat /\ DOMAIN asked = 1..Len(asked)
        BY <1>a
      <4>4. n \in Nat /\ n + 1 \in DOMAIN asked /\ args[1] = asked[n + 1]
        BY <4>2, <4>3, <1>l DEF EndOf
      <4>5. Len(Tail(args)) = Len(args) - 1
        BY <4>1, <1>l DEF Empty
      <4> QED BY <4>2, <4>4, <4>5
    <3>2. ASSUME NEW k \in DOMAIN asked, c = asked[k], k > 1
          PROVE  tmp # Empty /\ tmp[Len(tmp)] = asked[k - 1]
      <4>1. k = n + 1
        BY <3>1, <3>2, <1>a, Injective
      <4>2. Len(args) < Len(asked) /\ k - 1 = Len(asked) - Len(args)
        BY <4>1, <3>1, <3>2, <1>a
      <4> QED BY <4>2, <1>3 DEF ScriptOrder, Insert_ORS_Command
    <3>3. \A k \in DOMAIN script : c # script[k]
      BY <3>1, <1>a, Disjoint
    <3>4. WellOrdered(Append(tmp, c), asked)
      BY <3>1, <3>2, <1>l, <1>a, <1>o, AppendOrdered
    <3>5. WellOrdered(Append(tmp, c), script)
      BY <3>1, <3>3, <1>l, <1>a, <1>o, AppendOrdered
    <3>6. WellOrdered(tmp', asked') /\ WellOrdered(tmp', script')
      BY <2>2, <3>4, <3>5, <1>h, Zenon
    <3>7. tmp' # Empty /\ tmp'[Len(tmp')] = c
      BY <2>2, <1>l, <3>1 DEF Empty
    <3>8. Len(asked') - Len(args') = n + 1
      BY <2>2, <1>h, <3>1, <1>a
    <3> QED BY <3>1, <3>6, <3>7, <3>8, <1>h DEF ScriptOrder
  <2> QED BY <1>3, <2>1, <2>2, Zenon DEF Insert_ORS_Command
<1>4. CASE ArgsEnd
  BY <1>4, <1>s DEF ArgsEnd, disk, run, story, faults
<1>5. CASE Decrypt
  BY <1>5, <1>s DEF Decrypt, disk, run, story, faults
<1>6. CASE ClearMessage
  BY <1>6, <1>s DEF ClearMessage, NoMessage, disk, run, story, faults
<1>7. CASE ClearCommandFile
  BY <1>7, <1>s DEF ClearCommandFile, disk, run, story, faults
<1>8. CASE Decide
  BY <1>8, <1>s DEF Decide, disk, run, story, faults
<1>9. CASE RecoveryCommands
  BY <1>9, <1>s DEF RecoveryCommands, Open, disk, run, story, faults
<1>10. CASE CopyScript
  <2>1. tmp' \in {tmp, script, Empty} /\ pc' # "insert"
    BY <1>10 DEF CopyScript, TypeInv, Kept
  <2>2. WellOrdered(script, script)
    BY <1>a, SelfOrdered
  <2>3. WellOrdered(script, asked)
    BY <1>a, Disjoint, OthersOrdered
  <2>4. WellOrdered(tmp', asked') /\ WellOrdered(tmp', script')
    BY <2>1, <2>2, <2>3, <1>o, <1>e, <1>h, Zenon
  <2> QED BY <2>1, <2>4 DEF ScriptOrder
<1>11. CASE NoScript
  BY <1>11, <1>s DEF NoScript, disk, run, story, faults
<1>12. CASE UnlinkScript
  BY <1>12, <1>s DEF UnlinkScript, Open, disk, run, story, faults
<1>13. CASE NextLine
  BY <1>13, <1>s DEF NextLine, disk, run, story, faults
<1>14. CASE CommandEnds
  BY <1>14, <1>s DEF CommandEnds, TwReboot, NoMessage, WipeCache, disk, run, story, faults
<1>15. CASE ScriptEnds
  <2>1. pc' \in {"find", "after", "gui"}
    BY <1>15 DEF ScriptEnds, TypeInv, Counters
  <2> QED BY <1>15, <2>1, <1>s DEF ScriptEnds
<1>16. CASE ActionEnds
  BY <1>16, <1>s DEF ActionEnds, TwReboot, NoMessage, disk, run, story, faults
<1>17. CASE Reboots
  BY <1>17, <1>s DEF Reboots, Restart, disk, run, story, faults
<1>18. CASE CliCommand
  <2>1. PICK c \in Cli : tmp' = Append(tmp, c)
    BY <1>18, Zenon DEF CliCommand
  <2>2. c \in Commands /\ (\A k \in DOMAIN asked : c # asked[k]) /\ (\A k \in DOMAIN script : c # script[k])
    BY <1>a, NotCli, CliType
  <2>3. WellOrdered(Append(tmp, c), asked) /\ WellOrdered(Append(tmp, c), script)
    BY <2>2, <1>l, <1>a, <1>o, AppendOrdered
  <2>4. WellOrdered(tmp', asked') /\ WellOrdered(tmp', script')
    BY <2>1, <2>3, <1>h, Zenon
  <2>5. pc' # "insert"
    BY <1>18 DEF CliCommand, Open
  <2> QED BY <2>4, <2>5 DEF ScriptOrder
<1>19. CASE UserReboots
  BY <1>19, <1>s DEF UserReboots
<1>20. CASE UserEntersRecovery
  BY <1>20, <1>s DEF UserEntersRecovery, disk, run, story, faults
<1>21. CASE ProcessCrash
  BY <1>21, <1>s DEF ProcessCrash, Restart, disk, run, story, faults
<1>22. CASE PowerLoss
  BY <1>22, <1>s DEF PowerLoss, Restart, disk, run, story, faults
<1>23. CASE UNCHANGED vars
  <2>1. WellOrdered(tmp', asked') /\ WellOrdered(tmp', script')
    BY <1>23, <1>h, <1>o, Zenon DEF vars
  <2> QED BY <1>23, <2>1 DEF ScriptOrder, vars, run, story
<1> QED BY <1>1, <1>2, <1>3, <1>4, <1>5, <1>6, <1>7, <1>8, <1>9, <1>10, <1>11, <1>12, <1>13,
     <1>14, <1>15, <1>16, <1>17, <1>18, <1>19, <1>20, <1>21, <1>22, <1>23 DEF Next, Device,
     Main, Script, User, Fault

\* A line is started: the counts of all other commands stay.
LEMMA StartFacts ==
  ASSUME TypeInv, NextLine
  PROVE  /\ line \in DOMAIN tmp /\ tmp[line] \in Commands /\ ret_val = 0
         /\ started'[tmp[line]] > 0
         /\ started[tmp[line]] = 0 => started'[tmp[line]] = 1
         /\ \A c \in Commands : c # tmp[line] => started'[c] = started[c]
         /\ \A c \in Commands : started[c] > 0 => started'[c] > 0
<1>1. line \in DOMAIN tmp /\ tmp[line] \in Commands /\ ret_val = 0
  BY DEF NextLine, TypeInv, ListInv
<1>2. started \in [Commands -> 0..MaxStarts] /\ MaxStarts = 3
  BY DEF TypeInv, History, MaxStarts
<1>3. started' = [started EXCEPT ![tmp[line]] = IF @ < MaxStarts THEN @ + 1 ELSE @]
  BY DEF NextLine, Start
<1> QED BY <1>1, <1>2, <1>3

LEMMA EndFacts ==
  ASSUME TypeInv, CommandEnds
  PROVE  /\ line \in DOMAIN tmp /\ tmp[line] \in Commands /\ line' = line + 1 /\ pc' = "line"
         /\ started' = started /\ tmp' = tmp /\ stage' = stage
         /\ \/ ret_val' = 0 /\ passed' = passed \cup {tmp[line]}
            \/ ret_val' = 1 /\ passed' = passed
<1>1. line \in DOMAIN tmp /\ tmp[line] \in Commands
  BY DEF CommandEnds, TypeInv, ListInv
<1>2. \/ ret_val' = 0 /\ passed' = passed \cup {tmp[line]}
      \/ ret_val' = 1 /\ passed' = passed
  BY Zenon DEF CommandEnds
<1>3. line' = line + 1 /\ pc' = "line" /\ started' = started /\ tmp' = tmp /\ stage' = stage
  BY DEF CommandEnds, Advance
<1> QED BY <1>1, <1>2, <1>3

LEMMA RunOrderStep == TypeInv /\ RunOrder /\ [Next]_vars => RunOrder'
<1> SUFFICES ASSUME TypeInv, RunOrder, [Next]_vars PROVE RunOrder'
  OBVIOUS
<1>t. tmp \in Seq(Commands) /\ line \in Nat /\ passed \subseteq Commands
  BY DEF TypeInv, ListInv, History
<1>s. CASE UNCHANGED <<started, passed>> /\ pc' \notin {"line", "cmd"}
  BY <1>s DEF RunOrder
<1>o. CASE UNCHANGED <<started, passed>> /\ pc' # "cmd" /\ line' = 1
           /\ \A j \in DOMAIN tmp' : ~(j < 1)
  BY <1>o DEF RunOrder
<1>1. CASE Boot
  BY <1>1, <1>s DEF Boot, disk, run, story, faults
<1>2. CASE GetArgs
  BY <1>2, <1>s DEF GetArgs, story
<1>3. CASE Insert_ORS_Command
  BY <1>3, <1>s DEF Insert_ORS_Command, story
<1>4. CASE ArgsEnd
  BY <1>4, <1>s DEF ArgsEnd, disk, run, story, faults
<1>5. CASE Decrypt
  BY <1>5, <1>s DEF Decrypt, disk, run, story, faults
<1>6. CASE ClearMessage
  BY <1>6, <1>s DEF ClearMessage, NoMessage, disk, run, story, faults
<1>7. CASE ClearCommandFile
  BY <1>7, <1>s DEF ClearCommandFile, disk, run, story, faults
<1>8. CASE Decide
  BY <1>8, <1>s DEF Decide, disk, run, story, faults
<1>9. CASE RecoveryCommands
  BY <1>9, <1>o, <1>t DEF RecoveryCommands, Open, disk, run, story, faults
<1>10. CASE CopyScript
  BY <1>10, <1>s DEF CopyScript, disk, run, story, faults
<1>11. CASE NoScript
  BY <1>11, <1>s DEF NoScript, disk, run, story, faults
<1>12. CASE UnlinkScript
  BY <1>12, <1>o, <1>t DEF UnlinkScript, Open, disk, run, story, faults
<1>13. CASE NextLine
  BY <1>13, StartFacts, <1>t DEF NextLine, RunOrder, run
<1>14. CASE CommandEnds
  <2>1. ret_val = 0 /\ pc = "cmd" /\ started[tmp[line]] > 0
    BY <1>14 DEF CommandEnds, RunOrder
  <2>2. \A c \in passed' : started'[c] > 0
    BY <1>14, EndFacts, <2>1 DEF RunOrder
  <2>3. ASSUME ret_val' = 0, NEW j \in DOMAIN tmp, j < line' PROVE tmp[j] \in passed'
    <3>1. j < line \/ j = line
      BY <1>14, EndFacts, <1>t, <2>3
    <3>2. passed' = passed \cup {tmp[line]}
      BY <1>14, EndFacts, <2>3
    <3> QED BY <3>1, <3>2, <2>1, <2>3 DEF RunOrder
  <2> QED BY <1>14, EndFacts, <2>2, <2>3 DEF RunOrder
<1>15. CASE ScriptEnds
  <2>1. pc' \in {"find", "after", "gui"}
    BY <1>15 DEF ScriptEnds, TypeInv, Counters
  <2> QED BY <1>15, <2>1, <1>s DEF ScriptEnds, story
<1>16. CASE ActionEnds
  BY <1>16, <1>s DEF ActionEnds, TwReboot, NoMessage, disk, run, story, faults
<1>17. CASE Reboots
  BY <1>17, <1>s DEF Reboots, Restart, disk, run, story, faults
<1>18. CASE CliCommand
  <2>1. PICK c \in Cli : tmp' = Append(tmp, c)
    BY <1>18, Zenon DEF CliCommand
  <2>2. tmp' \in Seq(Commands)
    BY <2>1, <1>t, CliType
  <2> QED BY <1>18, <2>2, <1>o DEF CliCommand, Open, story
<1>19. CASE UserReboots
  BY <1>19, <1>s DEF UserReboots, TwReboot, NoMessage, disk, run, story, faults
<1>20. CASE UserEntersRecovery
  BY <1>20, <1>s DEF UserEntersRecovery, disk, run, story, faults
<1>21. CASE ProcessCrash
  BY <1>21, <1>s DEF ProcessCrash, Restart, disk, run, story, faults
<1>22. CASE PowerLoss
  BY <1>22, <1>s DEF PowerLoss, Restart, disk, run, story, faults
<1>23. CASE UNCHANGED vars
  BY <1>23 DEF RunOrder, vars, run, story
<1> QED BY <1>1, <1>2, <1>3, <1>4, <1>5, <1>6, <1>7, <1>8, <1>9, <1>10, <1>11, <1>12, <1>13,
     <1>14, <1>15, <1>16, <1>17, <1>18, <1>19, <1>20, <1>21, <1>22, <1>23 DEF Next, Device,
     Main, Script, User, Fault

\* The step of the argument: before a command is started the one in front of it has
\* passed, hence was started, hence all those in front of that one have passed.
LEMMA OrderOfStart ==
  ASSUME TypeInv, RunOrder, NextLine, NEW l \in Seq(Commands), WellOrdered(tmp, l), OrderOf(l),
         NEW i \in DOMAIN l, NEW j \in DOMAIN l, i < j, started'[l[j]] > 0
  PROVE  l[i] \in passed
<1>1. i \in Nat /\ j \in Nat /\ l[j] \in Commands
  OBVIOUS
<1>2. CASE l[j] # tmp[line]
  BY <1>1, <1>2, StartFacts DEF OrderOf
<1>3. CASE l[j] = tmp[line]
  <2>1. line \in DOMAIN tmp /\ line > 1 /\ tmp[line - 1] = l[j - 1]
    BY <1>1, <1>3, StartFacts DEF WellOrdered
  <2>2. line \in Nat /\ line - 1 \in DOMAIN tmp /\ j - 1 \in DOMAIN l
    BY <2>1, <1>1 DEF TypeInv, ListInv
  <2>3. l[j - 1] \in passed
    BY <2>1, <2>2, StartFacts DEF RunOrder, NextLine
  <2>4. CASE i = j - 1
    BY <2>3, <2>4
  <2>5. CASE i < j - 1
    BY <2>2, <2>3, <2>5 DEF OrderOf, RunOrder
  <2> QED BY <1>1, <2>4, <2>5
<1> QED BY <1>2, <1>3

LEMMA OrderOfStep ==
  TypeInv /\ ScriptOrder /\ RunOrder /\ OrderOf(asked) /\ OrderOf(script) /\ [Next]_vars
    => (OrderOf(asked) /\ OrderOf(script))'
<1> SUFFICES ASSUME TypeInv, ScriptOrder, RunOrder, OrderOf(asked), OrderOf(script), [Next]_vars
             PROVE  OrderOf(asked)' /\ OrderOf(script)'
  OBVIOUS
<1>h. asked' = asked /\ script' = script
  BY ListsStay
<1>a. asked \in Seq(Commands) /\ script \in Seq(Commands)
  BY ListsOf DEF TypeInv
<1>s. CASE started' = started /\ passed \subseteq passed'
  BY <1>s, <1>h DEF OrderOf
<1>1. CASE Boot
  BY <1>1, <1>s DEF Boot, story
<1>2. CASE GetArgs
  BY <1>2, <1>s DEF GetArgs, story
<1>3. CASE Insert_ORS_Command
  BY <1>3, <1>s DEF Insert_ORS_Command, story
<1>4. CASE ArgsEnd
  BY <1>4, <1>s DEF ArgsEnd, story
<1>5. CASE Decrypt
  BY <1>5, <1>s DEF Decrypt, story
<1>6. CASE ClearMessage
  BY <1>6, <1>s DEF ClearMessage, story
<1>7. CASE ClearCommandFile
  BY <1>7, <1>s DEF ClearCommandFile, story
<1>8. CASE Decide
  BY <1>8, <1>s DEF Decide, story
<1>9. CASE RecoveryCommands
  BY <1>9, <1>s DEF RecoveryCommands, story
<1>10. CASE CopyScript
  BY <1>10, <1>s DEF CopyScript, story
<1>11. CASE NoScript
  BY <1>11, <1>s DEF NoScript, story
<1>12. CASE UnlinkScript
  BY <1>12, <1>s DEF UnlinkScript, story
<1>13. CASE NextLine
  <2>1. passed' = passed
    BY <1>13 DEF NextLine
  <2>2. WellOrdered(tmp, asked) /\ WellOrdered(tmp, script)
    BY DEF ScriptOrder
  <2>3. \A i, j \in DOMAIN asked : (i < j /\ started'[asked[j]] > 0) => asked[i] \in passed
    BY <1>13, <1>a, <2>2, OrderOfStart
  <2>4. \A i, j \in DOMAIN script : (i < j /\ started'[script[j]] > 0) => script[i] \in passed
    BY <1>13, <1>a, <2>2, OrderOfStart
  <2> QED BY <2>1, <2>3, <2>4, <1>h DEF OrderOf
<1>14. CASE CommandEnds
  BY <1>14, <1>s, EndFacts
<1>15. CASE ScriptEnds
  BY <1>15, <1>s DEF ScriptEnds, story
<1>16. CASE ActionEnds
  BY <1>16, <1>s DEF ActionEnds, story
<1>17. CASE Reboots
  BY <1>17, <1>s DEF Reboots, story
<1>18. CASE CliCommand
  BY <1>18, <1>s DEF CliCommand, story
<1>19. CASE UserReboots
  BY <1>19, <1>s DEF UserReboots, story
<1>20. CASE UserEntersRecovery
  BY <1>20, <1>s DEF UserEntersRecovery, story
<1>21. CASE ProcessCrash
  BY <1>21, <1>s DEF ProcessCrash, story
<1>22. CASE PowerLoss
  BY <1>22, <1>s DEF PowerLoss, story
<1>23. CASE UNCHANGED vars
  BY <1>23, <1>s DEF vars, story
<1> QED BY <1>1, <1>2, <1>3, <1>4, <1>5, <1>6, <1>7, <1>8, <1>9, <1>10, <1>11, <1>12, <1>13,
     <1>14, <1>15, <1>16, <1>17, <1>18, <1>19, <1>20, <1>21, <1>22, <1>23 DEF Next, Device,
     Main, Script, User, Fault

OrderInv == TypeInv /\ ScriptOrder /\ RunOrder /\ OrderOf(asked) /\ OrderOf(script)

LEMMA OrderInvInit == Init => OrderInv
<1> SUFFICES ASSUME Init PROVE OrderInv
  OBVIOUS
<1>1. TypeInv
  BY TypeInvInit
<1>2. ScriptOrder
  BY EmptyOrdered DEF Init, ScriptOrder
<1>3. RunOrder
  BY DEF Init, RunOrder
<1>4. \A c \in Commands : ~(started[c] > 0)
  BY DEF Init
<1>5. asked \in Seq(Commands) /\ script \in Seq(Commands)
  BY <1>1, ListsOf DEF TypeInv
<1>6. OrderOf(asked) /\ OrderOf(script)
  BY <1>4, <1>5 DEF OrderOf
<1> QED BY <1>1, <1>2, <1>3, <1>6 DEF OrderInv

LEMMA OrderInvStep == OrderInv /\ [Next]_vars => OrderInv'
  BY TypeInvStep, ScriptOrderStep, RunOrderStep, OrderOfStep DEF OrderInv

LEMMA OrderInvImplies == OrderInv => OrderKept
<1> SUFFICES ASSUME OrderInv PROVE OrderKept
  OBVIOUS
<1>1. \A l \in {asked, script} : OrderOf(l)
  BY Zenon DEF OrderInv
<1> QED BY <1>1, Zenon DEF OrderKept, OrderOf

\* A command of the message, the command file or the OpenRecoveryScript is started only when
\* all those in front of it in its list have succeeded, or have ended where the code ignores a
\* failure (a wipe, a mount), through any number of crashes of
\* recovery, whose half converted or half run script is extended and run again, of power
\* losses, failed writes and commands of the user.
THEOREM StartedInOrder == Spec => []OrderKept
  BY OrderInvInit, OrderInvStep, OrderInvImplies, PTL DEF Spec

-----------------------------------------------------------------------------
(* Commands of the system are started once                                 *)

Fresh == \A i \in DOMAIN asked : started[asked[i]] = 0
Once  == \A i \in DOMAIN asked : started[asked[i]] <= 1

BeforeClear == {"off", "android", "start", "insert", "decrypt", "message"}
Converting  == {"insert", "decrypt", "message", "file", "decide", "scripts"}
Resting     == {"off", "android", "start", "find", "after", "gui"}
Running     == {"line", "cmd"}

\* A message or a command file is there only before the first command is started.
MessageInv ==
  /\ bcb.args # Empty \/ cmdfile # Empty => Fresh
  /\ pc \notin BeforeClear => bcb.args = Empty
  /\ pc \notin BeforeClear \cup {"file"} => cmdfile = Empty

BeginOfAsked == Len(tmp) <= Len(asked) /\ \A j \in DOMAIN tmp : tmp[j] = asked[j]
NotOfAsked   == \A j \in DOMAIN tmp, i \in DOMAIN asked : tmp[j] # asked[i]

\* The script holds a beginning of the list, of which nothing was started when the script was
\* made, and only what is in front of the current line since; later it holds nothing of the list.
ScriptInv ==
  /\ pc \in Resting => tmp = Empty
  /\ pc \in Converting =>
       /\ BeginOfAsked
       /\ tmp # Empty \/ args # Empty => Fresh
       /\ args # Empty => Len(tmp) + Len(args) = Len(asked)
  /\ pc = "unlink" \/ (pc \in Running /\ stage # "aosp") => NotOfAsked
  /\ pc \in Running /\ stage = "aosp" =>
       /\ BeginOfAsked
       /\ \A i \in DOMAIN asked : i > line \/ (i = line /\ pc = "line") => started[asked[i]] = 0

OnceInv == ~excused => MessageInv /\ ScriptInv /\ Once

LEMMA ExcusedStays == [Next]_vars /\ ~excused' => ~excused
  BY Zenon DEF Next, Device, Main, Script, User, Fault, vars, faults, Boot, GetArgs,
       Insert_ORS_Command, ArgsEnd, Decrypt, ClearMessage, ClearCommandFile, Decide,
       RecoveryCommands, CopyScript, NoScript, UnlinkScript, NextLine, CommandEnds, ScriptEnds,
       ActionEnds, Reboots, CliCommand, UserReboots, UserEntersRecovery, ProcessCrash, PowerLoss

LEMMA MessageInvStep ==
  ASSUME TypeInv, MessageInv, [Next]_vars, ~excused'
  PROVE  MessageInv'
<1>h. asked' = asked
  BY ListsStay
<1>p. pc \in PC
  BY DEF TypeInv, Counters
<1>m. NoMessage.args = Empty
  BY NothingAsked
<1>s. CASE /\ started' = started
           /\ pc' \in BeforeClear \/ bcb'.args = Empty
           /\ pc' \in BeforeClear \cup {"file"} \/ cmdfile' = Empty
           /\ bcb'.args \in {bcb.args, cmdfile, Empty} /\ cmdfile' \in {cmdfile, Empty}
  BY <1>s, <1>h DEF MessageInv, Fresh
<1>1. CASE Boot
  BY <1>1, <1>s, <1>m DEF Boot, disk, run, story, faults, MessageInv, BeforeClear
<1>2. CASE GetArgs
  <2>1. PICK readable, writable, got :
           /\ readable \in BOOLEAN /\ writable \in BOOLEAN
           /\ got = IF readable /\ bcb.args # Empty THEN bcb.args ELSE cmdfile
           /\ bcb' = IF writable THEN [boot |-> TRUE, args |-> got] ELSE bcb
    BY <1>2, Zenon DEF GetArgs
  <2>2. bcb'.args \in {bcb.args, cmdfile}
    BY <2>1, MessageOf, Zenon
  <2>3. pc' = "insert" /\ cmdfile' = cmdfile /\ started' = started /\ pc = "start"
    BY <1>2 DEF GetArgs, story
  <2> QED BY <2>2, <2>3, <1>s DEF BeforeClear
<1>3. CASE Insert_ORS_Command
  BY <1>3, <1>s, <1>m DEF Insert_ORS_Command, disk, run, story, faults, MessageInv, BeforeClear
<1>4. CASE ArgsEnd
  BY <1>4, <1>s, <1>m DEF ArgsEnd, disk, run, story, faults, MessageInv, BeforeClear
<1>5. CASE Decrypt
  BY <1>5, <1>s, <1>m DEF Decrypt, disk, run, story, faults, MessageInv, BeforeClear
<1>6. CASE ClearMessage
  <2>1. bcb' = NoMessage
    BY <1>6, Zenon DEF ClearMessage
  <2> QED BY <1>6, <2>1, <1>m, <1>h DEF ClearMessage, MessageInv, BeforeClear, Fresh, story
<1>7. CASE ClearCommandFile
  <2>1. cmdfile' = Empty
    BY <1>7, Zenon DEF ClearCommandFile, TypeInv, Kept
  <2>2. bcb' = bcb /\ bcb.args = Empty
    BY <1>7 DEF ClearCommandFile, MessageInv, BeforeClear
  <2> QED BY <1>7, <2>1, <2>2, <1>h DEF ClearCommandFile, MessageInv, BeforeClear
<1>8. CASE Decide
  BY <1>8, <1>s, <1>m DEF Decide, disk, run, story, faults, MessageInv, BeforeClear
<1>9. CASE RecoveryCommands
  BY <1>9, <1>s, <1>m DEF RecoveryCommands, Open, disk, run, story, faults, MessageInv, BeforeClear
<1>10. CASE CopyScript
  BY <1>10, <1>s, <1>m DEF CopyScript, disk, run, story, faults, MessageInv, BeforeClear
<1>11. CASE NoScript
  BY <1>11, <1>s, <1>m DEF NoScript, disk, run, story, faults, MessageInv, BeforeClear
<1>12. CASE UnlinkScript
  BY <1>12, <1>s, <1>m DEF UnlinkScript, Open, disk, run, story, faults, MessageInv, BeforeClear
<1>13. CASE NextLine
  <2>1. bcb' = bcb /\ cmdfile' = cmdfile /\ pc' = "cmd" /\ pc = "line"
    BY <1>13 DEF NextLine, disk
  <2> QED BY <2>1 DEF MessageInv, BeforeClear
<1>14. CASE CommandEnds
  <2>1. /\ bcb' = NoMessage \/ bcb' = bcb
        /\ cmdfile' \in {cmdfile, Empty}
    BY <1>14, RebootFacts, WipeFacts, Zenon DEF CommandEnds, disk
  <2>2. pc = "cmd" /\ pc' = "line"
    BY <1>14 DEF CommandEnds
  <2> QED BY <2>1, <2>2, <1>m DEF MessageInv, BeforeClear
<1>15. CASE ScriptEnds
  <2>1. pc' \in {"find", "after", "gui"}
    BY <1>15 DEF ScriptEnds, TypeInv, Counters
  <2> QED BY <1>15, <2>1, <1>s DEF ScriptEnds, disk, story, MessageInv, BeforeClear
<1>16. CASE ActionEnds
  BY <1>16, <1>s, <1>m DEF ActionEnds, TwReboot, disk, run, story, faults, MessageInv, BeforeClear
<1>17. CASE Reboots
  BY <1>17, <1>s, <1>m DEF Reboots, Restart, disk, run, story, faults, MessageInv, BeforeClear
<1>18. CASE CliCommand
  BY <1>18, <1>s, <1>m DEF CliCommand, Open, disk, run, story, faults, MessageInv, BeforeClear
<1>19. CASE UserReboots
  BY <1>19, <1>s, <1>m DEF UserReboots, TwReboot, disk, run, story, faults, MessageInv, BeforeClear
<1>20. CASE UserEntersRecovery
  BY <1>20, <1>s, <1>m DEF UserEntersRecovery, disk, run, story, faults, MessageInv, BeforeClear
<1>21. CASE ProcessCrash
  BY <1>21, Zenon DEF ProcessCrash
<1>22. CASE PowerLoss
  BY <1>22, <1>s, <1>m DEF PowerLoss, Restart, disk, run, story, faults, MessageInv, BeforeClear
<1>23. CASE UNCHANGED vars
  BY <1>23, <1>h DEF MessageInv, Fresh, vars, disk, story
<1> QED BY <1>1, <1>2, <1>3, <1>4, <1>5, <1>6, <1>7, <1>8, <1>9, <1>10, <1>11, <1>12, <1>13,
     <1>14, <1>15, <1>16, <1>17, <1>18, <1>19, <1>20, <1>21, <1>22, <1>23 DEF Next, Device,
     Main, Script, User, Fault

LEMMA OnceStep ==
  ASSUME TypeInv, ScriptInv, Once, [Next]_vars
  PROVE  Once'
<1>h. asked' = asked
  BY ListsStay
<1>a. asked \in Seq(Commands) /\ asked \in Lists \cup {Empty} /\ tmp \in Seq(Commands)
  BY ListsOf DEF TypeInv, ListInv
<1>s. CASE started' = started
  BY <1>s, <1>h DEF Once
<1>1. CASE Boot
  BY <1>1, <1>s DEF Boot, story
<1>2. CASE GetArgs
  BY <1>2, <1>s DEF GetArgs, story
<1>3. CASE Insert_ORS_Command
  BY <1>3, <1>s DEF Insert_ORS_Command, story
<1>4. CASE ArgsEnd
  BY <1>4, <1>s DEF ArgsEnd, story
<1>5. CASE Decrypt
  BY <1>5, <1>s DEF Decrypt, story
<1>6. CASE ClearMessage
  BY <1>6, <1>s DEF ClearMessage, story
<1>7. CASE ClearCommandFile
  BY <1>7, <1>s DEF ClearCommandFile, story
<1>8. CASE Decide
  BY <1>8, <1>s DEF Decide, story
<1>9. CASE RecoveryCommands
  BY <1>9, <1>s DEF RecoveryCommands, story
<1>10. CASE CopyScript
  BY <1>10, <1>s DEF CopyScript, story
<1>11. CASE NoScript
  BY <1>11, <1>s DEF NoScript, story
<1>12. CASE UnlinkScript
  BY <1>12, <1>s DEF UnlinkScript, story
<1>13. CASE NextLine
  <2>1. pc = "line" /\ line \in DOMAIN tmp
    BY <1>13, StartFacts DEF NextLine
  <2>2. CASE stage = "aosp"
    <3>1. line \in DOMAIN asked /\ tmp[line] = asked[line] /\ started[asked[line]] = 0
      BY <2>1, <2>2, <1>a DEF ScriptInv, Running, BeginOfAsked
    <3>2. started'[asked[line]] = 1
      BY <1>13, <3>1, StartFacts
    <3>3. ASSUME NEW i \in DOMAIN asked, i # line PROVE started'[asked[i]] = started[asked[i]]
      <4>1. asked[i] # asked[line] /\ asked[i] \in Commands
        BY <3>1, <3>3, <1>a, Injective
      <4> QED BY <1>13, <4>1, <3>1, StartFacts
    <3> QED BY <3>2, <3>3, <1>h DEF Once
  <2>3. CASE stage # "aosp"
    <3>1. \A i \in DOMAIN asked : asked[i] # tmp[line] /\ asked[i] \in Commands
      BY <2>1, <2>3, <1>a DEF ScriptInv, Running, NotOfAsked
    <3>2. \A i \in DOMAIN asked : started'[asked[i]] = started[asked[i]]
      BY <1>13, <3>1, StartFacts
    <3> QED BY <3>2, <1>h DEF Once
  <2> QED BY <2>2, <2>3
<1>14. CASE CommandEnds
  BY <1>14, <1>s, EndFacts
<1>15. CASE ScriptEnds
  BY <1>15, <1>s DEF ScriptEnds, story
<1>16. CASE ActionEnds
  BY <1>16, <1>s DEF ActionEnds, story
<1>17. CASE Reboots
  BY <1>17, <1>s DEF Reboots, story
<1>18. CASE CliCommand
  BY <1>18, <1>s DEF CliCommand, story
<1>19. CASE UserReboots
  BY <1>19, <1>s DEF UserReboots, story
<1>20. CASE UserEntersRecovery
  BY <1>20, <1>s DEF UserEntersRecovery, story
<1>21. CASE ProcessCrash
  BY <1>21, <1>s DEF ProcessCrash, story
<1>22. CASE PowerLoss
  BY <1>22, <1>s DEF PowerLoss, story
<1>23. CASE UNCHANGED vars
  BY <1>23, <1>s DEF vars, story
<1> QED BY <1>1, <1>2, <1>3, <1>4, <1>5, <1>6, <1>7, <1>8, <1>9, <1>10, <1>11, <1>12, <1>13,
     <1>14, <1>15, <1>16, <1>17, <1>18, <1>19, <1>20, <1>21, <1>22, <1>23 DEF Next, Device,
     Main, Script, User, Fault

LEMMA ScriptInvStep ==
  ASSUME TypeInv, MessageInv, ScriptInv, [Next]_vars, ~excused'
  PROVE  ScriptInv'
<1>h. asked' = asked /\ script' = script
  BY ListsStay
<1>a. /\ asked \in Seq(Commands) /\ script \in Seq(Commands) /\ Empty \in Seq(Commands)
      /\ asked \in Lists \cup {Empty} /\ script \in Lists \cup {Empty}
      /\ asked \in Args \cup {Empty} /\ script \in Scripts \cup {Empty}
  BY ListsOf DEF TypeInv
<1>t. /\ tmp \in Seq(Commands) /\ args \in Seq(Commands) /\ EndOf(args, asked)
      /\ pc # "insert" => args = Empty
      /\ Len(asked) \in Nat /\ Len(tmp) \in Nat /\ Len(args) \in Nat /\ line \in Nat \ {0}
  BY <1>a DEF TypeInv, ListInv
<1>e. Len(Empty) = 0 /\ DOMAIN Empty = {}
  BY DEF Empty
<1>r. CASE tmp' = Empty /\ pc' \in Resting
  BY <1>r DEF ScriptInv, Resting, Converting, Running
\* the conversion goes on with the same script
<1>c. CASE pc \in Converting /\ pc' \in Converting /\ UNCHANGED <<tmp, args, started>>
  BY <1>c, <1>h DEF ScriptInv, Resting, Converting, Running, BeginOfAsked, Fresh
<1>1. CASE Boot
  BY <1>1, <1>r DEF Resting, Boot, disk, run, story, faults, ScriptInv
<1>2. CASE GetArgs
  <2>1. args' \in {bcb.args, cmdfile}
    BY <1>2, Zenon DEF GetArgs
  <2>2. args' \in {asked, Empty}
    BY <2>1, Zenon DEF TypeInv, Kept
  <2>3. pc = "start" /\ pc' = "insert" /\ tmp' = tmp /\ started' = started
    BY <1>2 DEF GetArgs, story
  <2>4. tmp = Empty
    BY <2>3 DEF ScriptInv, Resting
  <2>5. args' # Empty => Fresh
    BY <2>1 DEF MessageInv
  <2>6. Fresh => Fresh'
    BY <2>3, <1>h DEF Fresh
  <2>7. Len(tmp') = 0 /\ BeginOfAsked'
    BY <2>3, <2>4, <1>e, <1>h, <1>t DEF BeginOfAsked
  <2>8. args' # Empty => Len(tmp') + Len(args') = Len(asked')
    BY <2>2, <2>7, <1>h, <1>t
  <2> QED BY <2>3, <2>4, <2>5, <2>6, <2>7, <2>8 DEF ScriptInv, Resting, Converting, Running
<1>3. CASE Insert_ORS_Command
  <2>0. pc = "insert" /\ pc' = "insert" /\ args # Empty /\ started' = started
    BY <1>3 DEF Insert_ORS_Command, story
  <2>1. BeginOfAsked /\ Fresh /\ Len(tmp) + Len(args) = Len(asked)
    BY <2>0 DEF ScriptInv, Converting
  <2>2. Fresh'
    BY <2>0, <2>1, <1>h DEF Fresh
  <2>3. CASE args' = Empty /\ tmp' = tmp
    <3>1. BeginOfAsked'
      BY <2>1, <2>3, <1>h DEF BeginOfAsked
    <3> QED BY <2>0, <2>2, <2>3, <3>1 DEF ScriptInv, Resting, Converting, Running
  <2>4. CASE tmp' = Append(tmp, Head(args)) /\ args' = Tail(args)
    <3>1. Len(args) \in Nat \ {0} /\ Head(args) = args[1] /\ Head(args) \in Commands
      BY <2>0, <1>t, Elements
    <3>2. Len(Tail(args)) = Len(args) - 1
      BY <2>0, <1>t DEF Empty
    <3>3. args[1] = asked[Len(tmp) + 1]
      BY <3>1, <2>1, <1>t DEF EndOf
    <3>4. Len(tmp') = Len(tmp) + 1 /\ (\A j \in DOMAIN tmp' : j \in DOMAIN tmp \/ j = Len(tmp) + 1)
          /\ tmp'[Len(tmp) + 1] = Head(args) /\ \A j \in DOMAIN tmp : tmp'[j] = tmp[j]
      BY <2>4, <3>1, <1>t
    <3>5. BeginOfAsked'
      BY <3>1, <3>3, <3>4, <2>1, <1>h, <1>t DEF BeginOfAsked
    <3>6. Len(tmp') + Len(args') = Len(asked')
      BY <3>1, <3>2, <3>4, <2>1, <2>4, <1>h, <1>t
    <3> QED BY <2>0, <2>2, <3>5, <3>6 DEF ScriptInv, Resting, Converting, Running
  <2> QED BY <1>3, <2>3, <2>4, Zenon DEF Insert_ORS_Command
<1>4. CASE ArgsEnd
  BY <1>4, <1>c DEF ArgsEnd, Converting, run, story
<1>5. CASE Decrypt
  BY <1>5, <1>c DEF Decrypt, Converting, run, story
<1>6. CASE ClearMessage
  BY <1>6, <1>c DEF ClearMessage, Converting, run, story
<1>7. CASE ClearCommandFile
  BY <1>7, <1>c DEF ClearCommandFile, Converting, run, story
<1>8. CASE Decide
  <2>1. pc = "decide" /\ UNCHANGED <<tmp, args, started>>
    BY <1>8 DEF Decide, story
  <2>2. CASE pc' = "scripts"
    BY <2>1, <2>2, <1>c DEF Converting
  <2>3. CASE pc' = "gui" /\ tmp = Empty
    BY <2>1, <2>3, <1>r DEF Resting
  <2> QED BY <1>8, <2>2, <2>3 DEF Decide
<1>9. CASE RecoveryCommands
  <2>1. /\ pc = "scripts" /\ tmp' = tmp /\ started' = started /\ stage' = "aosp" /\ line' = 1
        /\ pc' = IF tmp # Empty THEN "line" ELSE "find"
    BY <1>9 DEF RecoveryCommands, Open, story
  <2>2. CASE tmp = Empty
    BY <2>1, <2>2, <1>r DEF Resting
  <2>3. CASE tmp # Empty
    <3>1. BeginOfAsked /\ Fresh
      BY <2>1, <2>3 DEF ScriptInv, Converting
    <3>2. BeginOfAsked' /\ Fresh'
      BY <3>1, <2>1, <1>h DEF BeginOfAsked, Fresh
    <3> QED BY <2>1, <2>3, <3>2 DEF ScriptInv, Resting, Converting, Running, Fresh
  <2> QED BY <2>2, <2>3
<1>10. CASE CopyScript
  <2>1. pc = "find" /\ pc' = "unlink" /\ tmp = Empty
    BY <1>10 DEF CopyScript, ScriptInv, Resting
  <2>2. tmp' \in {script, Empty}
    BY <1>10, <2>1, Zenon DEF CopyScript, TypeInv, Kept
  <2>3. NotOfAsked'
    BY <2>2, <1>h, <1>a, <1>e, Disjoint DEF NotOfAsked
  <2> QED BY <2>1, <2>3 DEF ScriptInv, Resting, Converting, Running
<1>11. CASE NoScript
  BY <1>11, <1>r DEF Resting, NoScript, disk, run, story, faults, ScriptInv
<1>12. CASE UnlinkScript
  <2>1. /\ pc = "unlink" /\ tmp' = tmp /\ stage' = "ors"
        /\ pc' = IF tmp # Empty THEN "line" ELSE "after"
    BY <1>12 DEF UnlinkScript, Open
  <2>2. CASE tmp = Empty
    BY <2>1, <2>2, <1>r DEF Resting
  <2>3. CASE tmp # Empty
    <3>1. NotOfAsked'
      BY <2>1, <1>h DEF ScriptInv, NotOfAsked
    <3> QED BY <2>1, <2>3, <3>1 DEF ScriptInv, Resting, Converting, Running
  <2> QED BY <2>2, <2>3
<1>13. CASE NextLine
  <2>1. pc = "line" /\ pc' = "cmd" /\ tmp' = tmp /\ stage' = stage /\ line' = line /\ line \in DOMAIN tmp
    BY <1>13, StartFacts DEF NextLine, run
  <2>2. CASE stage = "aosp"
    <3>1. BeginOfAsked' /\ line \in DOMAIN asked /\ tmp[line] = asked[line]
      BY <2>1, <2>2, <1>h, <1>a, <1>t DEF ScriptInv, Running, BeginOfAsked
    <3>2. ASSUME NEW i \in DOMAIN asked, i > line PROVE started'[asked[i]] = 0
      <4>1. asked[i] # tmp[line] /\ asked[i] \in Commands
        BY <3>1, <3>2, <1>a, <1>t, Injective
      <4>2. started[asked[i]] = 0
        BY <2>1, <2>2, <3>2 DEF ScriptInv, Running
      <4> QED BY <1>13, <4>1, <4>2, StartFacts
    <3> QED BY <2>1, <2>2, <3>1, <3>2, <1>h, <1>t DEF ScriptInv, Resting, Converting, Running
  <2>3. CASE stage # "aosp"
    BY <2>1, <2>3, <1>h DEF ScriptInv, Resting, Converting, Running, NotOfAsked
  <2> QED BY <2>2, <2>3
<1>14. CASE CommandEnds
  <2>1. /\ pc = "cmd" /\ pc' = "line" /\ tmp' = tmp /\ stage' = stage /\ line' = line + 1
        /\ started' = started
    BY <1>14, EndFacts DEF CommandEnds
  <2>2. CASE stage = "aosp"
    <3>1. BeginOfAsked'
      BY <2>1, <2>2, <1>h DEF ScriptInv, Running, BeginOfAsked
    <3>2. ASSUME NEW i \in DOMAIN asked, i >= line + 1 PROVE started'[asked[i]] = 0
      BY <2>1, <2>2, <3>2, <1>a, <1>t DEF ScriptInv, Running
    <3> QED BY <2>1, <2>2, <3>1, <3>2, <1>h, <1>a, <1>t DEF ScriptInv, Resting, Converting, Running
  <2>3. CASE stage # "aosp"
    BY <2>1, <2>3, <1>h DEF ScriptInv, Resting, Converting, Running, NotOfAsked
  <2> QED BY <2>2, <2>3
<1>15. CASE ScriptEnds
  <2>1. pc' \in {"find", "after", "gui"}
    BY <1>15 DEF ScriptEnds, TypeInv, Counters
  <2> QED BY <1>15, <2>1, <1>r DEF ScriptEnds, Resting
<1>16. CASE ActionEnds
  BY <1>16, <1>r DEF Resting, ActionEnds, TwReboot, disk, run, story, faults, ScriptInv
<1>17. CASE Reboots
  BY <1>17, <1>r DEF Resting, Reboots, Restart, disk, run, story, faults, ScriptInv
<1>18. CASE CliCommand
  <2>1. PICK c \in Cli : tmp' = Append(tmp, c)
    BY <1>18, Zenon DEF CliCommand
  <2>2. tmp = Empty
    BY <1>18 DEF CliCommand, ScriptInv, Resting
  <2>3. \A j \in DOMAIN tmp' : tmp'[j] = c
    BY <2>1, <2>2 DEF Empty
  <2>4. NotOfAsked'
    BY <2>3, <1>a, <1>h, NotCli DEF NotOfAsked
  <2>5. stage' = "cli" /\ (pc' = "line" \/ (pc' = "gui" /\ tmp' = Empty))
    BY <1>18 DEF CliCommand, Open
  <2> QED BY <2>4, <2>5 DEF ScriptInv, Resting, Converting, Running
<1>19. CASE UserReboots
  BY <1>19, <1>r DEF Resting, UserReboots, TwReboot, disk, run, story, faults, ScriptInv
<1>20. CASE UserEntersRecovery
  BY <1>20, <1>r DEF Resting, UserEntersRecovery, disk, run, story, faults, ScriptInv
<1>21. CASE ProcessCrash
  BY <1>21, Zenon DEF ProcessCrash
<1>22. CASE PowerLoss
  BY <1>22, <1>r DEF Resting, PowerLoss, Restart, disk, run, story, faults, ScriptInv
<1>23. CASE UNCHANGED vars
  BY <1>23, <1>h DEF ScriptInv, BeginOfAsked, NotOfAsked, Fresh, vars, run, story
<1> QED BY <1>1, <1>2, <1>3, <1>4, <1>5, <1>6, <1>7, <1>8, <1>9, <1>10, <1>11, <1>12, <1>13,
     <1>14, <1>15, <1>16, <1>17, <1>18, <1>19, <1>20, <1>21, <1>22, <1>23 DEF Next, Device,
     Main, Script, User, Fault

LEMMA OnceInvInit == Init => OnceInv
<1> SUFFICES ASSUME Init PROVE OnceInv
  OBVIOUS
<1>1. TypeInv
  BY TypeInvInit
<1>2. asked \in Seq(Commands)
  BY <1>1, ListsOf DEF TypeInv
<1>3. Fresh
  BY <1>2 DEF Init, Fresh
<1>4. MessageInv
  BY <1>3 DEF Init, MessageInv, BeforeClear
<1>5. ScriptInv
  BY DEF Init, ScriptInv, Resting, Converting, Running
<1>6. Once
  BY <1>3 DEF Fresh, Once
<1> QED BY <1>4, <1>5, <1>6 DEF OnceInv

LEMMA OnceInvStep == TypeInv /\ OnceInv /\ [Next]_vars => OnceInv'
<1> SUFFICES ASSUME TypeInv, OnceInv, [Next]_vars, ~excused'
             PROVE  MessageInv' /\ ScriptInv' /\ Once'
  BY Zenon DEF OnceInv
<1>1. MessageInv /\ ScriptInv /\ Once
  BY ExcusedStays, Zenon DEF OnceInv
<1> QED BY <1>1, MessageInvStep, ScriptInvStep, OnceStep, Zenon

LEMMA OnceInvImplies == OnceInv => AtMostOnce
  BY Zenon DEF OnceInv, Once, AtMostOnce

\* Unless the recovery process crashes or the message cannot be cleared, no command of the
\* message or the command file is started twice, through any number of power losses, failed
\* reads and writes, reboots a script asks for before its end, and visits of the user.
THEOREM StartedOnce == Spec => []AtMostOnce
  BY TypeInvInit, TypeInvStep, OnceInvInit, OnceInvStep, OnceInvImplies, PTL DEF Spec

=============================================================================
