--------------------------- MODULE ModeSwitchProofs ---------------------------
(***************************************************************************)
(* The safety invariants of ModeSwitch hold for any number of processes,   *)
(* of commands and of looks, whether prompters are started by hand or not. *)
(***************************************************************************)
EXTENDS ModeSwitch, TLAPS

\* A pid that was a prompter's, and will not be again.
Past == {"gone", "mine", "other"}

\* The owner of the name is a prompter.
OwnerRuns == owner # None => proc[owner] \in Prompter

\* The owner that a command saw is still the owner, or it is gone for ever; and it was of
\* the kind that the command took it for, if that was a kind that it knows.
WhoItSaw(c) ==
  /\ cmd[c].who # None => owner = cmd[c].who \/ proc[cmd[c].who] \in Past
  /\ cmd[c].seen # "none" => cmd[c].who # None
  /\ cmd[c].seen \in {"custom", "system"} =>
       proc[cmd[c].who] \in {cmd[c].seen} \union Past

\* Only at these points is a command that saw a prompter of the other kind sure that this
\* one is gone.
SureItLeft(c) ==
  /\ cmd[c].pc \in {"after", "after_pid"} \/ cmd[c].result = 0 =>
       (IsUnwanted(c) => owner # cmd[c].who)
  /\ cmd[c].pc \in {"ask_pid", "classify", "wait"} => cmd[c].who # None
  /\ cmd[c].pc = "wait" => IsUnwanted(c)
  /\ cmd[c].pc \in {"idle", "look", "ask_pid", "classify"} => cmd[c].seen = "none"
  /\ cmd[c].result # None => cmd[c].pc = "ended"

\* A signalled process was a prompter that was recognized, or its pid is now that of a
\* program of the same user.
SignalledWasKnown == \A p \in signalled : proc[p] \in {"custom", "system", "mine"}

IInv ==
  /\ TypeOK
  /\ OwnerRuns
  /\ \A c \in Cmd : WhoItSaw(c) /\ SureItLeft(c)
  /\ SignalledWasKnown

-------------------------------------------------------------------------------
(***************************************************************************)
(* Steps of the world.                                                     *)
(***************************************************************************)
\* A process is what it was, or it starts, or it is no prompter any more: what the commands
\* know of it stands.
LEMMA WorldStep ==
  ASSUME IInv,
         file' = file, kept' = kept, loaded' \in File, cmd' = cmd,
         proc' \in [Pid -> Process], owner' \in Pid \union {None}, signalled' \subseteq signalled,
         \A p \in Pid : \/ proc'[p] = proc[p]
                        \/ proc[p] = "unused" /\ proc'[p] \in Prompter
                        \/ proc[p] \notin {"unused"} /\ proc'[p] \in Past /\ owner' # p
                             /\ p \notin signalled',
         owner' \in {owner, None} \/ (owner = None /\ proc[owner'] \in Prompter),
         owner' # None => proc'[owner'] \in Prompter,
         owner # None /\ owner' # owner => proc'[owner] \in Past
  PROVE  IInv'
<1>1. TypeOK'
  BY DEF IInv, TypeOK
<1>2. OwnerRuns'
  BY DEF OwnerRuns
<1>3. \A c \in Cmd : WhoItSaw(c)' /\ SureItLeft(c)'
  <2> SUFFICES ASSUME NEW c \in Cmd PROVE WhoItSaw(c)' /\ SureItLeft(c)'
    OBVIOUS
  <2> DEFINE w == cmd[c].who
  <2>1. cmd'[c] = cmd[c] /\ cmd[c] \in Command
    BY DEF IInv, TypeOK
  <2>2. w # None => w \in Pid /\ proc[w] # "unused"
    BY <2>1 DEF IInv, TypeOK, Command, WhoItSaw, OwnerRuns, Prompter, Past
  <2>3. w # None /\ proc[w] \in Past => owner' # w /\ proc'[w] \in Past
    BY <2>2 DEF IInv, OwnerRuns, Prompter, Past
  <2>4. w # None /\ owner = w => owner' = w \/ proc'[w] \in Past
    BY <2>2
  <2>5. w # None /\ owner # w => owner' # w
    BY <2>3 DEF IInv, WhoItSaw
  <2>6. WhoItSaw(c)'
    BY <2>1, <2>2, <2>3, <2>4 DEF IInv, WhoItSaw, Past
  <2>7. SureItLeft(c)'
    BY <2>1, <2>5 DEF IInv, SureItLeft, WhoItSaw, IsUnwanted, Unwanted
  <2>8. QED
    BY <2>6, <2>7
<1>4. SignalledWasKnown'
  BY DEF IInv, TypeOK, SignalledWasKnown
<1>5. QED
  BY <1>1, <1>2, <1>3, <1>4 DEF IInv

\* A new process.
LEMMA StartsStep ==
  ASSUME IInv, NEW p \in Pid, NEW kind \in Prompter, Starts(p, kind)
  PROVE  IInv'
<1>1. /\ proc[p] = "unused" /\ proc' = [proc EXCEPT ![p] = kind]
      /\ UNCHANGED <<file, kept, cmd, loaded, owner, signalled>>
  BY DEF Starts, busVars
<1>2. owner # p
  BY <1>1, NoneIsFresh DEF IInv, OwnerRuns, Prompter
<1>3. QED
  BY <1>1, <1>2, WorldStep DEF IInv, TypeOK, OwnerRuns, Process

\* The end of a process, or of the program that has its pid.
LEMMA EndsStep ==
  ASSUME IInv, NEW p \in Pid, NEW what \in Past, proc[p] # "unused", Ends(p, what)
  PROVE  IInv'
<1>1. /\ proc' = [proc EXCEPT ![p] = what] /\ signalled' = signalled \ {p}
      /\ owner' = IF owner = p THEN None ELSE owner
      /\ UNCHANGED <<file, kept, cmd, loaded>>
  BY DEF Ends, busVars
<1>2. owner' # p
  BY <1>1, NoneIsFresh
<1>3. QED
  BY <1>1, <1>2, WorldStep DEF IInv, TypeOK, OwnerRuns, Process, Past

LEMMA WorldKeepsInv ==
  ASSUME IInv, World
  PROVE  IInv'
<1>1. CASE BusNotices
  BY <1>1, WorldStep DEF BusNotices, busVars, IInv, TypeOK, OwnerRuns
<1>2. ASSUME NEW p \in Pid, Request(p) \/ StartedByHand(p) PROVE IInv'
  <2>1. PICK kind \in Prompter : Starts(p, kind)
    BY <1>2 DEF Request, StartedByHand, Activated, Prompter, File, IInv, TypeOK
  <2>2. QED
    BY <2>1, StartsStep
<1>3. ASSUME NEW p \in Pid, Owns(p) PROVE IInv'
  <2>1. CASE owner = None /\ owner' = p /\ UNCHANGED <<busVars, loaded, proc, signalled>>
    BY <1>3, <2>1, WorldStep DEF Owns, busVars, IInv, TypeOK
  <2>2. CASE Ends(p, "gone")
    BY <1>3, <2>2, EndsStep DEF Owns, Past, Prompter
  <2>3. QED
    BY <1>3, <2>1, <2>2 DEF Owns
<1>4. ASSUME NEW p \in Pid, Exits(p) PROVE IInv'
  BY <1>4, EndsStep DEF Exits, Past, Prompter
<1>5. ASSUME NEW p \in Pid, Recycled(p) PROVE IInv'
  BY <1>5, EndsStep DEF Recycled, Past
<1>6. QED
  BY <1>1, <1>2, <1>3, <1>4, <1>5 DEF World

-------------------------------------------------------------------------------
(***************************************************************************)
(* Steps of a command: u is what it becomes.                               *)
(***************************************************************************)
LEMMA CommandStep ==
  ASSUME IInv, NEW c \in Cmd, NEW u \in Command, cmd' = [cmd EXCEPT ![c] = u],
         UNCHANGED <<proc, owner>>,
         kept' \subseteq Cmd,
         file' \in File, loaded' \in File,
         signalled' = signalled \/
           (\E p \in Pid : /\ signalled' = signalled \union {p}
                          /\ proc[p] \in {"custom", "system", "mine"}),
         WhoItSaw(c)', SureItLeft(c)'
  PROVE  IInv'
<1>1. TypeOK'
  BY DEF IInv, TypeOK
<1>2. OwnerRuns' /\ SignalledWasKnown'
  BY DEF IInv, OwnerRuns, SignalledWasKnown
<1>3. \A d \in Cmd \ {c} : cmd'[d] = cmd[d]
  BY DEF IInv, TypeOK
<1>4. \A d \in Cmd \ {c} : WhoItSaw(d)' /\ SureItLeft(d)'
  BY <1>3 DEF IInv, WhoItSaw, SureItLeft, IsUnwanted, Unwanted
<1>5. QED
  BY <1>1, <1>2, <1>4 DEF IInv

\* A command that fails forgets what it saw.
LEMMA FailStep ==
  ASSUME IInv, NEW c \in Cmd, Fail(c), UNCHANGED <<proc, owner, signalled>>,
         kept' \subseteq Cmd,
         file' \in File, loaded' \in File
  PROVE  IInv'
<1> DEFINE u == [Unstarted EXCEPT !.pc = "ended", !.mode = cmd[c].mode, !.result = 1]
<1>1. cmd[c].mode \in {"enable", "disable"}
  BY DEF IInv, TypeOK, Command
<1>2. /\ u \in Command /\ u.pc = "ended" /\ u.who = None /\ u.seen = "none" /\ u.result = 1
      /\ u.mode = cmd[c].mode
  <2>1. 0 \in 0..Tries
    BY TriesIsPositive
  <2>2. QED
    BY <1>1, <2>1 DEF Unstarted, Command
<1>3. cmd' = [cmd EXCEPT ![c] = u] /\ cmd'[c] = u
  BY DEF Fail, Becomes, IInv, TypeOK
<1> HIDE DEF u
<1>4. WhoItSaw(c)' /\ SureItLeft(c)'
  BY <1>2, <1>3 DEF WhoItSaw, SureItLeft, IsUnwanted, Unwanted
<1>5. QED
  BY <1>2, <1>3, <1>4, CommandStep

\* A command at its next point p; what it saw stays.
LEMMA GotoStep ==
  ASSUME IInv, NEW c \in Cmd, cmd[c].result = None,
         NEW p \in {"change", "classify", "write", "remove", "reload", "signal", "wait",
                    "after", "after_pid"},
         Goto(c, p), UNCHANGED <<proc, owner>>,
         kept' \subseteq Cmd,
         file' \in File, loaded' \in File,
         signalled' = signalled \/
           (\E q \in Pid : /\ signalled' = signalled \union {q}
                          /\ proc[q] \in {"custom", "system", "mine"}),
         p \in {"after", "after_pid"} => (IsUnwanted(c) => owner # cmd[c].who),
         p = "classify" => cmd[c].seen = "none" /\ cmd[c].who # None,
         p = "wait" => IsUnwanted(c)
  PROVE  IInv'
<1> DEFINE u == [cmd[c] EXCEPT !.pc = p]
<1>1. cmd[c] \in Command
  BY DEF IInv, TypeOK
<1>2. /\ u \in Command /\ u.pc = p /\ u.who = cmd[c].who /\ u.seen = cmd[c].seen
      /\ u.result = None /\ u.mode = cmd[c].mode
  BY <1>1 DEF Command
<1>3. cmd' = [cmd EXCEPT ![c] = u] /\ cmd'[c] = u
  BY DEF Goto, Becomes, IInv, TypeOK
<1> HIDE DEF u
<1>4. IsUnwanted(c) => cmd[c].who # None
  BY DEF IInv, WhoItSaw, IsUnwanted, Unwanted
<1>5. IsUnwanted(c)' <=> IsUnwanted(c)
  BY <1>2, <1>3 DEF IsUnwanted, Unwanted
<1>6. WhoItSaw(c)'
  BY <1>2, <1>3 DEF IInv, WhoItSaw
<1>7. SureItLeft(c)'
  BY <1>2, <1>3, <1>4, <1>5, NoneIsFresh DEF SureItLeft
<1>8. QED
  BY <1>2, <1>3, <1>6, <1>7, CommandStep

\* A command that succeeds.
LEMMA SucceedStep ==
  ASSUME IInv, NEW c \in Cmd, cmd[c].pc \in {"after", "after_pid"}, Succeed(c),
         UNCHANGED worldVars
  PROVE  IInv'
<1> DEFINE u == [cmd[c] EXCEPT !.pc = "ended", !.result = 0]
<1>1. cmd[c] \in Command
  BY DEF IInv, TypeOK
<1>2. /\ u \in Command /\ u.pc = "ended" /\ u.who = cmd[c].who /\ u.seen = cmd[c].seen
      /\ u.mode = cmd[c].mode
  BY <1>1 DEF Command
<1>3. cmd' = [cmd EXCEPT ![c] = u] /\ cmd'[c] = u
  BY DEF Succeed, Becomes, IInv, TypeOK
<1> HIDE DEF u
<1>4. WhoItSaw(c)' /\ SureItLeft(c)'
  BY <1>2, <1>3 DEF IInv, WhoItSaw, SureItLeft, IsUnwanted, Unwanted, worldVars
<1>5. QED
  BY <1>2, <1>3, <1>4, CommandStep DEF IInv, TypeOK, worldVars

\* What an action leaves alone keeps its type.
LEMMA WorldTyped ==
  ASSUME IInv
  PROVE  /\ UNCHANGED file => file' \in File
         /\ UNCHANGED loaded => loaded' \in File
         /\ UNCHANGED kept => kept' \subseteq Cmd
BY DEF IInv, TypeOK

\* A command that has not ended has no result.
LEMMA NoResultYet ==
  ASSUME IInv, NEW c \in Cmd, cmd[c].pc # "ended"
  PROVE  cmd[c].result = None
BY DEF IInv, SureItLeft

-------------------------------------------------------------------------------
(***************************************************************************)
(* The actions of a command.                                               *)
(***************************************************************************)
LEMMA CallStep ==
  ASSUME IInv, NEW c \in Cmd, Call(c)
  PROVE  IInv'
<1>1. PICK m \in {"enable", "disable"} :
        cmd[c].pc = "idle" /\ Becomes(c, [cmd[c] EXCEPT !.pc = "look", !.mode = m])
          /\ UNCHANGED worldVars
  BY DEF Call
<1> DEFINE u == [cmd[c] EXCEPT !.pc = "look", !.mode = m]
<1>2. cmd[c] \in Command /\ cmd[c].seen = "none" /\ cmd[c].result = None
  BY <1>1, NoResultYet DEF IInv, TypeOK, SureItLeft
<1>3. /\ u \in Command /\ u.pc = "look" /\ u.who = cmd[c].who /\ u.seen = "none"
      /\ u.result = None
  BY <1>2 DEF Command
<1>4. cmd' = [cmd EXCEPT ![c] = u] /\ cmd'[c] = u
  BY <1>1 DEF Becomes, IInv, TypeOK
<1> HIDE DEF u
<1>5. WhoItSaw(c)' /\ SureItLeft(c)'
  BY <1>1, <1>3, <1>4, NoneIsFresh
     DEF IInv, WhoItSaw, SureItLeft, IsUnwanted, Unwanted, worldVars
<1>6. QED
  BY <1>1, <1>3, <1>4, <1>5, WorldTyped, CommandStep DEF worldVars

LEMMA LookStep ==
  ASSUME IInv, NEW c \in Cmd, Look(c)
  PROVE  IInv'
<1>1. cmd[c].pc = "look" /\ cmd[c].result = None /\ UNCHANGED worldVars
  BY NoResultYet DEF Look
<1>2. CASE Goto(c, "change")
  BY <1>1, <1>2, WorldTyped, GotoStep DEF worldVars
<1>3. CASE owner # None /\ Becomes(c, [cmd[c] EXCEPT !.pc = "ask_pid", !.who = owner])
  <2> DEFINE u == [cmd[c] EXCEPT !.pc = "ask_pid", !.who = owner]
  <2>1. cmd[c] \in Command /\ owner \in Pid /\ cmd[c].seen = "none"
    BY <1>1, <1>3 DEF IInv, TypeOK, SureItLeft
  <2>2. /\ u \in Command /\ u.pc = "ask_pid" /\ u.who = owner /\ u.seen = "none"
        /\ u.result = None
    BY <1>1, <2>1 DEF Command
  <2>3. cmd' = [cmd EXCEPT ![c] = u] /\ cmd'[c] = u
    BY <1>3 DEF Becomes, IInv, TypeOK
  <2> HIDE DEF u
  <2>4. WhoItSaw(c)' /\ SureItLeft(c)'
    BY <1>1, <1>3, <2>2, <2>3, NoneIsFresh
       DEF WhoItSaw, SureItLeft, IsUnwanted, Unwanted, worldVars
  <2>5. QED
    BY <1>1, <2>2, <2>3, <2>4, WorldTyped, CommandStep DEF worldVars
<1>4. QED
  BY <1>2, <1>3 DEF Look

LEMMA AskPidStep ==
  ASSUME IInv, NEW c \in Cmd, AskPid(c)
  PROVE  IInv'
<1>1. /\ cmd[c].pc = "ask_pid" /\ cmd[c].result = None /\ UNCHANGED worldVars
      /\ cmd[c].seen = "none" /\ cmd[c].who # None
  BY NoResultYet DEF AskPid, IInv, SureItLeft
<1>2. CASE Goto(c, "classify")
  BY <1>1, <1>2, WorldTyped, GotoStep DEF worldVars
<1>3. CASE Fail(c)
  BY <1>1, <1>3, WorldTyped, FailStep DEF worldVars
<1>4. QED
  BY <1>2, <1>3 DEF AskPid

\* What the command line tells is true of the process, or the process is gone.
LEMMA ClassifyStep ==
  ASSUME IInv, NEW c \in Cmd, Classify(c)
  PROVE  IInv'
<1> DEFINE kind == proc[cmd[c].who]
           s == IF kind \in Prompter THEN kind ELSE "unknown"
           u == [cmd[c] EXCEPT !.pc = "change", !.seen = s]
<1>1. /\ cmd[c].pc = "classify" /\ cmd[c].result = None /\ UNCHANGED worldVars
      /\ cmd[c].who # None /\ cmd[c] \in Command /\ Becomes(c, u)
  BY NoResultYet DEF Classify, IInv, SureItLeft, TypeOK
<1>2. s \in Prompter /\ (s \in {"custom", "system"} => kind = s)
  BY DEF Prompter
<1> HIDE DEF s
<1>3. /\ u \in Command /\ u.pc = "change" /\ u.who = cmd[c].who /\ u.seen = s
      /\ u.result = None
  BY <1>1, <1>2 DEF Command
<1>4. cmd' = [cmd EXCEPT ![c] = u] /\ cmd'[c] = u
  BY <1>1 DEF Becomes, IInv, TypeOK
<1> HIDE DEF u
<1>5. WhoItSaw(c)'
  BY <1>1, <1>2, <1>3, <1>4 DEF IInv, WhoItSaw, worldVars
<1>6. SureItLeft(c)'
  BY <1>3, <1>4, NoneIsFresh DEF SureItLeft
<1>7. QED
  BY <1>1, <1>3, <1>4, <1>5, <1>6, WorldTyped, CommandStep DEF worldVars

\* The steps on the service file, and ReloadConfig.
LEMMA FileStep ==
  ASSUME IInv, NEW c \in Cmd,
         Enable(c) \/ Fill(c) \/ Disable(c) \/ Remove(c) \/ Reload(c)
  PROVE  IInv'
<1>1. /\ cmd[c].result = None /\ UNCHANGED <<proc, owner, signalled>>
      /\ file' \in File /\ loaded' \in File
      /\ kept' \subseteq Cmd
      /\ Fail(c) \/ \E p \in {"write", "reload", "remove", "signal"} : Goto(c, p)
  BY NoResultYet DEF Enable, Fill, Disable, Remove, Reload, Writes, SeesTo, File, IInv, TypeOK
<1>2. CASE Fail(c)
  BY <1>1, <1>2, FailStep
<1>3. ASSUME NEW p \in {"write", "reload", "remove", "signal"}, Goto(c, p) PROVE IInv'
  BY <1>1, <1>3, GotoStep
<1>4. QED
  BY <1>1, <1>2, <1>3

\* The pid that is signalled is that of the prompter that was seen, or of a program of the
\* same user that has it now.
LEMMA SignalStep ==
  ASSUME IInv, NEW c \in Cmd, Signal(c)
  PROVE  IInv'
<1>1. cmd[c].pc = "signal" /\ cmd[c].result = None /\ UNCHANGED <<file, kept, loaded, proc, owner>>
  BY NoResultYet DEF Signal
<1>2. CASE ~IsUnwanted(c) /\ Goto(c, "after") /\ UNCHANGED signalled
  BY <1>1, <1>2, WorldTyped, GotoStep
<1>3. CASE Fail(c) /\ UNCHANGED signalled
  BY <1>1, <1>3, WorldTyped, FailStep
<1>4. CASE /\ IsUnwanted(c) /\ SameUid(cmd[c].who)
           /\ Goto(c, "wait") /\ signalled' = signalled \union {cmd[c].who}
  <2>1. cmd[c].who \in Pid /\ proc[cmd[c].who] \in {"custom", "system", "mine"}
    <3>1. cmd[c].seen \in {"custom", "system"} /\ cmd[c] \in Command
      BY <1>4 DEF IsUnwanted, Unwanted, IInv, TypeOK
    <3>2. QED
      BY <1>4, <3>1 DEF IInv, WhoItSaw, SameUid, Prompter, Past, Command
  <2>2. QED
    BY <1>1, <1>4, <2>1, WorldTyped, GotoStep
<1>5. QED
  BY <1>2, <1>3, <1>4 DEF Signal

LEMMA WaitStep ==
  ASSUME IInv, NEW c \in Cmd, Wait(c)
  PROVE  IInv'
<1>1. cmd[c].pc = "wait" /\ cmd[c].result = None /\ UNCHANGED worldVars
  BY NoResultYet DEF Wait
<1>2. CASE Fail(c)
  BY <1>1, <1>2, WorldTyped, FailStep DEF worldVars
<1>3. CASE owner # cmd[c].who /\ Goto(c, "after")
  BY <1>1, <1>3, WorldTyped, GotoStep DEF worldVars
<1>4. CASE cmd[c].tries < Tries /\ Becomes(c, [cmd[c] EXCEPT !.tries = @ + 1])
  <2> DEFINE u == [cmd[c] EXCEPT !.tries = cmd[c].tries + 1]
  <2>1. cmd[c] \in Command /\ cmd[c].tries + 1 \in 0..Tries
    BY <1>4, TriesIsPositive DEF IInv, TypeOK, Command
  <2>2. /\ u \in Command /\ u.pc = "wait" /\ u.who = cmd[c].who /\ u.seen = cmd[c].seen
        /\ u.result = None /\ u.mode = cmd[c].mode
    BY <1>1, <2>1 DEF Command
  <2>3. cmd' = [cmd EXCEPT ![c] = u] /\ cmd'[c] = u
    BY <1>4 DEF Becomes, IInv, TypeOK
  <2> HIDE DEF u
  <2>4. WhoItSaw(c)' /\ SureItLeft(c)'
    BY <1>1, <2>2, <2>3, NoneIsFresh
       DEF IInv, WhoItSaw, SureItLeft, IsUnwanted, Unwanted, worldVars
  <2>5. QED
    BY <1>1, <2>2, <2>3, <2>4, WorldTyped, CommandStep DEF worldVars
<1>5. cmd[c].tries = Tries \/ cmd[c].tries < Tries
  BY TriesIsPositive DEF IInv, TypeOK, Command
<1>6. QED
  BY <1>2, <1>3, <1>4, <1>5 DEF Wait

LEMMA AfterStep ==
  ASSUME IInv, NEW c \in Cmd, After(c) \/ AfterPid(c)
  PROVE  IInv'
<1>1. /\ cmd[c].pc \in {"after", "after_pid"} /\ cmd[c].result = None /\ UNCHANGED worldVars
      /\ IsUnwanted(c) => owner # cmd[c].who
  BY NoResultYet DEF After, AfterPid, IInv, SureItLeft
<1>2. CASE Succeed(c)
  BY <1>1, <1>2, SucceedStep
<1>3. CASE Goto(c, "after_pid")
  BY <1>1, <1>3, WorldTyped, GotoStep DEF worldVars
<1>4. CASE Fail(c)
  BY <1>1, <1>4, WorldTyped, FailStep DEF worldVars
<1>5. QED
  BY <1>2, <1>3, <1>4 DEF After, AfterPid

LEMMA CallFailsStep ==
  ASSUME IInv, NEW c \in Cmd, CallFails(c)
  PROVE  IInv'
<1>1. /\ Fail(c) /\ UNCHANGED <<file, kept, proc, owner, signalled>>
      /\ file' \in File /\ loaded' \in File
      /\ kept' \subseteq Cmd
  BY DEF CallFails, IInv, TypeOK
<1>2. QED
  BY <1>1, FailStep

-------------------------------------------------------------------------------
(***************************************************************************)
(* The theorems.                                                           *)
(***************************************************************************)
LEMMA InitInv == Init => IInv
<1> SUFFICES ASSUME Init PROVE IInv
  OBVIOUS
<1>1. Unstarted \in Command
  <2>1. 0 \in 0..Tries
    BY TriesIsPositive
  <2>2. QED
    BY <2>1 DEF Unstarted, Command
<1>2. TypeOK
  BY <1>1 DEF Init, TypeOK, Process
<1>3. \A c \in Cmd : WhoItSaw(c) /\ SureItLeft(c)
  BY NoneIsFresh DEF Init, Unstarted, WhoItSaw, SureItLeft
<1>4. OwnerRuns /\ SignalledWasKnown
  BY DEF Init, OwnerRuns, SignalledWasKnown
<1>5. QED
  BY <1>2, <1>3, <1>4 DEF IInv

LEMMA StutterInv ==
  ASSUME IInv, UNCHANGED vars
  PROVE  IInv'
<1>1. TypeOK' /\ OwnerRuns' /\ SignalledWasKnown'
  BY DEF IInv, TypeOK, OwnerRuns, SignalledWasKnown, vars
<1>2. \A c \in Cmd : WhoItSaw(c)' /\ SureItLeft(c)'
  BY DEF IInv, WhoItSaw, SureItLeft, IsUnwanted, Unwanted, vars
<1>3. QED
  BY <1>1, <1>2 DEF IInv

LEMMA NextInv ==
  ASSUME IInv, Next
  PROVE  IInv'
<1>1. CASE World
  BY <1>1, WorldKeepsInv
<1>2. ASSUME NEW c \in Cmd, Call(c) \/ Runs(c) \/ CallFails(c) PROVE IInv'
  BY <1>2, CallStep, LookStep, AskPidStep, ClassifyStep, FileStep, SignalStep, WaitStep,
     AfterStep, CallFailsStep DEF Runs
<1>3. QED
  BY <1>1, <1>2 DEF Next

\* The inductive invariant holds in every state.
THEOREM ModeInvariant == Spec => []IInv
<1>1. IInv /\ [Next]_vars => IInv'
  BY NextInv, StutterInv
<1>2. QED
  BY <1>1, InitInv, PTL DEF Spec

\* The service file, the processes and the commands keep their types.
THEOREM ModeTypes == Spec => []TypeOK
<1>1. IInv => TypeOK
  BY DEF IInv
<1>2. QED
  BY <1>1, ModeInvariant, PTL

\* stop_owner_if_safe sends SIGTERM to no process of another user, and to no owner of the
\* name that it did not recognize, though it does so by a pid that it looked up before.
THEOREM NobodyElseIsSignalled == Spec => []SignalsAreSafe
<1>1. IInv => SignalsAreSafe
  BY DEF IInv, SignalledWasKnown, SignalsAreSafe
<1>2. QED
  BY <1>1, ModeInvariant, PTL

\* When `enable' or `disable' has succeeded, the prompter of the other kind that it found
\* does not have the name any more, and never has it again (wait_owner_change).
THEOREM TheOldOwnerIsGone == Spec => []OldOwnerGone
<1>1. IInv => OldOwnerGone
  BY DEF IInv, SureItLeft, OldOwnerGone
<1>2. QED
  BY <1>1, ModeInvariant, PTL
-------------------------------------------------------------------------------
(***************************************************************************)
(* What a command has done to the service file.                            *)
(***************************************************************************)
\* The points after the reload.
Reloaded(c) == cmd[c].pc \in {"signal", "wait", "after", "after_pid"} \/ cmd[c].result = 0

\* A command that is not overruled has seen to the file, and the file is what it wants; once
\* it has made the bus reload, the bus knows.
Settled(c) ==
  /\ cmd[c].pc = "remove" => Wanted(c) = "none"
  /\ cmd[c].pc = "write" => Wanted(c) = "ours"
  /\ c \in kept =>
      /\ cmd[c].pc \in {"reload", "signal", "wait", "after", "after_pid", "ended"}
      /\ file = Wanted(c)
      /\ Reloaded(c) => loaded = file

FileInv == \A c \in Cmd : Settled(c)

\* While the file is what it was, only a reload changes what the bus has read.
LEMMA SettledFrame ==
  ASSUME IInv, FileInv, NEW c \in Cmd, UNCHANGED <<file, kept>>, loaded' \in {loaded, file},
         NEW u, cmd' = [cmd EXCEPT ![c] = u], Settled(c)'
  PROVE  FileInv'
<1>1. \A d \in Cmd \ {c} : cmd'[d] = cmd[d]
  BY DEF IInv, TypeOK
<1>2. \A d \in Cmd \ {c} : Settled(d)'
  BY <1>1 DEF FileInv, Settled, Reloaded, Wanted
<1>3. QED
  BY <1>2 DEF FileInv

\* When a command writes another file, it alone is not overruled.
LEMMA WrittenFrame ==
  ASSUME IInv, FileInv, NEW c \in Cmd, UNCHANGED loaded,
         Writes(file') \/ SeesTo(c, file'),
         NEW u, cmd' = [cmd EXCEPT ![c] = u], Settled(c)'
  PROVE  FileInv'
<1>1. \A d \in Cmd \ {c} : cmd'[d] = cmd[d]
  BY DEF IInv, TypeOK
<1>2. \A d \in Cmd \ {c} : d \in kept' => d \in kept /\ file' = file
  BY DEF Writes, SeesTo
<1>3. \A d \in Cmd \ {c} : Settled(d)'
  BY <1>1, <1>2 DEF FileInv, Settled, Reloaded, Wanted
<1>4. QED
  BY <1>3 DEF FileInv

\* What becomes of a command that fails.
Failed(c) == [Unstarted EXCEPT !.pc = "ended", !.mode = cmd[c].mode, !.result = 1]

LEMMA FailedShape ==
  ASSUME IInv, NEW c \in Cmd, Fail(c)
  PROVE  /\ cmd' = [cmd EXCEPT ![c] = Failed(c)]
         /\ cmd'[c].pc = "ended" /\ cmd'[c].mode = cmd[c].mode /\ cmd'[c].result = 1
         /\ ~Reloaded(c)' /\ Wanted(c)' = Wanted(c)
<1>1. cmd' = [cmd EXCEPT ![c] = Failed(c)] /\ cmd'[c] = Failed(c)
  BY DEF Fail, Failed, Becomes, IInv, TypeOK
<1>2. /\ Failed(c).pc = "ended" /\ Failed(c).mode = cmd[c].mode /\ Failed(c).result = 1
  BY DEF Failed, Unstarted
<1>3. QED
  BY <1>1, <1>2 DEF Reloaded, Wanted

LEMMA GoneToShape ==
  ASSUME IInv, NEW c \in Cmd, NEW p, Goto(c, p)
  PROVE  /\ cmd' = [cmd EXCEPT ![c] = [cmd[c] EXCEPT !.pc = p]]
         /\ cmd'[c].pc = p /\ cmd'[c].result = cmd[c].result /\ Wanted(c)' = Wanted(c)
<1>1. cmd[c] \in Command
  BY DEF IInv, TypeOK
<1>2. cmd' = [cmd EXCEPT ![c] = [cmd[c] EXCEPT !.pc = p]] /\ cmd'[c] = [cmd[c] EXCEPT !.pc = p]
  BY DEF Goto, Becomes, IInv, TypeOK
<1>3. QED
  BY <1>1, <1>2 DEF Command, Wanted

\* A command fails and leaves the file alone.
LEMMA FailSettled ==
  ASSUME IInv, FileInv, NEW c \in Cmd, Fail(c), UNCHANGED <<file, kept>>,
         loaded' \in {loaded, file}, cmd[c].pc # "ended"
  PROVE  FileInv'
<1>1. Settled(c)'
  BY FailedShape DEF FileInv, Settled
<1>2. QED
  BY <1>1, FailedShape, SettledFrame

\* It goes on, and the file is what it was.
LEMMA GotoSettled ==
  ASSUME IInv, FileInv, NEW c \in Cmd, cmd[c].result = None,
         NEW p \in {"change", "classify", "signal", "wait", "after", "after_pid"}, Goto(c, p),
         UNCHANGED <<file, kept>>, loaded' \in {loaded, file},
         c \in kept => p \notin {"change", "classify"},
         loaded' = file \/ cmd[c].pc \in {"look", "ask_pid", "signal", "wait", "after"}
  PROVE  FileInv'
<1>1. Settled(c)'
  BY GoneToShape, NoneIsFresh DEF FileInv, Settled, Reloaded
<1>2. QED
  BY <1>1, GoneToShape, SettledFrame

\* Before a command has come to the file.
LEMMA LookingSettled ==
  ASSUME IInv, FileInv, NEW c \in Cmd, Call(c) \/ Look(c) \/ AskPid(c) \/ Classify(c)
  PROVE  FileInv'
<1>1. c \notin kept /\ UNCHANGED worldVars
  BY DEF Call, Look, AskPid, Classify, FileInv, Settled
<1>2. PICK u : cmd' = [cmd EXCEPT ![c] = u]
  BY DEF Call, Look, AskPid, Classify, Goto, Fail, Becomes
<1>3. cmd'[c].pc \notin {"remove", "write"}
  <2>1. cmd[c] \in Command /\ cmd \in [Cmd -> Command]
    BY DEF IInv, TypeOK
  <2>2. CASE Call(c)
    BY <2>1, <2>2 DEF Call, Becomes, Command
  <2>3. CASE Look(c)
    <3>1. CASE Goto(c, "change")
      BY <3>1, GoneToShape
    <3>2. CASE Becomes(c, [cmd[c] EXCEPT !.pc = "ask_pid", !.who = owner])
      BY <2>1, <3>2 DEF Becomes, Command
    <3>3. QED
      BY <2>3, <3>1, <3>2 DEF Look
  <2>4. CASE AskPid(c)
    BY <2>4, FailedShape, GoneToShape DEF AskPid
  <2>5. CASE Classify(c)
    BY <2>1, <2>5 DEF Classify, Becomes, Command
  <2>6. QED
    BY <2>2, <2>3, <2>4, <2>5
<1>4. Settled(c)'
  BY <1>1, <1>3 DEF Settled, worldVars
<1>5. QED
  BY <1>1, <1>2, <1>4, SettledFrame DEF worldVars

LEMMA WritingSettled ==
  ASSUME IInv, FileInv, NEW c \in Cmd,
         Enable(c) \/ Fill(c) \/ Disable(c) \/ Remove(c)
  PROVE  FileInv'
<1>1. /\ c \notin kept /\ UNCHANGED loaded /\ cmd[c].result = None
      /\ cmd[c].pc \in {"change", "write", "remove"}
  BY NoResultYet DEF Enable, Fill, Disable, Remove, FileInv, Settled
<1>2. CASE Fail(c) /\ Writes(file')
  <2>1. Settled(c)'
    BY <1>1, <1>2, FailedShape DEF Settled, Writes
  <2>2. QED
    BY <1>1, <1>2, <2>1, FailedShape, WrittenFrame
<1>3. CASE /\ Writes(file')
           /\ \/ Goto(c, "remove") /\ Wanted(c) = "none"
              \/ Goto(c, "write") /\ Wanted(c) = "ours"
  <2>1. Settled(c)'
    BY <1>1, <1>3, GoneToShape DEF Settled, Writes
  <2>2. QED
    BY <1>1, <1>3, <2>1, GoneToShape, WrittenFrame
<1>4. CASE Goto(c, "reload") /\ SeesTo(c, file') /\ file' = Wanted(c)
  <2>1. Settled(c)'
    BY <1>1, <1>4, GoneToShape, NoneIsFresh DEF Settled, Reloaded
  <2>2. QED
    BY <1>1, <1>4, <2>1, GoneToShape, WrittenFrame
<1>5. /\ cmd[c].pc = "remove" => Wanted(c) = "none"
      /\ cmd[c].pc = "write" => Wanted(c) = "ours"
      /\ cmd[c].mode = "enable" => Wanted(c) = "ours"
      /\ cmd[c].mode = "disable" => Wanted(c) = "none"
  BY DEF FileInv, Settled, Wanted
<1>6. Fail(c) /\ UNCHANGED <<file, kept>> => Fail(c) /\ Writes(file')
  BY DEF Writes
<1>7. QED
  BY <1>2, <1>3, <1>4, <1>5, <1>6 DEF Enable, Fill, Disable, Remove, Writes, SeesTo,
     File, IInv, TypeOK

LEMMA ReloadSettled ==
  ASSUME IInv, FileInv, NEW c \in Cmd, Reload(c)
  PROVE  FileInv'
<1>1. /\ cmd[c].result = None /\ Goto(c, "signal") /\ loaded' = file
      /\ UNCHANGED <<file, kept>>
  BY NoResultYet DEF Reload
<1>2. QED
  BY <1>1, GotoSettled

LEMMA SignalSettled ==
  ASSUME IInv, FileInv, NEW c \in Cmd, Signal(c)
  PROVE  FileInv'
<1>1. /\ cmd[c].result = None /\ cmd[c].pc = "signal" /\ UNCHANGED <<file, kept, loaded>>
      /\ Fail(c) \/ Goto(c, "after") \/ Goto(c, "wait")
  BY NoResultYet DEF Signal
<1>2. CASE Fail(c)
  BY <1>1, <1>2, FailSettled
<1>3. CASE Goto(c, "after") \/ Goto(c, "wait")
  BY <1>1, <1>3, GotoSettled
<1>4. QED
  BY <1>1, <1>2, <1>3

LEMMA WaitSettled ==
  ASSUME IInv, FileInv, NEW c \in Cmd, Wait(c)
  PROVE  FileInv'
<1>1. cmd[c].result = None /\ cmd[c].pc = "wait" /\ UNCHANGED <<file, kept, loaded>>
  BY NoResultYet DEF Wait, worldVars
<1>2. CASE Fail(c)
  BY <1>1, <1>2, FailSettled
<1>3. CASE Goto(c, "after")
  BY <1>1, <1>3, GotoSettled
<1>4. CASE Becomes(c, [cmd[c] EXCEPT !.tries = @ + 1])
  <2> DEFINE u == [cmd[c] EXCEPT !.tries = @ + 1]
  <2>1. cmd[c] \in Command
    BY DEF IInv, TypeOK
  <2>2. u.pc = "wait" /\ u.result = None /\ u.mode = cmd[c].mode
    BY <1>1, <2>1 DEF Command
  <2>3. cmd' = [cmd EXCEPT ![c] = u] /\ cmd'[c] = u
    BY <1>4 DEF Becomes, IInv, TypeOK
  <2> HIDE DEF u
  <2>4. Settled(c)'
    BY <1>1, <2>2, <2>3 DEF FileInv, Settled, Reloaded, Wanted
  <2>5. QED
    BY <1>1, <2>3, <2>4, SettledFrame
<1>5. QED
  BY <1>2, <1>3, <1>4 DEF Wait

LEMMA AfterSettled ==
  ASSUME IInv, FileInv, NEW c \in Cmd, After(c) \/ AfterPid(c)
  PROVE  FileInv'
<1>1. /\ cmd[c].result = None /\ cmd[c].pc \in {"after", "after_pid"}
      /\ UNCHANGED <<file, kept, loaded>>
  BY NoResultYet DEF After, AfterPid, worldVars
<1>2. CASE Fail(c)
  BY <1>1, <1>2, FailSettled
<1>3. CASE cmd[c].pc = "after" /\ Goto(c, "after_pid")
  BY <1>1, <1>3, GotoSettled
<1>4. CASE Succeed(c)
  <2> DEFINE u == [cmd[c] EXCEPT !.pc = "ended", !.result = 0]
  <2>1. cmd[c] \in Command
    BY DEF IInv, TypeOK
  <2>2. u.pc = "ended" /\ u.mode = cmd[c].mode
    BY <2>1 DEF Command
  <2>3. cmd' = [cmd EXCEPT ![c] = u] /\ cmd'[c] = u
    BY <1>4 DEF Succeed, Becomes, IInv, TypeOK
  <2> HIDE DEF u
  <2>4. Settled(c)'
    BY <1>1, <2>2, <2>3 DEF FileInv, Settled, Reloaded, Wanted
  <2>5. QED
    BY <1>1, <2>3, <2>4, SettledFrame
<1>5. QED
  BY <1>2, <1>3, <1>4 DEF After, AfterPid

LEMMA CallFailsSettled ==
  ASSUME IInv, FileInv, NEW c \in Cmd, CallFails(c)
  PROVE  FileInv'
<1>1. /\ Fail(c) /\ UNCHANGED <<file, kept>> /\ loaded' \in {loaded, file}
      /\ cmd[c].pc # "ended"
  BY DEF CallFails
<1>2. QED
  BY <1>1, FailSettled

\* The world does not touch the file; the bus may notice what is in it.
LEMMA WorldSettled ==
  ASSUME FileInv, (World \/ UNCHANGED vars)
  PROVE  FileInv'
<1>1. UNCHANGED <<file, kept, cmd>> /\ loaded' \in {loaded, file}
  BY DEF World, BusNotices, Request, StartedByHand, Owns, Exits, Recycled, Starts, Ends,
         busVars, vars
<1>2. QED
  BY <1>1 DEF FileInv, Settled, Reloaded, Wanted

LEMMA NextSettled ==
  ASSUME IInv, FileInv, [Next]_vars
  PROVE  FileInv'
BY WorldSettled, LookingSettled, WritingSettled, ReloadSettled, SignalSettled, WaitSettled,
   AfterSettled, CallFailsSettled DEF Next, Runs

\* When `enable' or `disable' succeeds, the service file is as it was asked to be and the bus
\* has read it, unless another command changed it in the meantime; also when an earlier
\* command had failed half way (write_enabled_service, disable_enabled_service, ReloadConfig).
THEOREM SuccessTakesEffect == Spec => TakesEffect
<1>1. Init => FileInv
  BY DEF Init, FileInv, Settled, Unstarted
<1>2. Spec => []FileInv
  BY <1>1, NextSettled, ModeInvariant, PTL DEF Spec
<1>3. FileInv' /\ [Next]_vars =>
        \A c \in Cmd : Succeeds(c) /\ c \in kept' => file' = Wanted(c)' /\ loaded' = file'
  <2> SUFFICES ASSUME FileInv', [Next]_vars, NEW c \in Cmd, Succeeds(c), c \in kept'
               PROVE  file' = Wanted(c)' /\ loaded' = file'
    OBVIOUS
  <2>1. Reloaded(c)' /\ Settled(c)'
    BY DEF Succeeds, Reloaded, FileInv
  <2>2. QED
    BY <2>1 DEF Settled
<1>4. QED
  BY <1>2, <1>3, PTL DEF Spec, TakesEffect
===============================================================================
