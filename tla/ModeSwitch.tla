------------------------------ MODULE ModeSwitch ------------------------------
(***************************************************************************)
(* gcr-tty-prompter-mode (mode.py): the commands `enable' and `disable'    *)
(* move the service file that overrides the system prompter, make the bus  *)
(* read its configuration again, and stop the prompter of the other kind.  *)
(*                                                                         *)
(* A command is a process of its own: others run between any two of its    *)
(* system calls.  An action is one call to the bus or one step on the      *)
(* files.  The bus activates a prompter whenever an application asks for   *)
(* one.  Every prompter connects to the bus once, so its process id stands *)
(* for its unique name as well.                                            *)
(***************************************************************************)
EXTENDS Integers

CONSTANTS
  Pid,      \* process ids, given out in increasing order
  Cmd,      \* runs of the command, at the same time or one after the other
  None,
  Tries,    \* how often wait_owner_change looks: 30
  ByHand    \* may the user start a prompter without the bus?

ASSUME PidsAreNumbers == Pid \subseteq Nat
ASSUME NoneIsFresh == None \notin Pid \union {0, 1}
ASSUME TriesIsPositive == Tries \in Nat \ {0}
ASSUME ByHandIsBoolean == ByHand \in BOOLEAN

VARIABLES
  file,      \* the service file
  loaded,    \* the one that the bus read last
  proc,      \* what runs under each pid
  owner,     \* the pid of the owner of the bus name, or None
  signalled, \* the processes that were sent SIGTERM
  cmd,       \* where each command is, and its local variables
  kept       \* history: the commands that have seen to the file, which no other changed since

vars == <<file, loaded, proc, owner, signalled, cmd, kept>>

(***************************************************************************)
(* The service file is ours, or foreign, or cut off: emptied, and not yet  *)
(* written.  is_our_service does not know such a file, and the bus skips   *)
(* it.                                                                     *)
(***************************************************************************)
File == {"none", "ours", "foreign", "cut"}

(***************************************************************************)
(* A pid is unused, or runs a prompter of some kind, or that is "gone".    *)
(* The kernel goes through all pids before it gives out one again: to a    *)
(* program that is no prompter, of this user ("mine") or of an "other".    *)
(***************************************************************************)
Prompter == {"custom", "system", "unknown"}
Process == Prompter \union {"unused", "gone", "mine", "other"}

(***************************************************************************)
(* who and seen are pid and kind of `before', seen = "none" if that is     *)
(* None; result is the exit status, once the command has ended: 1 stands   *)
(* for 130 as well, the status after Ctrl-C.                               *)
(***************************************************************************)
Command == [pc : {"idle", "look", "ask_pid", "classify", "change", "write", "remove",
                  "reload", "signal", "wait", "after", "after_pid", "ended"},
            mode : {"enable", "disable"}, who : Pid \union {None},
            seen : Prompter \union {"none"}, tries : 0..Tries, result : {None, 0, 1}]
Unstarted == [pc |-> "idle", mode |-> "enable", who |-> None, seen |-> "none",
              tries |-> 0, result |-> None]

TypeOK ==
  /\ file \in File /\ loaded \in File
  /\ proc \in [Pid -> Process]
  /\ owner \in Pid \union {None}
  /\ signalled \in SUBSET Pid
  /\ cmd \in [Cmd -> Command]
  /\ kept \in SUBSET Cmd

Init ==
  /\ file \in File /\ loaded = file
  /\ proc = [p \in Pid |-> "unused"]
  /\ owner = None
  /\ signalled = {}
  /\ cmd = [c \in Cmd |-> Unstarted]
  /\ kept = {}
-------------------------------------------------------------------------------
(***************************************************************************)
(* The bus, the applications, the user and the kernel.                     *)
(***************************************************************************)
busVars == <<file, cmd, kept>>

\* What the bus starts: without an override, the distribution's gcr-prompter.
Activated == CASE loaded \in {"none", "cut"} -> "system" [] loaded = "ours" -> "custom"
               [] loaded = "foreign" -> "unknown"

Starts(p, kind) ==
  /\ proc[p] = "unused" /\ \A q \in Pid : q < p => proc[q] # "unused"
  /\ proc' = [proc EXCEPT ![p] = kind]
  /\ UNCHANGED <<busVars, loaded, owner, signalled>>

\* An application asks for the name, which nobody has; the bus starts one process for it.
Request(p) ==
  /\ owner = None
  /\ \A q \in Pid : proc[q] \notin Prompter
  /\ Starts(p, Activated)

StartedByHand(p) == ByHand /\ \E kind \in {"custom", "unknown"} : Starts(p, kind)

Ends(p, what) ==
  /\ proc' = [proc EXCEPT ![p] = what]
  /\ signalled' = signalled \ {p}
  /\ owner' = IF owner = p THEN None ELSE owner
  /\ UNCHANGED <<busVars, loaded>>

\* A prompter requests the name; if it is taken, it exits.
Owns(p) ==
  /\ proc[p] \in Prompter /\ owner # p
  /\ IF owner = None
     THEN owner' = p /\ UNCHANGED <<busVars, loaded, proc, signalled>>
     ELSE Ends(p, "gone")

\* It exits by itself, or for the signal: nothing makes it.
Exits(p) == proc[p] \in Prompter /\ Ends(p, "gone")

Recycled(p) == proc[p] = "gone" /\ \E what \in {"mine", "other"} : Ends(p, what)

\* dbus-daemon also watches its directories of service files.
BusNotices == loaded' = file /\ UNCHANGED <<busVars, proc, owner, signalled>>
-------------------------------------------------------------------------------
(***************************************************************************)
(* The commands.                                                           *)
(***************************************************************************)
worldVars == <<file, loaded, proc, owner, signalled, kept>>

Becomes(c, new) == cmd' = [cmd EXCEPT ![c] = new]
Goto(c, p) == Becomes(c, [cmd[c] EXCEPT !.pc = p])
Succeed(c) == Becomes(c, [cmd[c] EXCEPT !.pc = "ended", !.result = 0])
Fail(c) == Becomes(c, [Unstarted EXCEPT !.pc = "ended", !.mode = cmd[c].mode, !.result = 1])

\* The program is called: main and amain.
Call(c) ==
  /\ cmd[c].pc = "idle"
  /\ \E m \in {"enable", "disable"} : Becomes(c, [cmd[c] EXCEPT !.pc = "look", !.mode = m])
  /\ UNCHANGED worldVars

\* owner_info: GetNameOwner,
Look(c) ==
  /\ cmd[c].pc = "look"
  /\ IF owner = None THEN Goto(c, "change")
     ELSE Becomes(c, [cmd[c] EXCEPT !.pc = "ask_pid", !.who = owner])
  /\ UNCHANGED worldVars

\* then GetConnectionUnixProcessID, which fails if the connection is gone,
AskPid(c) ==
  /\ cmd[c].pc = "ask_pid"
  /\ IF owner = cmd[c].who THEN Goto(c, "classify") ELSE Fail(c)
  /\ UNCHANGED worldVars

\* then classify_argv of /proc/<pid>/cmdline, which may be gone, or of somebody else.
Classify(c) ==
  /\ cmd[c].pc = "classify"
  /\ LET kind == proc[cmd[c].who]
     IN Becomes(c, [cmd[c] EXCEPT !.pc = "change",
                       !.seen = IF kind \in Prompter THEN kind ELSE "unknown"])
  /\ UNCHANGED worldVars

\* The file becomes new; the commands that had seen to another one are overruled.
Writes(new) == file' = new /\ kept' = IF new = file THEN kept ELSE {}

\* As c wants it.
SeesTo(c, new) == file' = new /\ kept' = {c} \union IF new = file THEN kept ELSE {}

\* write_enabled_service: unless the client is missing, write_text empties the file,
Enable(c) ==
  /\ cmd[c].pc = "change" /\ cmd[c].mode = "enable"
  /\ \/ Fail(c) /\ UNCHANGED <<file, kept>>
     \/ Goto(c, "write") /\ Writes("cut")
  /\ UNCHANGED <<loaded, proc, owner, signalled>>

\* and writes it, if it can; chmod fails if the file was unlinked meanwhile, and the copy
\* outside the activation path may fail.  (Had a third command made the file anew after that,
\* the text would go to the unlinked one: the model takes it for the new one.)
Fill(c) ==
  /\ cmd[c].pc = "write"
  /\ \/ Fail(c) /\ UNCHANGED <<file, kept>>
     \/ file # "none" /\ Fail(c) /\ Writes("ours")
     \/ file # "none" /\ Goto(c, "reload") /\ SeesTo(c, "ours")
  /\ UNCHANGED <<loaded, proc, owner, signalled>>

\* Mutant: disable returns at once when there is nothing to remove.
DisableNothing(c) ==
  /\ cmd[c].pc = "change" /\ cmd[c].mode = "disable"
  /\ CASE file = "none" -> Succeed(c) /\ SeesTo(c, "none")
       [] file \in {"foreign", "cut"} -> Fail(c) /\ Writes(file)
       [] file = "ours" -> (Goto(c, "remove") \/ Fail(c)) /\ Writes(file)
  /\ UNCHANGED <<loaded, proc, owner, signalled>>

\* disable_enabled_service: the file is looked at, and copied if it is ours,
Disable(c) ==
  /\ cmd[c].pc = "change" /\ cmd[c].mode = "disable"
  /\ CASE file = "none" -> Goto(c, "reload") /\ SeesTo(c, "none")
       [] file \in {"foreign", "cut"} -> Fail(c) /\ Writes(file)
       [] file = "ours" -> (Goto(c, "remove") \/ Fail(c)) /\ Writes(file)
  /\ UNCHANGED <<loaded, proc, owner, signalled>>

\* then unlinked, unless another command was faster.
Remove(c) ==
  /\ cmd[c].pc = "remove"
  /\ IF file = "none" THEN Fail(c) /\ Writes("none")
     ELSE Goto(c, "reload") /\ SeesTo(c, "none")
  /\ UNCHANGED <<loaded, proc, owner, signalled>>

Reload(c) ==
  /\ cmd[c].pc = "reload"
  /\ loaded' = file
  /\ Goto(c, "signal")
  /\ UNCHANGED <<file, kept, proc, owner, signalled>>

\* The kind of prompter that the command wants to be rid of: expected_kind.
Unwanted(c) == IF cmd[c].mode = "enable" THEN "system" ELSE "custom"

IsUnwanted(c) == cmd[c].seen = Unwanted(c)

\* Mutant: a process that is still there is signalled, whosever it is.
Running(p) == proc[p] \in Prompter \union {"mine", "other"}

\* process_uid is the user's: None, for a process that is gone, is not.
SameUid(p) == proc[p] \in Prompter \union {"mine"}

\* stop_owner_if_safe, with the pid and the kind of the first look.  The look at the uid and
\* the signal are one step: if the pid changes hands between them, the kernel keeps the
\* signal from a program of another user, and the command fails as it does here.
Signal(c) ==
  /\ cmd[c].pc = "signal"
  /\ \/ /\ ~IsUnwanted(c)
        /\ Goto(c, "after") /\ UNCHANGED signalled
     \/ /\ IsUnwanted(c) /\ ~SameUid(cmd[c].who)
        /\ Fail(c) /\ UNCHANGED signalled
     \/ /\ IsUnwanted(c) /\ SameUid(cmd[c].who)
        /\ Goto(c, "wait") /\ signalled' = signalled \union {cmd[c].who}
  /\ UNCHANGED <<file, kept, loaded, proc, owner>>

\* Mutant: the command goes on when the owner does not.
WaitAtMost(c) ==
  /\ cmd[c].pc = "wait"
  /\ IF owner # cmd[c].who \/ cmd[c].tries = Tries THEN Goto(c, "after")
     ELSE Becomes(c, [cmd[c] EXCEPT !.tries = @ + 1])
  /\ UNCHANGED worldVars

\* Mutant: one look too many.
WaitOnceMore(c) ==
  /\ cmd[c].pc = "wait"
  /\ CASE cmd[c].tries > Tries -> Fail(c)
       [] cmd[c].tries <= Tries /\ owner # cmd[c].who -> Goto(c, "after")
       [] OTHER -> Becomes(c, [cmd[c] EXCEPT !.tries = @ + 1])
  /\ UNCHANGED worldVars

\* Mutant: the command waits until the owner has gone.
WaitForever(c) ==
  /\ cmd[c].pc = "wait"
  /\ IF owner # cmd[c].who THEN Goto(c, "after") ELSE UNCHANGED cmd
  /\ UNCHANGED worldVars

\* wait_owner_change: one look every tenth of a second.
Wait(c) ==
  /\ cmd[c].pc = "wait"
  /\ CASE cmd[c].tries = Tries -> Fail(c)
       [] cmd[c].tries < Tries /\ owner # cmd[c].who -> Goto(c, "after")
       [] OTHER -> Becomes(c, [cmd[c] EXCEPT !.tries = @ + 1])
  /\ UNCHANGED worldVars

\* The owner is looked at once more, for the report: as before, in two calls.
After(c) ==
  /\ cmd[c].pc = "after"
  /\ IF owner = None THEN Succeed(c) ELSE Goto(c, "after_pid")
  /\ UNCHANGED worldVars

\* The second call fails if that owner, whoever it was, has gone since.
AfterPid(c) ==
  /\ cmd[c].pc = "after_pid"
  /\ Succeed(c) \/ Fail(c)
  /\ UNCHANGED worldVars

\* A call to the bus fails, or Ctrl-C interrupts it; the bus may have served it.
CallFails(c) ==
  /\ cmd[c].pc \in {"look", "ask_pid", "reload", "wait", "after", "after_pid"}
  /\ Fail(c)
  /\ \/ loaded' = loaded
     \/ cmd[c].pc = "reload" /\ loaded' = file
  /\ UNCHANGED <<file, kept, proc, owner, signalled>>
-------------------------------------------------------------------------------
Runs(c) ==
  \/ Look(c) \/ AskPid(c) \/ Classify(c) \/ Enable(c) \/ Fill(c) \/ Disable(c)
  \/ Remove(c) \/ Reload(c) \/ Signal(c) \/ Wait(c) \/ After(c) \/ AfterPid(c)

World == BusNotices \/ \E p \in Pid :
           Request(p) \/ StartedByHand(p) \/ Owns(p) \/ Exits(p) \/ Recycled(p)

Next == World \/ \E c \in Cmd : Call(c) \/ Runs(c) \/ CallFails(c)

Spec == Init /\ [][Next]_vars

\* Fairness: the bus answers, and a command is a running program.  Nothing is assumed of
\* a prompter that was sent SIGTERM.
Fairness == \A c \in Cmd : WF_vars(Runs(c))
FairSpec == Spec /\ Fairness
-------------------------------------------------------------------------------
(***************************************************************************)
(* Properties.                                                             *)
(***************************************************************************)
Succeeds(c) == cmd[c].result # 0 /\ cmd'[c].result = 0
Wanted(c) == IF cmd[c].mode = "enable" THEN "ours" ELSE "none"

\* A command that succeeds, also one that repeats a command which failed half way, leaves
\* the file as it was asked to and has brought the bus to it, unless another command
\* changed the file after it.
TakesEffect ==
  [][\A c \in Cmd : Succeeds(c) /\ c \in kept' => file' = Wanted(c)' /\ loaded' = file']_vars

\* Neither a process of another user is signalled, though the pid may have changed hands
\* since it was looked at, nor an owner of the name that was not recognized.
SignalsAreSafe ==
  \A p \in signalled : proc[p] # "other" /\ (owner = p => proc[p] # "unknown")

\* When a command that found a prompter of the other kind succeeds, that prompter does
\* not have the name, and it will not have it again.
OldOwnerGone ==
  \A c \in Cmd : cmd[c].result = 0 /\ IsUnwanted(c) => owner # cmd[c].who

\* Every command ends, though the owner may ignore SIGTERM.
CommandEnds == \A c \in Cmd : cmd[c].pc = "look" ~> cmd[c].pc = "ended"

\* When `disable' succeeds, the replacement client does not own the name: "The next request
\* for `org.gnome.keyring.SystemPrompter` can then activate the distribution's normal
\* `gcr-prompter`" (README.md:212).
DisableHandsOver ==
  [][\A c \in Cmd : Succeeds(c) /\ cmd[c].mode = "disable" /\ owner # None
       => proc[owner] # "custom"]_vars
===============================================================================
