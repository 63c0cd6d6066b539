# gcr-tty-prompter in TLA+

gcr-tty-prompter replaces GNOME's `gcr-prompter` by one that asks for passwords on a
terminal. This directory holds a formal model of it: modules that TLC model-checks on
small instances, and proofs that TLAPS checks for all instances. File and line numbers
refer to `src/`; without a directory, to `src/gcr_tty_prompter/`.

## The system

```
 application --D-Bus: Begin/Perform/StopPrompting-->  client.py  --Unix socket, one JSON--> server.py
 (gcr)       <--callbacks: PromptReady, PromptDone--  (SystemPrompter)  request per connection    | /dev/tty
                                                      begin/prompt/stop                         user
 mode.py: installs client.py as D-Bus service, stops the present owner of the bus name
 secret_service.py: gcr-keyring-lock/-unlock, a client of the Secret Service
```

| component | state it keeps | operations | what makes it correct |
|---|---|---|---|
| D-Bus client, `SystemPrompter` (`client.py`) | `sessions`, the deque `waiting`, `active_key`, a `PromptSession` each, one asyncio task per activation, prompt, stop | `_begin`, `_perform`, `_stop`, `_activate_next`, `_perform_async`, `_finish_session`, `_sender_vanished`, `close` | one prompter at a time, first come first served, no lost wake-up, each session finished once, nobody blocks the line for nothing, `PromptDone` is sent |
| TTY server, `PrompterServer` (`server.py`) | `sessions` with exchange, `last_used`, `prompt_task`; `ui_lock`; the modes of the terminal | `begin`, `prompt`, `stop`, detection of a closed connection, `reap_stale_sessions`, `close` | one prompt on the terminal, its modes restored on every way out, a withdrawn prompt disappears, passwords wiped, no orphans |
| line input, `TTY.read_secret` | byte buffer | keys, Backspace, Ctrl-U, Enter, Ctrl-C | returns what the user means |
| bridge protocol (`common.py`) | none | `bridge_rpc`, JSON lines | an outcome within the time limits, the connection closed on each |
| secret exchange (`secret_exchange.py`) | a libgcr object, open or closed | `begin`, `receive`, `send`, `close` | used while it is open |
| mode switch (`mode.py`) | the service file, the owner of the bus name, what the command saw of it | `enable`, `disable`, `status` | the configured mode and the owner agree in the end; nobody else is signalled |
| keyring commands (`secret_service.py`) | one call and its prompt | `run_prompt`, `change_lock_state` | the exit code tells the state of the collection |

Client and server are single-threaded asyncio loops. What is hard in them: handlers run
between the awaits of several tasks; what was checked before an await may be stale
after it; each RPC and callback can fail, be late, or be cancelled; either side may die.
The two kinds of commands are sequential, but what they look at (the bus, processes, a
collection) is changed by others between any two of their calls.
`PROJECT.json` lists the hazards line by line, with the properties that watch them.

## Modules

| module | what it is |
|---|---|
| `SystemPrompter` | the client: state, handlers and coroutines of `client.py`, properties |
| `PromptLine` | the abstract promise of the client: a line, first come first served |
| `PrompterServer` | the TTY server: handlers, prompts, reaper, shutdown |
| `BorrowedTerminal` | the abstract promise of the server: prompts borrow the terminal in order and give it back |
| `Bridge` | client and server together, over the socket: `bridge_rpc`, deaths and restarts |
| `TtyInput` | the editing of one password, byte by byte |
| `ModeSwitch` | `gcr-tty-prompter-mode`, with the bus and the processes that own the name |
| `KeyringCommand` | `gcr-keyring-lock` and `-unlock`, with the Secret Service |
| `MCSystemPrompter`, `MCPrompterServer`, `MCBridge`, `MCModeSwitch`, `MCKeyringCommand` | symmetry and the order of names for TLC; the constants are in the `.cfg` files |
| `SystemPrompterInv`, `PrompterServerInv` | the inductive invariants |
| `SystemPrompterProofs`, `SystemPrompterLineProofs`, `LineLemmas`, `PrompterServerProofs`, `BridgeProofs`, `ModeSwitchProofs`, `KeyringCommandProofs`, `TtyInputProofs` | the theorems and their proofs |

**Segments.** asyncio switches tasks only at an await. An action is therefore what one
task does between two awaits, or a part of it. In `SystemPrompter`, where
`_finish_session` calls `_activate_next` and is called by three coroutines, a segment may
be several actions: `running` names the task that is in the middle of one, and no other
task, handler or environment step may happen meanwhile. No code awaits while it holds
`state_lock`, so the lock is always free when it is asked for and is no variable.

asyncio itself (tasks, cancellation, `Lock`, the order of its callbacks) is a library: the few
operators that stand for it are marked external in the map of `PROJECT.json`. Operators
preceded by a "Mutant:" comment are plausible bugs, used to see that the properties notice.

**The client.** A slot of `Task` is an asyncio task with its program counter and local
variables (`task[x].pc`, `sess`, `key`, ...; the comment at `PC` says which await each value
is). `obj` holds the `PromptSession` objects by bridge token, so that a coroutine can hold
an object that is no longer in `sessions`, as in the code; keys and objects differ as soon
as an application begins again on a path (`Reuse`). The answer of a callback arrives
(`CallbackAnswers`) before the task that awaits it resumes (`ReadyResumes`,
`ReplyResumes`): messages read from the bus together with it are dispatched in between.
In this module the TTY server is an environment: an RPC returns or fails. Cancelling a
prompt's task ends it at its await (it re-raises `CancelledError` and does nothing else).
The client ends in three ways: the bus goes down (`Disconnect`), also while `close` runs;
Ctrl-C (`Interrupt`), by which `asyncio.run` cancels `amain` and `close` runs on a bus that is
still up; and SIGTERM or a second Ctrl-C (`Killed`), without the rest of `close`. After Ctrl-C
handlers go on accepting `BeginPrompting` during the awaits of `close`, outside its snapshot:
the history variable `late` holds the sessions made so. `Exit` is the end of `amain`; the tasks
that are left are cancelled by `asyncio.run`, which changes nothing any more.

**The line.** `ImplementsLine` maps `sessions`, `waiting`, `active_key` to the three variables
of `PromptLine`: who waits, in order; who is served; who is gone.

**The server.** Each connection has a handler (`conn`) and, for a `prompt` request, a
`ui_task` (`ui`) that waits for `ui_lock`, asks up to four questions and ends with an answer
or an exception. `tty`, `saved` and `holder` are the terminal, what `finally` will restore,
and the owner of the lock. `cancel` of a `ui_task` marks that `CancelledError` is its next
step. `stop`, the end of the connection, the reaper and the shutdown all race with the
user. The server ends after SIGINT (`Exit`), or where it is (`Killed`): then the prompt that has
the terminal may or may not restore it. `secret` is a ghost for the first password a prompt has read. The peers send what
`client.py` sends: one `begin` for a token, one `prompt` at a time, `stop` at any time
after, and they may hang up before any reply. A session ages (`stale`) instead of a clock.

**The terminal.** `LendsInOrder` maps the server to `BorrowedTerminal`: the prompts that wait
for `ui_lock` and are not cancelled are those that wait for the terminal (`InTurn`), their
places in `queue` are the order in which they asked (`Precedes`), `holder` is who has it.
Cancelling a prompt that waits withdraws it at once, though its task leaves the queue later.

**The bridge.** `Bridge` extends the client and has the server as an instance, its variables
prefixed by `tty_`. `rpc[x]` is the connection of the `bridge_rpc` that task `x` is in, and
its outcome. A step of either component is taken together with what it means for the
socket: the client connects in the segment that calls `bridge_rpc` (`Dial`) or fails to
(`DialFails`: nobody listens, or the two seconds pass), a reply or a
closed connection becomes the outcome (`ServerHandles`, `ServerRefuses`), a time limit or a
cancelled task closes the connection (`Timeout`, `CloseOrphan`). Either process may be
killed (`ClientDies`, `ServerDies`), and the server is started again with an empty memory;
`ServerRestarts` is also `prepare_socket`, which replaces the socket of a dead server. The end
of the bus and Ctrl-C at the client are in `SystemPrompter` only; of its own deaths `Bridge` has
`Killed`, which leaves the most behind in the server.

**The mode switch.** `file` is the service file in the user's directory, which `write_text` cuts
off for a moment, and for good if it fails (`Enable` empties it, `Fill` writes it); `loaded` is
what the bus has read of it, `proc` what each pid is, `owner` whose the bus name is. A command
is at one of its calls (`pc`); `who` and `seen` are the owner it looked up and the kind it took it
for. Between any two of its calls the bus may activate a prompter by what it has loaded, a
client may be started by hand, processes end, and pids are given to other programs, of the
same user or another. Every call may fail, and after a failed reload the bus has reread its
files or not. `kept` is a history variable: the commands that have seen to the
file (`SeesTo`) and were not overruled by one that changed it since (`Writes`).

**The keyring commands.** The Secret Service is external and does what its D-Bus interface
allows: it changes the property at once, or asks for a prompt, or does nothing; the user
completes the prompt, with or without effect, or dismisses it; `Completed` may come before
the reply to `Prompt()`, again with other arguments, or with a result that is no path list;
other applications change the property, and the service dies and is started again. `inbox`
is what a command has not read of its connection, in order; `heard` is the future of
`run_prompt`. `matched` is a history variable: the commands whose wish was fulfilled at some
moment after their request was served and their prompt over.

**The input.** A byte is its class (ASCII, lead, continuation, command). The user types keys
(`typed`), whose bytes are in the terminal (`pending`) until `_read_some` takes the first of
them (`chunk`); the loop of `read_secret` then handles one byte after the other and edits
`data`. `meant` is a history variable, the reference: the line edited key by key, each key
as the user means it (`Edit`), until the first Enter.

## Runs

| run | instance | what it shows |
|---|---|---|
| `client_safety` | 2 applications, 1 path, 3 sessions, amain's task and 2 others, paths may be used again; all ways to end, 1 session begun during `close`; symmetry | `SinglePrompter`, `WaitingLine`, `NoLostWakeup`, `NoStuckSession`, `ExitClean`, `DoneOnce`, the refinement `ImplementsLine`, `TypeOK` |
| `client_live` | 1 application, 2 paths, 2 sessions, amain's task and 2 others, no Ctrl-C | `EveryoneServed`, `BecomesReady`, `StopIsConfirmed` |
| `client_late_ready` | 1 application, 2 sessions on one path, 4 tasks | finding: violates `NoLateReady` |
| `server_safety` | 2 sessions, 3 connections, a new password with its repetition and a choice; symmetry | `TerminalModes`, `PromptIsTracked`, `ExchangeFollowsSession`, `PasswordWiped`, the refinement `LendsInOrder`, `DroppedOnlyWhenIdle`, `TypeOK` |
| `server_live` | 2 sessions, 2 connections, confirmation | `PromptWithdrawn`, `OrphansReaped`, `EveryPromptEnds`, `InterruptEnds` |
| `server_lifetime` | 1 session, 2 connections, all forms | finding: violates `KeptForLifetime` |
| `bridge` | 1 application on 1 path, 2 sessions, amain's task and 2 others, 2 connections, confirmation, 1 fault | `OneWantedPrompt`, `StopsOnlyTheFinished`, `SessionIsHeld`, `ServerMeetsItsPeer`, `NoQuestionLeft` |
| `mode_switch` | 2 commands, 2 pids, 2 looks at the owner, clients may be started by hand | `SignalsAreSafe`, `OldOwnerGone`, `TakesEffect`, `CommandEnds`, `TypeOK` |
| `mode_race` | 1 command, 2 pids, nobody starts a client by hand | finding: violates `DisableHandsOver` |
| `keyring` | 2 commands, a signal is repeated while nothing is unread | `ExitTellsTruth`, `OwnVerdict`, `CompletedEnds`, `TypeOK` |
| `tty_line` | 5 keys; characters of 1, 2 and 3 bytes | `ReturnsWholeCharacters`, `ReturnsOneKindAsMeant`, `TypeOK` |
| `tty_erase` | 4 keys; characters of 1 and 2 bytes | finding: violates `ReturnsWhatIsMeant` |

**Ways to end.** `client_safety` has the three ways in which the client ends, with bounds for the
time in which `close` runs after Ctrl-C (`ShortEnd`): one session at most begins, and no
application, the bus or the client goes away as well. The proofs are without these bounds. `client_live` leaves Ctrl-C out; it
has `close` after a disconnect. `ExitClean` says what `close` can promise: it finishes whatever
it found. It does not say that nothing is left, which is not so: a session that an application
began during the awaits of `close`, after Ctrl-C, may even have become active, and is left when
the process ends (its application then sees the name lose its owner).

**What `bridge` adds.** `SystemPrompter` takes the outcome of an RPC for granted, and
`PrompterServer` its peer: one `begin` for a token, one `prompt` at a time, `stop` at any
time after. `ServerMeetsItsPeer` says that each step of the server's variables in the
composition is a step of `PrompterServer`, so that what was checked of the server alone
holds with the real client; a restart starts it afresh. `StopsOnlyTheFinished` and
`SessionIsHeld` cannot be said of one side alone: what the server ends is what the client
has finished, also when a callback begins again while its first session is being stopped.
`OneWantedPrompt` is what the two locks come to: the client has one prompter (`active_key`), the
server one terminal (`ui_lock`), and prompts of finished sessions may still hold or await the
terminal; but of all prompts in the server one at most is still wanted, it is the prompter's,
and the task that sent it waits on its connection.
`NoQuestionLeft` needs no fairness of the client: even when it is killed, the kernel closes
its connections, and the server withdraws the question.

Deadlock is not checked: all these programs end, the tokens of an instance run out, and
an input that has returned does nothing more.

**Bounds.** Three sessions with a reused path give every pair of an old and a new session
of one key, with a third in the line. `Task` limits how many coroutines of the client are
under way; amain's and two others are the fewest with which two run against each other and
one against the shutdown, and the proofs hold for any number. A task slot that is not free
disables the handler that would need it: this only removes behaviours of bigger instances.
Three connections are a prompt on the terminal and two in the queue, or one and a `stop`
and a `begin`. A new password with a choice asks the most questions and is the only form
with two secrets; a confirmation, in the other runs, asks fewer of the same kind.

In `bridge` two connections are the two RPCs of a callback that begins again: one session
being stopped, the other begun or asking. `MaxFaults = 1` gives one death, disconnect,
time limit, interrupt of the server, failure of libgcr or hour of idleness at any point; the server may
then be started again, and what is left of the first session meets the second. `Essential`
leaves out steps that differ in nothing between the two programs: of the user's answers one
is enough there, `StopPrompting` without a session does nothing, and when nothing is left of
all sessions the next one starts as the first did.

Two pids with recycling are an owner and its successor, or a pid that is another's by the
time of `kill`; with two commands one can overrule the other before, between and after its
look at the file and its reload. `Tries` stands for the thirty looks of `wait_owner_change`: an
owner that leaves at the first look, at the last, or never. `MaxInbox = 1` repeats
`Completed` as often as the command reads it, and before it has read the reply to
`Prompt()`; the proofs hold for any bound. Five keys are a line of two characters, an erase,
another key and Enter, which is one more than the shortest error the checks know of.

Symmetry is used in safety runs only, since TLC's reduction is not sound for liveness.
There `InOrder` takes interchangeable names (a fresh token, a free task slot or connection,
a command that starts) in one order, which removes the same redundancy.

**Fairness.** Client: `TaskFairness` says that the event loop resumes every task whose await
is over, an RPC with a time limit ends, a callback is answered or fails, and the user
answers a prompt or the server goes away. The code cannot promise the last two: `bus.call`
has no time limit, and a prompt none either. It is strong because `running` disables other
tasks for the length of a segment, and the loop's queue is first in, first out. That the
application which has the prompt asks to stop at some time (`ActiveStops`) is a premise of
`EveryoneServed` alone. Server: weak fairness of the handlers, of prompts whose turn it is,
of the reaper and the passing of time; and a client that is done with a session closes its
connection, as cancelling `bridge_rpc` and the death of a process do (in `bridge` this is
`CloseOrphan`). A user who answers is a premise of `EveryPromptEnds` and `InterruptEnds`,
and of `InterruptEnds` that `wait_closed` returns when it can. `bridge`: the server's steps
for a connection and the kernel's closing, nothing of the client or the user. Mode switch:
the command is a running program whose calls return; nothing is assumed of a prompter that
was sent SIGTERM. Keyring: the service answers every call, the command reads and runs; the
user may leave a prompt alone for ever, hence `CompletedEnds` starts from a prompt that is
over.

## Findings

1. `client_late_ready` (client.py:363). After `begin` was answered the client asks whether the
   *key* is in `sessions`. If the application stopped and began again on the same path, it
   is, for another session: the old coroutine sends a late `PromptReady`, which the comment
   at client.py:360 rules out. Proved: nothing is late where no path is used again
   (`NewPathsAreNeverLate`), and the reply to a prompt never is (`RepliesAreNotLate`).
2. `server_lifetime` (server.py:428). The reaper ends sessions whose callback is still begun;
   README.md:403 says the exchange is kept for the callback's lifetime. Proved: it does so
   only after an hour without a request and without a prompt (`OnlyIdleSessionsAreDropped`).
3. `tty_erase` (server.py:86). Backspace over an ASCII character also removes a multi-byte
   character before it. Proved: it takes more than the last character in this case only,
   and then these two (`BackspaceErases`).
4. `mode_race` (mode.py:270). `disable` stops the owner that it saw before it removed the
   service file. A replacement client that the bus had activated before the look, and that
   takes the name after it, keeps the name though the command succeeds; README.md:211 says that the next request can activate the
   distribution's prompter.

Three more observations are no findings, as no document promises otherwise. A
`PerformPrompt` read from the bus together with the answer to `PromptReady` is refused as
"Already performing a prompt" (`PerformBusy`): the task that waits for the answer has not
run yet. With Python 3.11,
where `Server.wait_closed` does not wait for connections, `Exit` can leave the terminal raw
(`WaitsForConnections = FALSE`): `amain` closes it in the segment that cancels the prompts, before
they restore it. With later versions a second SIGINT can do the same (`Killed`), as `asyncio.run`
then cancels `amain` and the prompt in no fixed order. So no property says that an exit gives
the terminal back; `LendsInOrder` says it of every prompt that ends before the server does. And the first of two new passwords is not wiped when its
repetition is cancelled ("dropped" in the model; `PasswordWiped` does not count it).

## Proofs

TLAPS proves the safety of all six modules for all values of the constants: any numbers of
applications, paths, sessions, tasks, connections, faults, processes, commands and keys. The
only assumptions are the named ones beside the constants: `None` is none of the names, amain's
task is a task, pids are numbers, flags are Boolean, the form of a prompt is one the server
knows (`FormIsOfTheServer`, `ChoiceIsOfTheServer` in `Bridge`), and characters have one to four
bytes (`SizesAreUtf8`). No theorem of the server assumes anything of
`WaitsForConnections`. Each property is implied by an inductive
invariant `IInv`; the theorem `Spec => []IInv` rests on one lemma per action (`...Step`).

**Client** (`SystemPrompterProofs`, `SystemPrompterLineProofs`): `InvariantHolds`, and from it
`TypeCorrect`, `OnePrompterAtATime`, `LineHoldsWhoWaits`, `NoWakeupIsLost`,
`NobodyHoldsThePromptForNothing`, and the action properties
`DoneOnce` (`PromptDoneIsSentOnce`) and `ExitClean` (`CloseFinishesWhatItFound`); and the refinement of `PromptLine` (`ClientIsALine`). `NoLateReady`
is false (finding 1), and the two theorems named there say how far: the argument of
`NewPathsAreNeverLate` is that a path which is not used again has one session ever
(`OnePathOneSession`), so that the key the coroutine asks for is that of its own. None of the
safety properties is inductive. That the deque holds who waits needs that sessions and
their objects agree on the key (`KeysAgree`) and that a session in the dict which has not
had the prompt was not activated by anybody (`ActivatedOnce`). That a prompt belongs to the
active session needs that `prompt_task` names its task, or the one about to finish the
session in the same segment (`PromptTaskIsHers`). `DoneOnce` needs that a session being torn
down has left the dict and one task does it (`OneFinisher`, `DoneIsLast`); `ExitClean` that
what `close` has not finished is still ahead of it, or began after its snapshot (`ToBeSwept`); and all of them what the
program counter says of the local variables (`TaskShape`, `LoopHeld`).

Most actions change the record of one task and little else. `TaskStep` states once what such
a change must satisfy to preserve `IInv`; the lemmas establish it for each action. The
actions that change the dict or the line (`BeginAccepted`, `PerformAccepted`,
`ActivateFirst`, `FinishSession`, `Disconnect`, `Interrupt`, `Killed`, `Exit`) have proofs of their own, with one
step per conjunct. `LineLemmas` holds the facts about sequences: removing the first
occurrence of an element closes the gap and leaves the rest in order, which the refinement
needs for `_finish_session`, and skipping the entries at the head.

**Server** (`PrompterServerProofs`): `ServerInvariant`, and from it `ServerTypes`,
`OnePromptOnTheTerminal` (mutual exclusion on the terminal), `StopFindsEveryPrompt`,
`NoNameIsLeftBehind`, `ExchangeGoesWithSession` and `PasswordsAreWiped`. `PromptIsTracked` is not inductive: the handler of one prompt
clears `prompt_task` in its `finally`, which must not be the name of another. It needs that
each session has one prompt in the server, also after its client hung up (`OnePromptEach`),
which in turn is what the peer does. `HandlerShape` ties a handler to its `ui_task`: there
is one exactly while the handler waits for it, and a lost peer's is being cancelled.
`SecretShape` says when a password is held: between its entry and the reply, so that every
way out of the handler passes the code that wipes it.

`TerminalIsLentInOrder` is the refinement of `BorrowedTerminal` (`LendsInOrder`), by the same
invariant. The step of a prompt that starts while the queue holds only cancelled ones is
`BorrowAtOnce`: it overtakes nobody whose turn would come. The first of the queue is the
first that asked (`FirstIsAhead`), and a task that leaves the queue from any place leaves the
others in their order (`CloseUpOrder`). The end of the server, in whatever way, is the step
`Closes` of `BorrowedTerminal` (`EndLoan`).

`OnlyIdleSessionsAreDropped` (`DroppedOnlyWhenIdle`) has an invariant beside `IInv`, `PInv`: a
request in the server tells what its peer has done (`PeerShape`: there is one `begin`, and
a `stop` is of a stopped session), and a prompt at work, of a session that is not stopped, is
the one its session names (`PromptIsNamed`), so that the reaper sees it.

**Client and server** (`BridgeProofs`): `BridgeInvariant`, and from it `RpcsAreMatched`,
`NoLiveSessionIsStopped`, `ReadySessionsAreHeld` and the action property
`ServerMeetsItsPeer` (`PeerKeepsItsWord`). The invariant is the client's, the server's (an
instance of `PrompterServerProofs`), and what relates the two. Each of the server's lemmas is
about a step of `PrompterServer`, which presupposes its peer; so the steps that the client
causes must first be shown to be such steps, from the invariant of both (`DialIsOfThePeer`,
`EachStepMeetsThePeer`). That needs to know how far a session's `begin` is (`BeginInTurn`,
`BegunIsKnown`: a prompt is sent only after the server has answered), that what the client has
told an application follows from it (`ToldInOrder`), that one task at a time is about to send
(`OneUnsent`), that the server hears of a session only after its activation (`ServerKnows`), and
that a connection whose task was cancelled belongs to a finished session (`OrphanIsGone`). For
the client's part, `ClientFrame` says what a step of one task may change that the server could
see, with a lemma for each action of `SystemPrompter`, and `ClientStep` that this preserves the
invariant; `ServerFrame` does the same for the steps of the server, of the connections and of
the faults.

What was proved of each component alone is thereby true of the two together: `ServerIsSafe`
(the terminal, the tracked prompts, the exchanges, the passwords, whatever dies and is started
again), `ClientIsSafe` (one prompter, the line, no lost wake-up, no stuck session, until the
client dies), `DoneOnceWithServer`, `NeverLateWithServer`, and the two refinements.
`ALineWithServer`: the client's steps are those of `SystemPrompter` (`ClientStepsAlone`), and its
death is a stutter of the line. `TerminalIsLentBetweenRestarts`: the server's steps but its
restart are those of `PrompterServer` (`ServerStepsAlone`), each of which is a step of
`BorrowedTerminal`, its death among them; a restarted server starts with a terminal that nobody has.

Two theorems are of neither alone. `OnePromptIsWanted` (`OneWantedPrompt`) joins the client's
`SinglePrompter` and the server's `OnePromptEach` by what the server knows of a session
(`ServerKnows`); that somebody waits for the answer needs one more invariant, that the client
closes the connection of a prompt only after it has finished the session (`StaysConnected`: a
prompt has no time limit). `OnlyTheIdleLeave` (`LeavesWhenIdle`): a session that an application
was told to use leaves the server when the client has finished it, when the server ends, or
by the reaper in an idle hour; it is `OnlyReaped` of the server, with `BegunIsKnown` for its
premise. TLC finds `LeavesWhenIdle` and `ImplementsLine` true on the instance of `bridge`, too.

**Mode switch** (`ModeSwitchProofs`): `ModeInvariant`, `ModeTypes`, `NobodyElseIsSignalled`,
`TheOldOwnerIsGone`, `SuccessTakesEffect`. The argument: the owner that a command saw still is the owner, or it is
gone for ever (`WhoItSaw`), since every prompter has its own unique name on the bus, for
which its pid stands; and a process that was signalled was a prompter of a known kind, or
its pid belongs by then to a program of the same user, whose uid was asked for in the same
step (`SignalledWasKnown`). `TakesEffect` has an invariant of its own, `FileInv`: as long as a
command is not overruled the file is what it wants, and once it has reloaded, whoever makes
the bus reload later changes nothing (`Settled`).

**Keyring** (`KeyringCommandProofs`): `KeyringInvariant`, `KeyringTypes`, `SuccessIsTrue`,
`EachHearsItsOwnPrompt`. The argument is about what is unread. A command that awaits a reply
has at most one, and none while its call is not answered (`AwaitsOne`). It listens from
before its prompt is shown, so the first signal that is unread, or was heard, tells what the
user did, whatever is repeated after it (`HearsTheUser`, with the lemmas about the first
verdict of a sequence). And a reply that grants the wish was put into the inbox when the
wish was fulfilled and its prompt over (`KnowsTheTruth`).

**Input** (`TtyInputProofs`): `Invariance`, `TypeCorrect`, `WholeCharacters`. The buffer may end
inside a character, so its being whole is no invariant. What is: the buffer, followed by what
is read but not handled and by what is not read, is whole (`Stream`, `Whole`). A key appends a
whole character or a command; reading and handling move bytes within the stream; and an erase
removes a command and the bytes before it back to the beginning of a character
(`CutIsWhole`), which is what `_pop_utf8` finds, also if it takes more than one character. When
Enter is handled, the command that follows the buffer shows that the last character in it is
whole. `BackspaceErases` says what `_pop_utf8` makes of such a buffer: it takes the last
character, and the one before it only if that has several bytes and the last has one.

`OneKindIsReturnedAsMeant` compares the buffer with the line that the user means, over any
number of keys, for passwords without such a pair. What the loop would make of the unread
bytes is a fold, and nothing can be proved about it by induction over the bytes; instead the
invariant has a witness (`WillBeMeant`): there is a sequence of lines, the first of them the buffer
and the last what is meant, in which each follows from the one before by handling the next
unhandled byte (`OnItsWay`). A key appends the lines that its bytes lead through
(`PressWillBeMeant`), handling a byte drops the first, and when Enter comes the sequence has
one line left. That a key leads from the line to what is meant (`KeyIsMeant`) is where the
password's being of one kind is used: then Backspace takes one character (`PopUtf8OfOneKind`).

The inductive invariants are in no run, since they are proved, but TLC finds each of them true
on the instance of the safety run of its module. Every invariant and every action property of
the passing runs is proved, and each refinement.

Only model-checked: liveness under fairness, which is out of the prover's reach
(`EveryoneServed`, `BecomesReady`, `StopIsConfirmed`, `PromptWithdrawn`, `OrphansReaped`,
`EveryPromptEnds`, `InterruptEnds`, `NoQuestionLeft`, `CommandEnds`, `CompletedEnds`).
The violated properties of the findings are false, and have no theorem but `NoLateReady` for
the case in which it is true.

## Plan

1. `SystemPrompter`, its line, its proofs: done.
2. `PrompterServer`, its terminal, its proofs: done.
3. `Bridge`: modelled, checked and proved, with the refinements of both sides.
4. `ModeSwitch`, `KeyringCommand`: modelled, checked and proved.
5. `TtyInput`: modelled, checked and proved.
6. Left: two servers at the same time (`prepare_socket`), and the framing of `common.py`.

## Not modelled

The contents of prompts and what is shown on the terminal (`_render`, and
`sanitize_terminal_text`, a map over characters without state); the cryptography of libgcr;
JSON and its framing with its size limits; the uid checks of the socket, its directories and
permissions. Two servers at the same time on one socket. The command `status` of the mode
switch, which changes nothing. `selftest.py` and the shell scripts are straight lines of
commands. What the event
loop still does while `asyncio.run` cancels the last tasks of a client that has left `amain`.
`stop_owner_if_safe` asks for the uid and sends the signal in one step of the model: should the
pid change hands between the two calls, the kernel keeps the signal from a program of another
user, and the command fails as it does for the wrong uid. A service file that is unlinked by
one command while a second writes it, and made anew by a third, counts as the one being written.
