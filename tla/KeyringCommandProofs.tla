------------------------- MODULE KeyringCommandProofs -------------------------
(***************************************************************************)
(* The safety invariants of KeyringCommand hold for any number of          *)
(* commands, however often Completed is repeated.                          *)
(***************************************************************************)
EXTENDS KeyringCommand, SequenceTheorems, TLAPS

-------------------------------------------------------------------------------
(***************************************************************************)
(* What is unread: at most one reply, and among the signals the first one  *)
(* tells what the user did.                                                *)
(***************************************************************************)
Message == Reply \union Verdict

\* m is among the unread messages.
Unread(s, m) == \E i \in 1..Len(s) : s[i] = m

NoReply(s) == \A i \in 1..Len(s) : s[i] \notin Reply
OneReply(s) == \E i \in 1..Len(s) : s[i] \in Reply /\ \A j \in 1..Len(s) : s[j] \in Reply => j = i
NoVerdict(s) == \A i \in 1..Len(s) : s[i] \notin Verdict
FirstTells(s, v) == \E i \in 1..Len(s) : s[i] = v /\ \A j \in 1..i - 1 : s[j] \notin Verdict

\* The one who waits for a reply gets one; signals may be read before it.
LEMMA AppendMessage ==
  ASSUME NEW s \in Seq(Message), NEW m \in Message
  PROVE  /\ Append(s, m) \in Seq(Message)
         /\ \A n : Unread(Append(s, m), n) <=> Unread(s, n) \/ n = m
         /\ m \in Reply /\ NoReply(s) => OneReply(Append(s, m))
         /\ m \in Verdict => /\ NoReply(s) => NoReply(Append(s, m))
                             /\ OneReply(s) => OneReply(Append(s, m))
         /\ m \in Reply /\ NoVerdict(s) => NoVerdict(Append(s, m))
         /\ m \in Verdict /\ NoVerdict(s) => FirstTells(Append(s, m), m)
         /\ \A v : FirstTells(s, v) => FirstTells(Append(s, m), v)
<1> DEFINE a == Append(s, m)
<1>1. /\ a \in Seq(Message) /\ Len(a) = Len(s) + 1 /\ Len(s) \in Nat
      /\ \A i \in 1..Len(s) : a[i] = s[i]
      /\ a[Len(s) + 1] = m
  BY AppendProperties, LenProperties
<1> HIDE DEF a
<1>2. \A n : Unread(a, n) <=> Unread(s, n) \/ n = m
  <2>1. ASSUME NEW n PROVE Unread(a, n) => Unread(s, n) \/ n = m
    BY <1>1 DEF Unread
  <2>2. ASSUME NEW n, Unread(s, n) \/ n = m PROVE Unread(a, n)
    <3>1. CASE n = m
      BY <1>1, <3>1 DEF Unread
    <3>2. CASE Unread(s, n)
      <4>1. PICK i \in 1..Len(s) : s[i] = n
        BY <3>2 DEF Unread
      <4>2. i \in 1..Len(a) /\ a[i] = n
        BY <1>1, <4>1
      <4>3. QED
        BY <4>2 DEF Unread
    <3>3. QED
      BY <2>2, <3>1, <3>2
  <2>3. QED
    BY <2>1, <2>2
<1>3. m \in Reply /\ NoReply(s) => OneReply(a)
  <2> SUFFICES ASSUME m \in Reply, NoReply(s) PROVE OneReply(a)
    OBVIOUS
  <2>1. Len(s) + 1 \in 1..Len(a) /\ \A j \in 1..Len(a) : a[j] \in Reply => j = Len(s) + 1
    BY <1>1 DEF NoReply
  <2>2. QED
    BY <1>1, <2>1 DEF OneReply
<1>4. m \in Verdict => m \notin Reply
  BY DEF Verdict, Reply
<1>5. m \in Verdict => (NoReply(s) => NoReply(a)) /\ (OneReply(s) => OneReply(a))
  <2>1. m \in Verdict /\ NoReply(s) => NoReply(a)
    BY <1>1, <1>4 DEF NoReply
  <2>2. ASSUME m \in Verdict, OneReply(s) PROVE OneReply(a)
    <3>1. PICK i \in 1..Len(s) : s[i] \in Reply /\ \A j \in 1..Len(s) : s[j] \in Reply => j = i
      BY <2>2 DEF OneReply
    <3>2. i \in 1..Len(a) /\ a[i] \in Reply /\ \A j \in 1..Len(a) : a[j] \in Reply => j = i
      BY <1>1, <1>4, <2>2, <3>1
    <3>3. QED
      BY <3>2 DEF OneReply
  <2>3. QED
    BY <2>1, <2>2
<1>6. m \in Reply /\ NoVerdict(s) => NoVerdict(a)
  BY <1>1, <1>4 DEF NoVerdict
<1>7. m \in Verdict /\ NoVerdict(s) => FirstTells(a, m)
  <2> SUFFICES ASSUME NoVerdict(s) PROVE FirstTells(a, m)
    OBVIOUS
  <2>1. Len(s) + 1 \in 1..Len(a) /\ \A j \in 1..(Len(s) + 1) - 1 : a[j] \notin Verdict
    BY <1>1 DEF NoVerdict
  <2>2. QED
    BY <1>1, <2>1 DEF FirstTells
<1>8. ASSUME NEW v, FirstTells(s, v) PROVE FirstTells(a, v)
  <2>1. PICK i \in 1..Len(s) : s[i] = v /\ \A j \in 1..i - 1 : s[j] \notin Verdict
    BY <1>8 DEF FirstTells
  <2>2. i \in 1..Len(a) /\ a[i] = v /\ \A j \in 1..i - 1 : a[j] \notin Verdict
    BY <1>1, <2>1
  <2>3. QED
    BY <2>2 DEF FirstTells
<1>9. QED
  BY <1>1, <1>2, <1>3, <1>5, <1>6, <1>7, <1>8 DEF a

\* What stays when the first message is read.
LEMMA ReadMessage ==
  ASSUME NEW s \in Seq(Message), s # <<>>
  PROVE  /\ Tail(s) \in Seq(Message) /\ Head(s) \in Message
         /\ Unread(s, Head(s)) /\ \A n : Unread(Tail(s), n) => Unread(s, n)
         /\ NoReply(s) => NoReply(Tail(s)) /\ Head(s) \in Verdict
         /\ OneReply(s) /\ Head(s) \in Reply => NoReply(Tail(s))
         /\ OneReply(s) /\ Head(s) \in Verdict => OneReply(Tail(s))
         /\ NoVerdict(s) => NoVerdict(Tail(s)) /\ Head(s) \in Reply
         /\ \A v : FirstTells(s, v) /\ Head(s) \in Reply /\ v \in Verdict => FirstTells(Tail(s), v)
         /\ \A v : FirstTells(s, v) /\ Head(s) \in Verdict => Head(s) = v
<1> DEFINE t == Tail(s)
<1>1. /\ t \in Seq(Message) /\ Len(t) = Len(s) - 1 /\ Len(s) \in Nat /\ Len(s) > 0
      /\ \A i \in 1..Len(t) : t[i] = s[i + 1]
      /\ Head(s) = s[1] /\ s[1] \in Message
  BY HeadTailProperties, LenProperties, EmptySeq, ElementOfSeq
<1>2. \A m \in Message : (m \in Reply <=> m \notin Verdict)
  BY DEF Message, Reply, Verdict
<1> HIDE DEF t
<1>3. Unread(s, Head(s))
  BY <1>1 DEF Unread
<1>4. ASSUME NEW n, Unread(t, n) PROVE Unread(s, n)
  <2>1. PICK i \in 1..Len(t) : t[i] = n
    BY <1>4 DEF Unread
  <2>2. i + 1 \in 1..Len(s) /\ s[i + 1] = n
    BY <1>1, <2>1
  <2>3. QED
    BY <2>2 DEF Unread
<1>5. NoReply(s) => NoReply(t) /\ Head(s) \in Verdict
  BY <1>1, <1>2 DEF NoReply
<1>6. OneReply(s) /\ Head(s) \in Reply => NoReply(t)
  BY <1>1 DEF OneReply, NoReply
<1>7. ASSUME OneReply(s), Head(s) \in Verdict PROVE OneReply(t)
  <2>1. PICK i \in 1..Len(s) : s[i] \in Reply /\ \A j \in 1..Len(s) : s[j] \in Reply => j = i
    BY <1>7 DEF OneReply
  <2>2. i # 1
    BY <1>1, <1>2, <1>7, <2>1
  <2>3. i - 1 \in 1..Len(t) /\ t[i - 1] \in Reply /\ \A j \in 1..Len(t) : t[j] \in Reply => j = i - 1
    BY <1>1, <2>1, <2>2
  <2>4. QED
    BY <2>3 DEF OneReply
<1>8. NoVerdict(s) => NoVerdict(t) /\ Head(s) \in Reply
  BY <1>1, <1>2 DEF NoVerdict
<1>9. ASSUME NEW v, FirstTells(s, v) PROVE /\ Head(s) \in Reply /\ v \in Verdict => FirstTells(t, v)
                                           /\ Head(s) \in Verdict => Head(s) = v
  <2>1. PICK i \in 1..Len(s) : s[i] = v /\ \A j \in 1..i - 1 : s[j] \notin Verdict
    BY <1>9 DEF FirstTells
  <2>2. ASSUME Head(s) \in Reply, v \in Verdict PROVE FirstTells(t, v)
    <3>1. i # 1
      BY <1>1, <1>2, <2>1, <2>2
    <3>2. i - 1 \in 1..Len(t) /\ t[i - 1] = v /\ \A j \in 1..(i - 1) - 1 : t[j] \notin Verdict
      BY <1>1, <2>1, <3>1
    <3>3. QED
      BY <3>2 DEF FirstTells
  <2>3. Head(s) \in Verdict => i = 1
    BY <1>1, <2>1
  <2>4. QED
    BY <1>1, <2>1, <2>2, <2>3
<1>10. QED
  BY <1>1, <1>3, <1>4, <1>5, <1>6, <1>7, <1>8, <1>9 DEF t

-------------------------------------------------------------------------------
(***************************************************************************)
(* The inductive invariant.                                                *)
(***************************************************************************)
\* A command that awaits a reply has a call that was not answered, or one reply to read.
AwaitsOne(c) ==
  /\ cmd[c].pc \in Call /\ request[c] = "none" => OneReply(inbox[c])
  /\ request[c] # "none" => /\ NoReply(inbox[c])
                            /\ cmd[c].pc \in Call
                            /\ request[c] \in {cmd[c].pc, "shown"}
                            /\ request[c] = "shown" => cmd[c].pc = "prompt"
  /\ cmd[c].pc \notin Call => request[c] = "none" /\ NoReply(inbox[c])

\* How far the prompt is when the command is at its awaits.
PromptShape(c) ==
  /\ cmd[c].pc \in {"idle", "change"} =>
       ~cmd[c].hears /\ cmd[c].heard = None /\ prompt[c] \in {"none", "made", "lost"}
  /\ cmd[c].pc = "idle" \/ request[c] = "change" => prompt[c] = "none"
  /\ cmd[c].pc = "change" /\ Unread(inbox[c], "ok") => prompt[c] = "none"
  /\ cmd[c].pc \in {"prompt", "completed"} => cmd[c].hears
  /\ cmd[c].pc \in {"get", "ended"} => ~cmd[c].hears
  /\ cmd[c].pc = "get" => /\ prompt[c] \in {"none", "done", "dismissed"}
                          /\ prompt[c] = "none" \/ cmd[c].heard # None

\* The command listens from before the prompt is shown: the first signal that it hears, or
\* will hear, tells what the user did.
HearsTheUser(c) ==
  /\ prompt[c] \notin Verdict => NoVerdict(inbox[c]) /\ cmd[c].heard = None
  /\ prompt[c] \in Verdict /\ cmd[c].hears /\ cmd[c].heard = None => FirstTells(inbox[c], prompt[c])
  /\ cmd[c].heard # None => cmd[c].heard = prompt[c]
  /\ cmd[c].result = 2 => prompt[c] = "dismissed"
  /\ cmd[c].result = 0 => prompt[c] \in {"none", "done"}

\* A reply that will be a success was true when it was given, and the wish served by then.
Fulfils(c, m) == m = IF cmd[c].lock THEN "locked" ELSE "unlocked"

KnowsTheTruth(c) ==
  /\ cmd[c].pc = "get" /\ (\E m \in Message : Unread(inbox[c], m) /\ Fulfils(c, m)) => c \in matched
  /\ cmd[c].result = 0 => c \in matched

Shape(c) == AwaitsOne(c) /\ PromptShape(c) /\ HearsTheUser(c) /\ KnowsTheTruth(c)

IInv == TypeOK /\ \A c \in Cmd : Shape(c)

-------------------------------------------------------------------------------
(***************************************************************************)
(* A step that one command can notice.                                     *)
(***************************************************************************)
\* What was true of a command stands while it may still succeed.
LEMMA MatchedStays ==
  ASSUME Observe, NEW c \in Cmd, c \in matched, cmd'[c].result \in {None, 0}
  PROVE  c \in matched'
BY DEF Observe

SameFor(d) ==
  prompt'[d] = prompt[d] /\ request'[d] = request[d] /\ inbox'[d] = inbox[d] /\ cmd'[d] = cmd[d]

\* A command that notices nothing keeps its shape.
LEMMA SameShape ==
  ASSUME IInv, Observe, NEW d \in Cmd, SameFor(d)
  PROVE  Shape(d)'
<1>1. AwaitsOne(d)'
  BY DEF IInv, Shape, AwaitsOne, SameFor
<1>2. PromptShape(d)'
  BY DEF IInv, Shape, PromptShape, SameFor
<1>3. HearsTheUser(d)'
  BY DEF IInv, Shape, HearsTheUser, SameFor
<1>4. KnowsTheTruth(d)'
  <2>1. cmd[d].pc = "get" => cmd[d].result = None
    BY DEF IInv, TypeOK
  <2>2. cmd[d].pc = "get" \/ cmd[d].result = 0 => cmd'[d].result \in {None, 0}
    BY <2>1 DEF SameFor
  <2>3. QED
    BY <2>2, MatchedStays DEF IInv, Shape, KnowsTheTruth, SameFor, Fulfils
<1>5. QED
  BY <1>1, <1>2, <1>3, <1>4 DEF Shape

LEMMA OneStep ==
  ASSUME IInv, Observe, NEW c \in Cmd, \A d \in Cmd \ {c} : SameFor(d),
         locked' \in BOOLEAN,
         prompt' \in [Cmd -> {"none", "made", "shown", "lost"} \union Verdict],
         request' \in [Cmd -> Call \union {"none", "shown"}],
         inbox' \in [Cmd -> Seq(Message)],
         cmd' \in [Cmd -> Command], cmd'[c].pc = "ended" <=> cmd'[c].result # None,
         Shape(c)'
  PROVE  IInv'
<1>1. TypeOK'
  <2>1. matched' \in SUBSET Cmd
    BY DEF Observe
  <2>2. \A d \in Cmd : cmd'[d].pc = "ended" <=> cmd'[d].result # None
    BY DEF IInv, TypeOK, SameFor
  <2>3. QED
    BY <2>1, <2>2 DEF TypeOK, Message
<1>2. \A d \in Cmd : Shape(d)'
  BY SameShape
<1>3. QED
  BY <1>1, <1>2 DEF IInv

\* What the types say of one command.
LEMMA TypesOf ==
  ASSUME IInv, NEW c \in Cmd
  PROVE  /\ inbox[c] \in Seq(Message) /\ cmd[c] \in Command
         /\ prompt[c] \in {"none", "made", "shown", "lost"} \union Verdict
         /\ request[c] \in Call \union {"none", "shown"}
         /\ cmd[c].pc = "ended" <=> cmd[c].result # None
         /\ Shape(c)
BY DEF IInv, TypeOK, Message

-------------------------------------------------------------------------------
(***************************************************************************)
(* The service.                                                            *)
(***************************************************************************)
\* The service answers the call of c with m, perhaps with a prompt that it made.
LEMMA AnswersStep ==
  ASSUME IInv, Observe, NEW c \in Cmd, NEW m \in Reply, Answers(c, m),
         request[c] # "none", locked' \in BOOLEAN,
         \/ UNCHANGED prompt
         \/ /\ request[c] = "change" /\ m = "prompt"
            /\ prompt' = [prompt EXCEPT ![c] = "made"],
         cmd[c].pc = "get" /\ Fulfils(c, m) => c \in matched'
  PROVE  IInv'
<1>1. /\ request' = [request EXCEPT ![c] = "none"]
      /\ inbox' = [inbox EXCEPT ![c] = Append(inbox[c], m)]
      /\ cmd' = cmd /\ m \in Message
  BY DEF Answers, Message
<1>2. /\ request'[c] = "none" /\ inbox'[c] = Append(inbox[c], m) /\ cmd'[c] = cmd[c]
      /\ \A d \in Cmd \ {c} : SameFor(d)
  BY <1>1 DEF SameFor, IInv, TypeOK
<1>3. /\ inbox[c] \in Seq(Message) /\ (cmd[c].pc = "ended" <=> cmd[c].result # None)
      /\ AwaitsOne(c) /\ PromptShape(c) /\ HearsTheUser(c) /\ KnowsTheTruth(c)
  BY TypesOf DEF Shape
<1>4. /\ Append(inbox[c], m) \in Seq(Message)
      /\ \A n : Unread(Append(inbox[c], m), n) <=> Unread(inbox[c], n) \/ n = m
      /\ NoReply(inbox[c]) => OneReply(Append(inbox[c], m))
      /\ NoVerdict(inbox[c]) => NoVerdict(Append(inbox[c], m))
      /\ \A v : FirstTells(inbox[c], v) => FirstTells(Append(inbox[c], m), v)
  BY <1>1, <1>3, AppendMessage
<1>5. /\ locked' \in BOOLEAN
      /\ prompt' \in [Cmd -> {"none", "made", "shown", "lost"} \union Verdict]
      /\ request' \in [Cmd -> Call \union {"none", "shown"}]
      /\ inbox' \in [Cmd -> Seq(Message)] /\ cmd' \in [Cmd -> Command]
      /\ (cmd'[c].pc = "ended" <=> cmd'[c].result # None)
  BY <1>1, <1>3, <1>4 DEF IInv, TypeOK, Message
<1>6. /\ cmd[c].pc \in Call /\ NoReply(inbox[c])
      /\ cmd[c].pc = "change" => prompt[c] = "none"
      /\ cmd[c].result = None
  BY <1>3 DEF AwaitsOne, PromptShape, Call
<1>7. \/ prompt'[c] = prompt[c]
      \/ prompt[c] = "none" /\ prompt'[c] = "made" /\ m = "prompt" /\ cmd[c].pc = "change"
  <2>1. request[c] = "change" => prompt[c] = "none" /\ cmd[c].pc = "change"
    BY <1>3 DEF AwaitsOne, PromptShape
  <2>2. QED
    BY <2>1 DEF IInv, TypeOK
<1>8. AwaitsOne(c)'
  BY <1>2, <1>4, <1>6 DEF AwaitsOne
<1>9. PromptShape(c)'
  <2>1. ~Unread(inbox[c], "ok")
    BY <1>6 DEF NoReply, Unread, Reply
  <2>2. QED
    BY <1>2, <1>3, <1>4, <1>6, <1>7, <2>1 DEF PromptShape, Reply
<1>10. HearsTheUser(c)'
  BY <1>2, <1>3, <1>4, <1>6, <1>7, NoneIsFresh DEF HearsTheUser, Verdict
<1>11. KnowsTheTruth(c)'
  <2>1. \A n : Unread(inbox'[c], n) => Unread(inbox[c], n) \/ n = m
    BY <1>2, <1>4
  <2>2. \A n : Fulfils(c, n)' <=> Fulfils(c, n)
    BY <1>2 DEF Fulfils
  <2>3. c \in matched => c \in matched'
    BY <1>2, <1>6, MatchedStays
  <2>4. cmd'[c].result # 0
    BY <1>2, <1>6, NoneIsFresh
  <2>5. QED
    BY <1>2, <1>3, <2>1, <2>2, <2>3, <2>4 DEF KnowsTheTruth
<1>12. QED
  BY <1>2, <1>5, <1>8, <1>9, <1>10, <1>11, OneStep DEF Shape

LEMMA ServeStep ==
  ASSUME IInv, Observe, NEW c \in Cmd, ServeChange(c) \/ PromptReply(c)
  PROVE  IInv'
<1>1. cmd[c].pc # "get"
  BY TypesOf DEF ServeChange, PromptReply, Shape, AwaitsOne
<1>2. CASE ServeChange(c)
  <2>1. request[c] = "change" /\ cmd[c].lock \in BOOLEAN /\ locked \in BOOLEAN
    BY <1>2, TypesOf DEF ServeChange, IInv, TypeOK, Command
  <2>2. CASE Answers(c, "ok") /\ locked' \in {locked, cmd[c].lock} /\ UNCHANGED prompt
    BY <1>1, <2>1, <2>2, AnswersStep DEF Reply
  <2>3. CASE Answers(c, "prompt") /\ prompt' = [prompt EXCEPT ![c] = "made"] /\ UNCHANGED locked
    BY <1>1, <2>1, <2>3, AnswersStep DEF Reply
  <2>4. QED
    BY <1>2, <2>2, <2>3 DEF ServeChange
<1>3. CASE PromptReply(c)
  <2>1. /\ request[c] # "none" /\ UNCHANGED <<locked, prompt>> /\ locked \in BOOLEAN
        /\ Answers(c, "ok") \/ Answers(c, "error")
    BY <1>3 DEF PromptReply, serviceVars, IInv, TypeOK
  <2>2. QED
    BY <1>1, <2>1, AnswersStep DEF Reply
<1>4. QED
  BY <1>2, <1>3

\* What the service tells of the collection is true when it tells it, and the wish of the
\* command is not under way any more.
LEMMA ServeGetStep ==
  ASSUME IInv, Observe, NEW c \in Cmd, ServeGet(c)
  PROVE  IInv'
<1>1. PICK m \in {"error", IF locked THEN "locked" ELSE "unlocked"} : Answers(c, m)
  BY DEF ServeGet
<1>2. /\ request[c] = "get" /\ UNCHANGED <<locked, prompt>> /\ locked \in BOOLEAN
      /\ cmd[c].lock \in BOOLEAN
  BY TypesOf DEF ServeGet, serviceVars, IInv, TypeOK, Command
<1>3. cmd[c].pc = "get" /\ prompt[c] \notin {"made", "shown"} /\ cmd[c].result = None
  BY <1>2, TypesOf DEF Shape, AwaitsOne, PromptShape, Call, Verdict
<1>4. cmd' = cmd /\ request'[c] = "none"
  BY <1>1, <1>2 DEF Answers, IInv, TypeOK
<1>5. Fulfils(c, m) => locked' = cmd[c].lock
  BY <1>1, <1>2 DEF Fulfils
<1>6. Served(c)' /\ cmd[c].pc # "ended" /\ cmd'[c].result = None
  BY <1>2, <1>3, <1>4 DEF Served
<1>7. Fulfils(c, m) => c \in matched'
  BY <1>5, <1>6 DEF Observe
<1>8. m \in Reply
  BY DEF Reply
<1>9. QED
  BY <1>1, <1>2, <1>7, <1>8, AnswersStep

LEMMA ShowPromptStep ==
  ASSUME IInv, Observe, NEW c \in Cmd, ShowPrompt(c)
  PROVE  IInv'
<1>1. /\ request[c] = "prompt" /\ prompt[c] = "made" /\ UNCHANGED <<locked, inbox, cmd>>
      /\ prompt' = [prompt EXCEPT ![c] = "shown"] /\ request' = [request EXCEPT ![c] = "shown"]
  BY DEF ShowPrompt
<1>2. /\ prompt'[c] = "shown" /\ request'[c] = "shown" /\ inbox'[c] = inbox[c]
      /\ cmd'[c] = cmd[c] /\ \A d \in Cmd \ {c} : SameFor(d)
  BY <1>1 DEF SameFor, IInv, TypeOK
<1>3. /\ (cmd[c].pc = "ended" <=> cmd[c].result # None)
      /\ AwaitsOne(c) /\ PromptShape(c) /\ HearsTheUser(c) /\ KnowsTheTruth(c)
  BY TypesOf DEF Shape
<1>4. cmd[c].pc = "prompt" /\ cmd[c].result = None
  BY <1>1, <1>3 DEF AwaitsOne
<1>5. AwaitsOne(c)' /\ PromptShape(c)'
  BY <1>1, <1>2, <1>3, <1>4 DEF AwaitsOne, PromptShape, Call
<1>6. HearsTheUser(c)'
  BY <1>1, <1>2, <1>3, <1>4, NoneIsFresh DEF HearsTheUser, Verdict
<1>7. KnowsTheTruth(c)'
  BY <1>2, <1>4, NoneIsFresh DEF KnowsTheTruth
<1>8. /\ locked' \in BOOLEAN
      /\ prompt' \in [Cmd -> {"none", "made", "shown", "lost"} \union Verdict]
      /\ request' \in [Cmd -> Call \union {"none", "shown"}]
      /\ inbox' \in [Cmd -> Seq(Message)] /\ cmd' \in [Cmd -> Command]
      /\ (cmd'[c].pc = "ended" <=> cmd'[c].result # None)
  BY <1>1, <1>3 DEF IInv, TypeOK, Message
<1>9. QED
  BY <1>2, <1>5, <1>6, <1>7, <1>8, OneStep DEF Shape

\* A signal of the prompt of c with verdict v; p is what the user has told it.
LEMMA SignalStep ==
  ASSUME IInv, Observe, NEW c \in Cmd, NEW v \in Verdict, NEW p \in Verdict,
         prompt[c] = p \/ (prompt[c] = "shown" /\ p = v),
         prompt' = [prompt EXCEPT ![c] = p], Emit(c, v),
         UNCHANGED <<request, cmd>>, locked' \in BOOLEAN
  PROVE  IInv'
<1>1. /\ inbox[c] \in Seq(Message) /\ v \in Message
      /\ (cmd[c].pc = "ended" <=> cmd[c].result # None)
      /\ AwaitsOne(c) /\ PromptShape(c) /\ HearsTheUser(c) /\ KnowsTheTruth(c)
  BY TypesOf DEF Shape, Message
<1>2. inbox' = [inbox EXCEPT ![c] = IF cmd[c].hears THEN Append(inbox[c], v) ELSE inbox[c]]
  BY DEF Emit, HearsOf, IInv, TypeOK
<1>3. /\ Append(inbox[c], v) \in Seq(Message)
      /\ \A n : Unread(Append(inbox[c], v), n) <=> Unread(inbox[c], n) \/ n = v
      /\ NoReply(inbox[c]) => NoReply(Append(inbox[c], v))
      /\ OneReply(inbox[c]) => OneReply(Append(inbox[c], v))
      /\ NoVerdict(inbox[c]) => FirstTells(Append(inbox[c], v), v)
      /\ \A w : FirstTells(inbox[c], w) => FirstTells(Append(inbox[c], v), w)
  BY <1>1, AppendMessage
<1>4. /\ prompt'[c] = p /\ request'[c] = request[c] /\ cmd'[c] = cmd[c]
      /\ inbox'[c] = IF cmd[c].hears THEN Append(inbox[c], v) ELSE inbox[c]
      /\ \A d \in Cmd \ {c} : SameFor(d)
  BY <1>2 DEF SameFor, IInv, TypeOK
<1>5. prompt[c] \in {"shown"} \union Verdict /\ "ok" \notin Verdict /\ v # "locked" /\ v # "unlocked"
  BY DEF Verdict
<1>6. cmd[c].pc \notin {"idle", "change"} /\ request[c] # "change"
  BY <1>1, <1>5 DEF PromptShape, Verdict
<1>7. AwaitsOne(c)'
  BY <1>1, <1>3, <1>4 DEF AwaitsOne
<1>8. PromptShape(c)'
  BY <1>1, <1>4, <1>5, <1>6 DEF PromptShape, Verdict
<1>9. HearsTheUser(c)'
  <2>1. CASE prompt[c] = "shown" /\ p = v
    <3>1. /\ NoVerdict(inbox[c]) /\ cmd[c].heard = None /\ cmd[c].result \notin {0, 2}
      BY <1>1, <2>1 DEF HearsTheUser, Verdict
    <3>2. QED
      BY <1>3, <1>4, <2>1, <3>1 DEF HearsTheUser
  <2>2. CASE prompt[c] = p
    BY <1>1, <1>3, <1>4, <2>2 DEF HearsTheUser
  <2>3. QED
    BY <2>1, <2>2
<1>10. KnowsTheTruth(c)'
  <2>1. cmd[c].pc = "get" => inbox'[c] = inbox[c]
    BY <1>1, <1>4 DEF PromptShape
  <2>2. cmd[c].pc = "get" \/ cmd[c].result = 0 => cmd'[c].result \in {None, 0}
    BY <1>1, <1>4
  <2>3. \A n : Fulfils(c, n)' <=> Fulfils(c, n)
    BY <1>4 DEF Fulfils
  <2>4. QED
    BY <1>1, <1>4, <2>1, <2>2, <2>3, MatchedStays DEF KnowsTheTruth
<1>11. /\ prompt' \in [Cmd -> {"none", "made", "shown", "lost"} \union Verdict]
       /\ request' \in [Cmd -> Call \union {"none", "shown"}]
       /\ inbox' \in [Cmd -> Seq(Message)] /\ cmd' \in [Cmd -> Command]
       /\ (cmd'[c].pc = "ended" <=> cmd'[c].result # None)
  BY <1>1, <1>2, <1>3 DEF IInv, TypeOK, Message
<1>12. QED
  BY <1>4, <1>7, <1>8, <1>9, <1>10, <1>11, OneStep DEF Shape

LEMMA UserStep ==
  ASSUME IInv, Observe, NEW c \in Cmd, UserEnds(c) \/ Repeats(c)
  PROVE  IInv'
<1>0. locked \in BOOLEAN /\ cmd[c].lock \in BOOLEAN
  BY TypesOf DEF IInv, TypeOK, Command
<1>1. CASE UserEnds(c)
  <2>1. PICK v \in Verdict :
          /\ prompt' = [prompt EXCEPT ![c] = v] /\ Emit(c, v)
          /\ locked' \in IF v = "dismissed" THEN {locked} ELSE {locked, cmd[c].lock}
    BY <1>1 DEF UserEnds
  <2>2. locked' \in BOOLEAN /\ prompt[c] = "shown" /\ UNCHANGED <<request, cmd>>
    BY <1>0, <1>1, <2>1 DEF UserEnds
  <2>3. QED
    BY <2>1, <2>2, SignalStep
<1>2. CASE Repeats(c)
  <2>1. PICK v \in Verdict : Emit(c, v)
    BY <1>2 DEF Repeats
  <2>2. /\ prompt[c] \in Verdict /\ UNCHANGED <<locked, prompt, request, cmd>>
        /\ prompt' = [prompt EXCEPT ![c] = prompt[c]]
    BY <1>2 DEF Repeats, serviceVars, IInv, TypeOK
  <2>3. QED
    BY <1>0, <2>1, <2>2, SignalStep
<1>3. QED
  BY <1>1, <1>2

LEMMA OtherChangesStep ==
  ASSUME IInv, Observe, OtherChanges
  PROVE  IInv'
<1>1. TypeOK'
  BY DEF OtherChanges, Observe, IInv, TypeOK
<1>2. \A d \in Cmd : SameFor(d)
  BY DEF OtherChanges, SameFor
<1>3. QED
  BY <1>1, <1>2, SameShape DEF IInv

\* After a crash every call that was not answered has failed.
LEMMA CrashesStep ==
  ASSUME IInv, Observe, Crashes
  PROVE  IInv'
<1>1. /\ locked' = TRUE /\ cmd' = cmd
      /\ prompt' = [c \in Cmd |-> IF prompt[c] \in {"made", "shown"} THEN "lost" ELSE prompt[c]]
      /\ request' = [c \in Cmd |-> "none"]
      /\ inbox' = [c \in Cmd |-> IF request[c] = "none" THEN inbox[c] ELSE Append(inbox[c], "error")]
  BY DEF Crashes
<1>2. \A c \in Cmd :
        LET a == Append(inbox[c], "error") IN
          /\ a \in Seq(Message)
          /\ \A n : Unread(a, n) <=> Unread(inbox[c], n) \/ n = "error"
          /\ NoReply(inbox[c]) => OneReply(a)
          /\ NoVerdict(inbox[c]) => NoVerdict(a)
          /\ \A v : FirstTells(inbox[c], v) => FirstTells(a, v)
  <2>1. "error" \in Message /\ "error" \in Reply
    BY DEF Message, Reply
  <2>2. QED
    BY <2>1, TypesOf, AppendMessage
<1>3. TypeOK'
  BY <1>1, <1>2 DEF Observe, IInv, TypeOK, Message
<1>4. ASSUME NEW c \in Cmd PROVE Shape(c)'
  <2>1. /\ AwaitsOne(c) /\ PromptShape(c) /\ HearsTheUser(c) /\ KnowsTheTruth(c)
        /\ (cmd[c].pc = "ended" <=> cmd[c].result # None)
    BY TypesOf DEF Shape
  <2>2. /\ request'[c] = "none" /\ cmd'[c] = cmd[c]
        /\ prompt'[c] = IF prompt[c] \in {"made", "shown"} THEN "lost" ELSE prompt[c]
        /\ inbox'[c] = IF request[c] = "none" THEN inbox[c] ELSE Append(inbox[c], "error")
    BY <1>1
  <2>3. \A n : Unread(inbox'[c], n) => Unread(inbox[c], n) \/ n = "error"
    BY <1>2, <2>2
  <2>4. AwaitsOne(c)'
    BY <1>2, <2>1, <2>2 DEF AwaitsOne
  <2>5. PromptShape(c)'
    BY <2>1, <2>2, <2>3 DEF PromptShape
  <2>6. HearsTheUser(c)'
    BY <1>2, <2>1, <2>2 DEF HearsTheUser, Verdict
  <2>7. KnowsTheTruth(c)'
    <3>1. \A n : Fulfils(c, n)' <=> Fulfils(c, n)
      BY <2>2 DEF Fulfils
    <3>2. ~Fulfils(c, "error")
      BY DEF Fulfils
    <3>3. cmd[c].pc = "get" \/ cmd[c].result = 0 => cmd'[c].result \in {None, 0}
      BY <2>1, <2>2
    <3>4. QED
      BY <2>1, <2>2, <2>3, <3>1, <3>2, <3>3, MatchedStays DEF KnowsTheTruth
  <2>8. QED
    BY <2>4, <2>5, <2>6, <2>7 DEF Shape
<1>5. QED
  BY <1>3, <1>4 DEF IInv

-------------------------------------------------------------------------------
(***************************************************************************)
(* The command.                                                            *)
(***************************************************************************)
\* What a command reads, and what it leaves unread.
LEMMA ReadsOne ==
  ASSUME IInv, NEW c \in Cmd, NEW p, NEW m, Reads(c, p, m)
  PROVE  /\ cmd[c].pc = p /\ p # "ended" /\ m \in Message /\ Unread(inbox[c], m)
         /\ inbox' \in [Cmd -> Seq(Message)] /\ \A d \in Cmd \ {c} : inbox'[d] = inbox[d]
         /\ \A n : Unread(inbox'[c], n) => Unread(inbox[c], n)
         /\ m \in Reply => NoReply(inbox'[c]) /\ request[c] = "none" /\ p \in Call
         /\ m \in Verdict => /\ NoReply(inbox[c]) => NoReply(inbox'[c])
                             /\ OneReply(inbox[c]) => OneReply(inbox'[c])
                             /\ prompt[c] \in Verdict
         /\ NoVerdict(inbox[c]) => NoVerdict(inbox'[c])
         /\ \A v \in Verdict : FirstTells(inbox[c], v) =>
              IF m \in Verdict THEN m = v ELSE FirstTells(inbox'[c], v)
<1>1. /\ cmd[c].pc = p /\ p # "ended" /\ inbox[c] # <<>> /\ m = Head(inbox[c])
      /\ inbox' = [inbox EXCEPT ![c] = Tail(inbox[c])]
  BY DEF Reads
<1>2. inbox[c] \in Seq(Message) /\ inbox \in [Cmd -> Seq(Message)] /\ AwaitsOne(c) /\ HearsTheUser(c)
  BY TypesOf DEF IInv, TypeOK, Message, Shape
<1>3. inbox'[c] = Tail(inbox[c]) /\ \A d \in Cmd \ {c} : inbox'[d] = inbox[d]
  BY <1>1, <1>2
<1>4. \A n \in Message : n \in Reply <=> n \notin Verdict
  BY DEF Message, Reply, Verdict
<1> DEFINE s == inbox[c]
           t == Tail(s)
<1>5. /\ t \in Seq(Message) /\ m \in Message
      /\ Unread(s, m) /\ \A n : Unread(t, n) => Unread(s, n)
      /\ NoReply(s) => NoReply(t) /\ m \in Verdict
      /\ OneReply(s) /\ m \in Reply => NoReply(t)
      /\ OneReply(s) /\ m \in Verdict => OneReply(t)
      /\ NoVerdict(s) => NoVerdict(t) /\ m \in Reply
      /\ \A v : FirstTells(s, v) /\ m \in Reply /\ v \in Verdict => FirstTells(t, v)
      /\ \A v : FirstTells(s, v) /\ m \in Verdict => m = v
  BY <1>1, <1>2, ReadMessage
<1> HIDE DEF s, t
<1>6. s = inbox[c] /\ t = inbox'[c] /\ inbox' \in [Cmd -> Seq(Message)]
  BY <1>1, <1>2, <1>3, <1>5 DEF s, t
<1>7. m \in Reply => ~NoReply(s)
  BY <1>4, <1>5
<1>8. m \in Reply => OneReply(s) /\ request[c] = "none" /\ cmd[c].pc \in Call
  BY <1>2, <1>6, <1>7 DEF AwaitsOne
<1>9. m \in Verdict => prompt[c] \in Verdict
  BY <1>2, <1>4, <1>5, <1>6 DEF HearsTheUser
<1>10. QED
  BY <1>1, <1>3, <1>4, <1>5, <1>6, <1>8, <1>9

\* The end of a command.
LEMMA ExitStep ==
  ASSUME IInv, Observe, NEW c \in Cmd, NEW r \in {0, 1, 2}, Exit(c, r),
         inbox' \in [Cmd -> Seq(Message)], \A d \in Cmd \ {c} : inbox'[d] = inbox[d],
         request[c] = "none", NoReply(inbox'[c]),
         prompt[c] \notin Verdict => NoVerdict(inbox'[c]),
         r = 2 => prompt[c] = "dismissed",
         r = 0 => prompt[c] \in {"none", "done"} /\ c \in matched /\ cmd[c].pc = "get"
  PROVE  IInv'
<1> DEFINE u == [Unstarted EXCEPT !.pc = "ended", !.lock = cmd[c].lock, !.result = r]
<1>1. /\ cmd' = [cmd EXCEPT ![c] = u] /\ UNCHANGED <<locked, prompt, request>>
      /\ cmd[c].lock \in BOOLEAN
  BY TypesOf DEF Exit, Becomes, serviceVars, Command
<1>2. /\ u \in Command /\ u.pc = "ended" /\ u.heard = None /\ ~u.hears /\ u.result = r
  BY <1>1 DEF Unstarted, Command
<1>3. /\ cmd'[c] = u /\ prompt'[c] = prompt[c] /\ request'[c] = "none"
      /\ \A d \in Cmd \ {c} : SameFor(d)
  BY <1>1 DEF SameFor, IInv, TypeOK
<1> HIDE DEF u
<1>4. AwaitsOne(c)' /\ PromptShape(c)'
  BY <1>2, <1>3 DEF AwaitsOne, PromptShape, Call
<1>5. HearsTheUser(c)'
  BY <1>2, <1>3 DEF HearsTheUser
<1>6. KnowsTheTruth(c)'
  <2>1. r = 0 => c \in matched'
    BY <1>2, <1>3, MatchedStays
  <2>2. QED
    BY <1>2, <1>3, <2>1 DEF KnowsTheTruth
<1>7. r # None
  BY NoneIsFresh
<1>8. /\ locked' \in BOOLEAN
      /\ prompt' \in [Cmd -> {"none", "made", "shown", "lost"} \union Verdict]
      /\ request' \in [Cmd -> Call \union {"none", "shown"}]
      /\ cmd' \in [Cmd -> Command]
  BY <1>1, <1>2 DEF IInv, TypeOK
<1>9. QED
  BY <1>2, <1>3, <1>4, <1>5, <1>6, <1>7, <1>8, OneStep DEF Shape

\* A command at its next await: u is what it becomes, r the call that it awaits.
LEMMA AwaitStep ==
  ASSUME IInv, Observe, NEW c \in Cmd, NEW u \in Command,
         NEW r \in Call \union {"none"}, Becomes(c, u), request' = [request EXCEPT ![c] = r],
         inbox' \in [Cmd -> Seq(Message)], \A d \in Cmd \ {c} : inbox'[d] = inbox[d],
         NoReply(inbox'[c]),
         (u.pc \in Call /\ r = u.pc) \/ (u.pc = "completed" /\ r = "none"),
         u.result = None,
         u.pc = "change" => ~u.hears /\ u.heard = None /\ prompt[c] = "none",
         u.pc \in {"prompt", "completed"} => u.hears,
         u.pc = "get" => /\ ~u.hears /\ prompt[c] \in {"none", "done", "dismissed"}
                         /\ prompt[c] = "none" \/ u.heard # None,
         prompt[c] \notin Verdict => NoVerdict(inbox'[c]) /\ u.heard = None,
         prompt[c] \in Verdict /\ u.hears /\ u.heard = None => FirstTells(inbox'[c], prompt[c]),
         u.heard # None => u.heard = prompt[c]
  PROVE  IInv'
<1>1. cmd' = [cmd EXCEPT ![c] = u] /\ UNCHANGED <<locked, prompt>>
  BY DEF Becomes, serviceVars
<1>2. /\ cmd'[c] = u /\ prompt'[c] = prompt[c] /\ request'[c] = r
      /\ \A d \in Cmd \ {c} : SameFor(d)
  BY <1>1 DEF SameFor, IInv, TypeOK
<1>3. \A n \in Reply : ~Unread(inbox'[c], n)
  BY DEF NoReply, Unread
<1>4. AwaitsOne(c)'
  BY <1>2 DEF AwaitsOne, Call
<1>5. PromptShape(c)'
  BY <1>2, <1>3 DEF PromptShape, Call, Reply
<1>6. HearsTheUser(c)'
  BY <1>2, NoneIsFresh DEF HearsTheUser
<1>7. KnowsTheTruth(c)'
  <2>1. \A n : Fulfils(c, n)' => n \in Reply
    BY DEF Fulfils, Reply
  <2>2. QED
    BY <1>2, <1>3, <2>1, NoneIsFresh DEF KnowsTheTruth
<1>8. /\ locked' \in BOOLEAN
      /\ prompt' \in [Cmd -> {"none", "made", "shown", "lost"} \union Verdict]
      /\ request' \in [Cmd -> Call \union {"none", "shown"}]
      /\ cmd' \in [Cmd -> Command] /\ (cmd'[c].pc = "ended" <=> cmd'[c].result # None)
  BY <1>1, <1>2 DEF IInv, TypeOK, Call
<1>9. QED
  BY <1>2, <1>4, <1>5, <1>6, <1>7, <1>8, OneStep DEF Shape

\* What the invariant says of one command.
LEMMA ShapeOf ==
  ASSUME IInv, NEW c \in Cmd
  PROVE  AwaitsOne(c) /\ PromptShape(c) /\ HearsTheUser(c) /\ KnowsTheTruth(c)
BY DEF IInv, Shape

LEMMA StartStep ==
  ASSUME IInv, Observe, NEW c \in Cmd, Start(c)
  PROVE  IInv'
<1>1. /\ cmd[c].pc = "idle" /\ UNCHANGED inbox /\ inbox \in [Cmd -> Seq(Message)]
      /\ cmd[c] \in Command /\ cmd[c].result = None
  BY TypesOf DEF Start, IInv, TypeOK, Message
<1>2. /\ request[c] = "none" /\ NoReply(inbox[c]) /\ ~cmd[c].hears /\ cmd[c].heard = None
      /\ prompt[c] = "none" /\ NoVerdict(inbox[c])
  BY <1>1, ShapeOf DEF AwaitsOne, PromptShape, HearsTheUser, Call, Verdict
<1>3. CASE Exit(c, 1)
  BY <1>1, <1>2, <1>3, ExitStep
<1>4. ASSUME NEW b \in BOOLEAN, Calls(c, "change", [cmd[c] EXCEPT !.lock = b]) PROVE IInv'
  <2> DEFINE u == [[cmd[c] EXCEPT !.lock = b] EXCEPT !.pc = "change"]
  <2>1. /\ u \in Command /\ u.pc = "change" /\ ~u.hears /\ u.heard = None /\ u.result = None
    BY <1>1, <1>2 DEF Command, Call
  <2>2. Becomes(c, u) /\ request' = [request EXCEPT ![c] = "change"]
    BY <1>4 DEF Calls
  <2> HIDE DEF u
  <2>3. QED
    BY <1>1, <1>2, <2>1, <2>2, AwaitStep DEF Call, Verdict
<1>5. QED
  BY <1>3, <1>4 DEF Start

LEMMA ChangedStep ==
  ASSUME IInv, Observe, NEW c \in Cmd, Changed(c)
  PROVE  IInv'
<1> DEFINE u == [cmd[c] EXCEPT !.pc = "get"]
<1>1. Reads(c, "change", "ok") /\ Becomes(c, u) /\ request' = [request EXCEPT ![c] = "get"]
  BY DEF Changed, Calls
<1>2. cmd[c] \in Command /\ cmd[c].pc = "change" /\ cmd[c].result = None
  BY <1>1, TypesOf DEF Reads
<1>3. /\ prompt[c] = "none" /\ ~cmd[c].hears /\ cmd[c].heard = None /\ NoVerdict(inbox[c])
  BY <1>1, <1>2, ReadsOne, ShapeOf DEF PromptShape, HearsTheUser, Verdict
<1>4. /\ u \in Command /\ u.pc = "get" /\ ~u.hears /\ u.heard = None /\ u.result = None
  BY <1>2, <1>3 DEF Command, Call
<1> HIDE DEF u
<1>5. /\ inbox' \in [Cmd -> Seq(Message)] /\ (\A d \in Cmd \ {c} : inbox'[d] = inbox[d])
      /\ NoReply(inbox'[c]) /\ NoVerdict(inbox'[c])
  BY <1>1, <1>3, ReadsOne DEF Reply
<1>6. QED
  BY <1>1, <1>3, <1>4, <1>5, AwaitStep DEF Call, Verdict

\* run_prompt listens before the service may show the prompt.
LEMMA PromptsStep ==
  ASSUME IInv, Observe, NEW c \in Cmd, Prompts(c)
  PROVE  IInv'
<1>0. cmd[c] \in Command /\ (cmd[c].pc = "ended" <=> cmd[c].result # None)
  BY TypesOf
<1>1. CASE Reads(c, "change", "prompt") /\ Calls(c, "prompt", [cmd[c] EXCEPT !.hears = TRUE])
  <2> DEFINE u == [[cmd[c] EXCEPT !.hears = TRUE] EXCEPT !.pc = "prompt"]
  <2>1. cmd[c].pc = "change" /\ cmd[c].result = None /\ Becomes(c, u)
        /\ request' = [request EXCEPT ![c] = "prompt"]
    BY <1>0, <1>1 DEF Reads, Calls
  <2>2. /\ prompt[c] \notin Verdict /\ cmd[c].heard = None /\ NoVerdict(inbox[c])
    BY <2>1, ShapeOf DEF PromptShape, HearsTheUser, Verdict
  <2>3. /\ u \in Command /\ u.pc = "prompt" /\ u.hears /\ u.heard = None /\ u.result = None
    BY <1>0, <2>1, <2>2 DEF Command, Call
  <2> HIDE DEF u
  <2>4. /\ inbox' \in [Cmd -> Seq(Message)] /\ (\A d \in Cmd \ {c} : inbox'[d] = inbox[d])
        /\ NoReply(inbox'[c]) /\ NoVerdict(inbox'[c])
    BY <1>1, <2>2, ReadsOne DEF Reply
  <2>5. QED
    BY <2>1, <2>2, <2>3, <2>4, AwaitStep DEF Call
<1>2. CASE Reads(c, "prompt", "ok") /\ UNCHANGED request
             /\ Becomes(c, [cmd[c] EXCEPT !.pc = "completed"])
  <2> DEFINE u == [cmd[c] EXCEPT !.pc = "completed"]
  <2>1. cmd[c].pc = "prompt" /\ cmd[c].result = None /\ Becomes(c, u) /\ cmd[c].hears
    BY <1>0, <1>2, ShapeOf DEF Reads, PromptShape
  <2>2. /\ u \in Command /\ u.pc = "completed" /\ u.hears /\ u.heard = cmd[c].heard
        /\ u.result = None
    BY <1>0, <2>1 DEF Command
  <2> HIDE DEF u
  <2>3. /\ inbox' \in [Cmd -> Seq(Message)] /\ (\A d \in Cmd \ {c} : inbox'[d] = inbox[d])
        /\ NoReply(inbox'[c]) /\ request[c] = "none"
        /\ NoVerdict(inbox[c]) => NoVerdict(inbox'[c])
        /\ \A v \in Verdict : FirstTells(inbox[c], v) => FirstTells(inbox'[c], v)
    BY <1>2, ReadsOne DEF Reply, Verdict
  <2>4. request' = [request EXCEPT ![c] = "none"]
    BY <1>2, <2>3 DEF IInv, TypeOK
  <2>5. QED
    BY <2>1, <2>2, <2>3, <2>4, ShapeOf, AwaitStep DEF HearsTheUser
<1>3. QED
  BY <1>1, <1>2 DEF Prompts

\* The first signal that is heard tells what the user did.
LEMMA OnCompletedStep ==
  ASSUME IInv, Observe, NEW c \in Cmd, OnCompleted(c)
  PROVE  IInv'
<1>1. PICK v \in Verdict :
        /\ Reads(c, cmd[c].pc, v)
        /\ Becomes(c, IF cmd[c].hears THEN [cmd[c] EXCEPT !.heard = Takes(c, v)] ELSE cmd[c])
        /\ UNCHANGED request
  BY DEF OnCompleted
<1> DEFINE h == IF cmd[c].hears THEN Takes(c, v) ELSE cmd[c].heard
           u == [cmd[c] EXCEPT !.heard = h]
<1>2. /\ cmd[c] \in Command /\ cmd[c].pc # "ended" /\ cmd[c].result = None
      /\ AwaitsOne(c) /\ PromptShape(c) /\ HearsTheUser(c) /\ KnowsTheTruth(c)
      /\ prompt[c] \in Verdict
  BY <1>1, TypesOf, ShapeOf, ReadsOne
<1>3. h \in Verdict \union {None}
  BY <1>2 DEF Takes, Command
<1>4. /\ u \in Command /\ u.pc = cmd[c].pc /\ u.lock = cmd[c].lock /\ u.hears = cmd[c].hears
      /\ u.heard = h /\ u.result = None
  BY <1>2, <1>3 DEF Command
<1>5. cmd' = [cmd EXCEPT ![c] = u]
  <2>1. CASE cmd[c].hears
    BY <1>1, <2>1 DEF Becomes
  <2>2. CASE ~cmd[c].hears
    <3>1. u = cmd[c]
      BY <1>2, <2>2 DEF Command
    <3>2. QED
      BY <1>1, <2>2, <3>1 DEF Becomes
  <2>3. QED
    BY <2>1, <2>2
<1>6. /\ cmd[c].hears => h = prompt[c]
      /\ ~cmd[c].hears => h = cmd[c].heard
      /\ h = None \/ h = prompt[c]
  <2>1. cmd[c].hears /\ cmd[c].heard = None => v = prompt[c]
    BY <1>1, <1>2, ReadsOne DEF HearsTheUser
  <2>2. QED
    BY <1>2, <2>1 DEF Takes, HearsTheUser
<1> HIDE DEF h, u
<1>7. /\ inbox' \in [Cmd -> Seq(Message)] /\ (\A d \in Cmd \ {c} : inbox'[d] = inbox[d])
      /\ NoReply(inbox[c]) => NoReply(inbox'[c])
      /\ OneReply(inbox[c]) => OneReply(inbox'[c])
      /\ \A n : Unread(inbox'[c], n) => Unread(inbox[c], n)
  BY <1>1, ReadsOne
<1>8. /\ cmd'[c] = u /\ prompt'[c] = prompt[c] /\ request'[c] = request[c]
      /\ UNCHANGED <<locked, prompt>> /\ \A d \in Cmd \ {c} : SameFor(d)
  BY <1>1, <1>5, <1>7 DEF Becomes, serviceVars, SameFor, IInv, TypeOK
<1>9. AwaitsOne(c)'
  BY <1>2, <1>4, <1>7, <1>8 DEF AwaitsOne
<1>10. PromptShape(c)'
  BY <1>2, <1>4, <1>6, <1>7, <1>8, NoneIsFresh DEF PromptShape, Verdict
<1>11. HearsTheUser(c)'
  BY <1>2, <1>4, <1>6, <1>8, NoneIsFresh DEF HearsTheUser
<1>12. KnowsTheTruth(c)'
  <2>1. \A n : Fulfils(c, n)' <=> Fulfils(c, n)
    BY <1>4, <1>8 DEF Fulfils
  <2>2. c \in matched => c \in matched'
    BY <1>4, <1>8, MatchedStays
  <2>3. QED
    BY <1>2, <1>4, <1>7, <1>8, <2>1, <2>2, NoneIsFresh DEF KnowsTheTruth
<1>13. /\ locked' \in BOOLEAN
       /\ prompt' \in [Cmd -> {"none", "made", "shown", "lost"} \union Verdict]
       /\ request' \in [Cmd -> Call \union {"none", "shown"}]
       /\ cmd' \in [Cmd -> Command] /\ (cmd'[c].pc = "ended" <=> cmd'[c].result # None)
  BY <1>1, <1>2, <1>4, <1>5, <1>8 DEF IInv, TypeOK
<1>14. QED
  BY <1>7, <1>8, <1>9, <1>10, <1>11, <1>12, <1>13, OneStep DEF Shape

LEMMA CompletedStep ==
  ASSUME IInv, Observe, NEW c \in Cmd, Completed(c)
  PROVE  IInv'
<1>1. /\ cmd[c].pc = "completed" /\ cmd[c].heard # None /\ UNCHANGED inbox
      /\ inbox \in [Cmd -> Seq(Message)] /\ cmd[c] \in Command /\ cmd[c].result = None
  BY TypesOf DEF Completed, IInv, TypeOK, Message
<1>2. request[c] = "none" /\ NoReply(inbox[c]) /\ prompt[c] = cmd[c].heard /\ prompt[c] \in Verdict
  BY <1>1, ShapeOf DEF AwaitsOne, HearsTheUser, Call
<1>3. CASE Exit(c, 1)
  BY <1>1, <1>2, <1>3, ExitStep
<1>4. CASE cmd[c].heard # "odd" /\ Calls(c, "get", [cmd[c] EXCEPT !.hears = FALSE])
  <2> DEFINE u == [[cmd[c] EXCEPT !.hears = FALSE] EXCEPT !.pc = "get"]
  <2>1. /\ u \in Command /\ u.pc = "get" /\ ~u.hears /\ u.heard = cmd[c].heard /\ u.result = None
    BY <1>1 DEF Command, Call
  <2>2. Becomes(c, u) /\ request' = [request EXCEPT ![c] = "get"]
    BY <1>4 DEF Calls
  <2>3. prompt[c] \in {"done", "dismissed"}
    BY <1>2, <1>4 DEF Verdict
  <2> HIDE DEF u
  <2>4. QED
    BY <1>1, <1>2, <2>1, <2>2, <2>3, AwaitStep DEF Call
<1>5. QED
  BY <1>3, <1>4 DEF Completed

\* The exit code is 0 for a reply that grants the wish, 2 for a prompt that was dismissed.
LEMMA FinishesStep ==
  ASSUME IInv, Observe, NEW c \in Cmd, Finishes(c)
  PROVE  IInv'
<1>1. PICK m \in {"locked", "unlocked"} :
        Reads(c, "get", m) /\ Exit(c, ExitCode(c, m = "locked"))
  BY DEF Finishes
<1> DEFINE r == ExitCode(c, m = "locked")
<1>2. /\ r \in {0, 1, 2}
      /\ r = 2 => cmd[c].heard = "dismissed"
      /\ r = 0 => cmd[c].heard # "dismissed" /\ (m = "locked") = cmd[c].lock
  BY DEF ExitCode
<1> HIDE DEF r
<1>3. /\ inbox' \in [Cmd -> Seq(Message)] /\ (\A d \in Cmd \ {c} : inbox'[d] = inbox[d])
      /\ NoReply(inbox'[c]) /\ request[c] = "none" /\ cmd[c].pc = "get" /\ m \in Message
      /\ Unread(inbox[c], m) /\ (NoVerdict(inbox[c]) => NoVerdict(inbox'[c]))
  BY <1>1, ReadsOne DEF Reply
<1>4. r = 2 => prompt[c] = "dismissed"
  BY <1>2, ShapeOf, NoneIsFresh DEF HearsTheUser, Verdict
<1>5. r = 0 => prompt[c] \in {"none", "done"}
  BY <1>2, <1>3, ShapeOf DEF PromptShape, HearsTheUser
<1>6. r = 0 => c \in matched
  <2>1. cmd[c].lock \in BOOLEAN
    BY TypesOf DEF Command
  <2>2. r = 0 => Fulfils(c, m)
    BY <1>2, <2>1 DEF Fulfils
  <2>3. QED
    BY <1>3, <2>2, ShapeOf DEF KnowsTheTruth
<1>7. prompt[c] \notin Verdict => NoVerdict(inbox'[c])
  BY <1>3, ShapeOf DEF HearsTheUser
<1>8. QED
  BY <1>1, <1>2, <1>3, <1>4, <1>5, <1>6, <1>7, ExitStep DEF r

LEMMA FailsStep ==
  ASSUME IInv, Observe, NEW c \in Cmd, Fails(c)
  PROVE  IInv'
<1>1. Reads(c, cmd[c].pc, "error") /\ Exit(c, 1)
  BY DEF Fails
<1>2. /\ inbox' \in [Cmd -> Seq(Message)] /\ (\A d \in Cmd \ {c} : inbox'[d] = inbox[d])
      /\ NoReply(inbox'[c]) /\ request[c] = "none"
      /\ NoVerdict(inbox[c]) => NoVerdict(inbox'[c])
  BY <1>1, ReadsOne DEF Reply
<1>3. prompt[c] \notin Verdict => NoVerdict(inbox'[c])
  BY <1>2, ShapeOf DEF HearsTheUser
<1>4. QED
  BY <1>1, <1>2, <1>3, ExitStep

-------------------------------------------------------------------------------
(***************************************************************************)
(* The theorems.                                                           *)
(***************************************************************************)
LEMMA InitInv == Init => IInv
<1> SUFFICES ASSUME Init PROVE IInv
  OBVIOUS
<1>1. Unstarted \in Command
  BY DEF Unstarted, Command
<1>2. <<>> \in Seq(Reply \union Verdict) /\ Len(<<>>) = 0
  BY EmptySeq
<1>3. TypeOK
  BY <1>1, <1>2 DEF Init, TypeOK, Unstarted
<1>4. ASSUME NEW c \in Cmd PROVE Shape(c)
  <2>1. NoReply(inbox[c]) /\ NoVerdict(inbox[c])
    BY <1>2 DEF Init, NoReply, NoVerdict
  <2>2. AwaitsOne(c) /\ PromptShape(c)
    BY <2>1 DEF Init, Unstarted, AwaitsOne, PromptShape, Call
  <2>3. HearsTheUser(c) /\ KnowsTheTruth(c)
    BY <2>1, NoneIsFresh DEF Init, Unstarted, HearsTheUser, KnowsTheTruth, Verdict
  <2>4. QED
    BY <2>2, <2>3 DEF Shape
<1>5. QED
  BY <1>3, <1>4 DEF IInv

LEMMA StutterInv ==
  ASSUME IInv, UNCHANGED vars
  PROVE  IInv'
<1>1. TypeOK'
  BY DEF IInv, TypeOK, vars
<1>2. ASSUME NEW c \in Cmd PROVE Shape(c)'
  <2>1. AwaitsOne(c)' /\ PromptShape(c)' /\ HearsTheUser(c)'
    BY ShapeOf DEF AwaitsOne, PromptShape, HearsTheUser, vars
  <2>2. KnowsTheTruth(c)'
    BY ShapeOf DEF KnowsTheTruth, Fulfils, vars
  <2>3. QED
    BY <2>1, <2>2 DEF Shape
<1>3. QED
  BY <1>1, <1>2 DEF IInv

LEMMA NextInv ==
  ASSUME IInv, Next
  PROVE  IInv'
<1>1. Observe
  BY DEF Next
<1>2. ASSUME NEW c \in Cmd, Serves(c) \/ UserEnds(c) \/ Repeats(c) PROVE IInv'
  BY <1>1, <1>2, ServeStep, ServeGetStep, ShowPromptStep, UserStep DEF Serves
<1>3. ASSUME NEW c \in Cmd, Start(c) \/ Runs(c) \/ OnCompleted(c) PROVE IInv'
  BY <1>1, <1>3, StartStep, ChangedStep, PromptsStep, CompletedStep, FinishesStep, FailsStep,
     OnCompletedStep DEF Runs
<1>4. CASE OtherChanges \/ Crashes
  BY <1>1, <1>4, OtherChangesStep, CrashesStep
<1>5. QED
  BY <1>2, <1>3, <1>4 DEF Next

\* The inductive invariant holds in every state.
THEOREM KeyringInvariant == Spec => []IInv
<1>1. IInv /\ [Next]_vars => IInv'
  BY NextInv, StutterInv
<1>2. QED
  BY <1>1, InitInv, PTL DEF Spec

\* The service, its prompts and the commands keep their types.
THEOREM KeyringTypes == Spec => []TypeOK
<1>1. IInv => TypeOK
  BY DEF IInv
<1>2. QED
  BY <1>1, KeyringInvariant, PTL

\* A command that exits with 0 has seen its wish fulfilled after its own request and its
\* own prompt were over (change_lock_state).
THEOREM SuccessIsTrue == Spec => []ExitTellsTruth
<1>1. IInv => ExitTellsTruth
  BY DEF IInv, Shape, KnowsTheTruth, ExitTellsTruth
<1>2. QED
  BY <1>1, KeyringInvariant, PTL

\* A command reports what the user did with its own prompt, the first time Completed came,
\* whatever other commands prompt for (run_prompt).
THEOREM EachHearsItsOwnPrompt == Spec => []OwnVerdict
<1>1. IInv => OwnVerdict
  BY DEF IInv, Shape, HearsTheUser, OwnVerdict
<1>2. QED
  BY <1>1, KeyringInvariant, PTL
===============================================================================
