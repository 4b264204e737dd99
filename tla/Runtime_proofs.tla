-------------------------- MODULE Runtime_proofs --------------------------
(***************************************************************************)
(* Proofs about the authoritative runtime and the inventories that it      *)
(* changes. For any connections, interval, limit of the ids and            *)
(* capacities, a client that answers every request once is never           *)
(* disconnected for a wrong answer.  For any items, layout of slots,       *)
(* containers and counts, an inventory's slots hold real stacks, a drag    *)
(* keeps naming slots, the published events tell all of it, and items are  *)
(* only moved or dropped unless an operation may create or destroy them.   *)
(*                                                                         *)
(* Most operations on an inventory fold over slots. What a fold computes   *)
(* is defined by recursion over the set of indices; the first lemmas about *)
(* them show that a fold whose every step stays in a set ends in that set. *)
(* Items are counted as a set of units (a slot and a number within its     *)
(* stack), so that moving them is adding and taking away elements of       *)
(* finite sets.                                                            *)
(***************************************************************************)
EXTENDS AuthoritativeRuntime, Containers, FiniteSetTheorems, WellFoundedInduction,
        SequenceTheorems, TLAPS

(***************************************************************************)
(* The authoritative runtime.                                              *)
(***************************************************************************)

Command == [connection : Connection, body : PlayInput \cup {Register, Disconnect, Packet}]

TypesOK ==
  /\ commands \in Seq(Command)
  /\ registered \subseteq Connection
  /\ inputs \in [Connection -> Seq(PlayInput)]
  /\ connections \in [Connection -> State \cup {NoState}]
  /\ nextKeepAliveId \in KeepAliveId
  /\ outbox \in [Connection -> Seq(PlayOutput)]
  /\ session \in [Connection -> {"none", "open", "closing", "over"}]
  /\ asked \in [Connection -> Seq(KeepAliveId)]
  /\ lost \in [Connection -> BOOLEAN]

-----------------------------------------------------------------------------
(* Where the one exchange of a connection may be.                          *)
IsAnswer(m, c) == m.connection = c /\ m.body.type = "KeepAliveResponse"

NoAnswer(q, c) == \A i \in 1 .. Len(q) : ~IsAnswer(q[i], c)
OneAnswer(q, c, id) ==
  \E i \in 1 .. Len(q) : /\ IsAnswer(q[i], c) /\ q[i].body.id = id
                         /\ \A j \in 1 .. Len(q) : IsAnswer(q[j], c) => j = i

NoneOf(q, type) == \A i \in 1 .. Len(q) : q[i].type # type
OneOf(q, type, id) ==
  \E i \in 1 .. Len(q) : /\ q[i].type = type /\ q[i].id = id
                         /\ \A j \in 1 .. Len(q) : q[j].type = type => j = i

NoRequest(c) == NoneOf(outbox[c], "KeepAliveRequest")
NoneQueued(c) == NoneOf(inputs[c], "KeepAliveResponse")

Nowhere(c) == NoRequest(c) /\ asked[c] = <<>> /\ NoAnswer(commands, c) /\ NoneQueued(c)
InOutbox(c, id) ==
  /\ OneOf(outbox[c], "KeepAliveRequest", id)
  /\ asked[c] = <<>> /\ NoAnswer(commands, c) /\ NoneQueued(c)
AtClient(c, id) ==
  NoRequest(c) /\ asked[c] = <<id>> /\ NoAnswer(commands, c) /\ NoneQueued(c)
InChannel(c, id) ==
  NoRequest(c) /\ asked[c] = <<>> /\ OneAnswer(commands, c, id) /\ NoneQueued(c)
InQueue(c, id) ==
  /\ NoRequest(c) /\ asked[c] = <<>> /\ NoAnswer(commands, c)
  /\ OneOf(inputs[c], "KeepAliveResponse", id)

Somewhere(c, id) == InOutbox(c, id) \/ AtClient(c, id) \/ InChannel(c, id) \/ InQueue(c, id)

(* The exchange is somewhere only while the runtime waits for its answer,  *)
(* and nowhere, although it waits, only if a part was dropped.             *)
Exchange(c) ==
  \/ Nowhere(c) /\ (StateOf(c).pending => lost[c])
  \/ StateOf(c).pending /\ Somewhere(c, StateOf(c).request)

Exchanges == \A c \in Connection : session[c] = "open" => Exchange(c)

(* A connection that the hub has not heard of yet has nothing but commands *)
(* on their way, and nobody asks for the removal of one that is open.      *)
FreshOf(c) ==
  /\ session[c] = "none" =>
       c \notin registered /\ \A m \in Range(commands) : m.connection # c
  /\ session[c] \in {"none", "open"} /\ c \notin registered =>
       inputs[c] = <<>> /\ Nowhere(c) /\ ~StateOf(c).pending
  /\ session[c] = "open" =>
       \A m \in Range(commands) : m.connection = c => m.body # Disconnect

Fresh == \A c \in Connection : FreshOf(c)

(* What a disconnect for a wrong answer would put into an outbox.          *)
NobodyDisconnected == \A c \in Connection : Disconnect \notin Range(outbox[c])

RuntimeInv == TypesOK /\ Exchanges /\ Fresh /\ NobodyDisconnected

-----------------------------------------------------------------------------
(* What the messages are, by their types.                                  *)
LEMMA Messages ==
  /\ \A m \in PlayInput : /\ m.type = "KeepAliveResponse" => m.id \in KeepAliveId
                          /\ m.type \in {"ClientTickEnd", "Movement", "KeepAliveResponse"}
  /\ \A m \in PlayOutput : /\ m.type = "KeepAliveRequest" => m.id \in KeepAliveId
                           /\ m.type \in {"Disconnect", "Packet", "KeepAliveRequest"}
                           /\ m.type = "Disconnect" => m = Disconnect
                           /\ m.type = "Packet" => m = Packet
  /\ Disconnect.type = "Disconnect" /\ Packet.type = "Packet" /\ Register.type = "Register"
  /\ TickEnd.type = "ClientTickEnd" /\ Movement.type = "Movement"
  /\ \A id \in KeepAliveId :
       /\ Response(id).type = "KeepAliveResponse" /\ Response(id).id = id
       /\ Request(id).type = "KeepAliveRequest" /\ Request(id).id = id
       /\ Response(id) \in PlayInput /\ Request(id) \in PlayOutput
  /\ TickEnd \in PlayInput /\ Movement \in PlayInput
  /\ Disconnect \in PlayOutput /\ Packet \in PlayOutput
<1>1. /\ Disconnect.type = "Disconnect" /\ Packet.type = "Packet" /\ Register.type = "Register"
      /\ TickEnd.type = "ClientTickEnd" /\ Movement.type = "Movement"
      /\ TickEnd \in PlayInput /\ Movement \in PlayInput
      /\ Disconnect \in PlayOutput /\ Packet \in PlayOutput
  BY DEF PlayInput, PlayOutput, Disconnect, Packet, Register, TickEnd, Movement
<1>2. \A id : /\ Response(id).type = "KeepAliveResponse" /\ Response(id).id = id
              /\ Request(id).type = "KeepAliveRequest" /\ Request(id).id = id
  BY DEF Response, Request
<1>3. \A id \in KeepAliveId : Response(id) \in PlayInput /\ Request(id) \in PlayOutput
  BY DEF PlayInput, PlayOutput
<1>4. \A m \in PlayInput :
        m = TickEnd \/ m = Movement \/ \E id \in KeepAliveId : m = Response(id)
  BY DEF PlayInput
<1>5. \A m \in PlayOutput :
        m = Disconnect \/ m = Packet \/ \E id \in KeepAliveId : m = Request(id)
  BY DEF PlayOutput
<1> QED BY <1>1, <1>2, <1>3, <1>4, <1>5

(* The first of a sequence, and the rest.                                  *)
LEMMA FirstAndRest ==
  ASSUME NEW S, NEW q \in Seq(S), q # <<>>
  PROVE  /\ Len(q) \in Nat \ {0} /\ Head(q) = q[1] /\ Head(q) \in S
         /\ Tail(q) \in Seq(S) /\ Len(Tail(q)) = Len(q) - 1
         /\ \A i \in 1 .. Len(Tail(q)) : Tail(q)[i] = q[i + 1] /\ i + 1 \in 1 .. Len(q)
<1>1. Len(q) \in Nat \ {0} /\ Head(q) = q[1]
  BY EmptySeq
<1>2. Head(q) \in S /\ Tail(q) \in Seq(S) /\ Len(Tail(q)) = Len(q) - 1
      /\ \A i \in 1 .. Len(Tail(q)) : Tail(q)[i] = q[i + 1]
  BY HeadTailProperties
<1> QED BY <1>1, <1>2

LEMMA Appended ==
  ASSUME NEW S, NEW q \in Seq(S), NEW m \in S
  PROVE  /\ Append(q, m) \in Seq(S) /\ Len(Append(q, m)) = Len(q) + 1 /\ Len(q) \in Nat
         /\ Append(q, m)[Len(q) + 1] = m
         /\ \A i \in 1 .. Len(q) : Append(q, m)[i] = q[i]
OBVIOUS

LEMMA Contents ==
  ASSUME NEW S, NEW q \in Seq(S), NEW m \in S
  PROVE  /\ Range(Append(q, m)) = Range(q) \cup {m}
         /\ q # <<>> => Head(q) \in Range(q) /\ Range(Tail(q)) \subseteq Range(q)
         /\ \A x : x \in Range(q) <=> \E i \in 1 .. Len(q) : q[i] = x
<1>1. DOMAIN q = 1 .. Len(q) /\ \A x : x \in Range(q) <=> \E i \in 1 .. Len(q) : q[i] = x
  BY DEF Range
<1>2. \A x : x \in Range(Append(q, m)) <=> x \in Range(q) \/ x = m
  <2> DEFINE r == Append(q, m)
  <2>1. /\ r \in Seq(S) /\ Len(r) = Len(q) + 1 /\ Len(q) \in Nat
        /\ r[Len(q) + 1] = m /\ \A i \in 1 .. Len(q) : r[i] = q[i]
    BY Appended
  <2> HIDE DEF r
  <2>2. DOMAIN r = 1 .. Len(q) + 1
    BY <2>1
  <2>3. \A x : x \in Range(r) <=> \E i \in 1 .. Len(q) + 1 : r[i] = x
    BY <2>2 DEF Range
  <2> QED BY <1>1, <2>1, <2>3 DEF r
<1>3. ASSUME q # <<>> PROVE Head(q) \in Range(q) /\ Range(Tail(q)) \subseteq Range(q)
  <2> DEFINE r == Tail(q)
  <2>1. /\ Len(q) \in Nat \ {0} /\ Head(q) = q[1]
        /\ r \in Seq(S) /\ Len(r) = Len(q) - 1
        /\ \A i \in 1 .. Len(r) : r[i] = q[i + 1] /\ i + 1 \in 1 .. Len(q)
    BY <1>3, FirstAndRest
  <2> HIDE DEF r
  <2>2. \A x : x \in Range(r) => \E i \in 1 .. Len(r) : r[i] = x
    BY <2>1 DEF Range
  <2> QED BY <1>1, <2>1, <2>2 DEF r
<1> QED BY <1>1, <1>2, <1>3

(* A message of a type more, or one less.                                  *)
LEMMA TypedAppended ==
  ASSUME NEW S, NEW q \in Seq(S), NEW m \in S, NEW type, NEW id
  PROVE  /\ NoneOf(q, type) /\ m.type # type => NoneOf(Append(q, m), type)
         /\ NoneOf(q, type) /\ m.type = type /\ m.id = id => OneOf(Append(q, m), type, id)
         /\ OneOf(q, type, id) /\ m.type # type => OneOf(Append(q, m), type, id)
<1> DEFINE r == Append(q, m)
<1>1. /\ r \in Seq(S) /\ Len(r) = Len(q) + 1 /\ Len(q) \in Nat
      /\ r[Len(q) + 1] = m /\ \A i \in 1 .. Len(q) : r[i] = q[i]
  BY Appended
<1> HIDE DEF r
<1>2. \A i \in 1 .. Len(r) : i = Len(q) + 1 \/ i \in 1 .. Len(q)
  BY <1>1
<1>3. Len(q) + 1 \in 1 .. Len(r) /\ \A i \in 1 .. Len(q) : i \in 1 .. Len(r) /\ i # Len(q) + 1
  BY <1>1
<1>4. NoneOf(q, type) /\ m.type # type => NoneOf(r, type)
  BY <1>1, <1>2 DEF NoneOf
<1>5. NoneOf(q, type) /\ m.type = type /\ m.id = id => OneOf(r, type, id)
  BY <1>1, <1>2, <1>3 DEF NoneOf, OneOf
<1>6. OneOf(q, type, id) /\ m.type # type => OneOf(r, type, id)
  BY <1>1, <1>2, <1>3 DEF OneOf
<1> QED BY <1>4, <1>5, <1>6 DEF r

LEMMA TypedTaken ==
  ASSUME NEW S, NEW q \in Seq(S), q # <<>>, NEW type, NEW id
  PROVE  /\ NoneOf(q, type) => Head(q).type # type /\ NoneOf(Tail(q), type)
         /\ OneOf(q, type, id) /\ Head(q).type # type => OneOf(Tail(q), type, id)
         /\ OneOf(q, type, id) /\ Head(q).type = type =>
              Head(q).id = id /\ NoneOf(Tail(q), type)
<1> DEFINE r == Tail(q)
<1>1. /\ Len(q) \in Nat \ {0} /\ Head(q) = q[1]
      /\ r \in Seq(S) /\ Len(r) = Len(q) - 1
      /\ \A i \in 1 .. Len(r) : r[i] = q[i + 1] /\ i + 1 \in 1 .. Len(q)
  BY FirstAndRest
<1> HIDE DEF r
<1>2. 1 \in 1 .. Len(q) /\ \A i \in 1 .. Len(q) : i # 1 => i - 1 \in 1 .. Len(r) /\ q[i] = r[i - 1]
  BY <1>1
<1>3. NoneOf(q, type) => Head(q).type # type /\ NoneOf(r, type)
  BY <1>1, <1>2 DEF NoneOf
<1>4. ASSUME OneOf(q, type, id), Head(q).type # type PROVE OneOf(r, type, id)
  <2>1. PICK i \in 1 .. Len(q) : /\ q[i].type = type /\ q[i].id = id
                                 /\ \A j \in 1 .. Len(q) : q[j].type = type => j = i
    BY <1>4 DEF OneOf
  <2>2. i # 1
    BY <1>1, <1>4, <2>1
  <2>3. ASSUME NEW j \in 1 .. Len(r), r[j].type = type PROVE j = i - 1
    <3>1. j + 1 \in 1 .. Len(q) /\ q[j + 1].type = type
      BY <1>1, <2>3
    <3>2. j + 1 = i
      BY <2>1, <3>1
    <3> QED BY <3>2
  <2> QED BY <1>2, <2>1, <2>2, <2>3 DEF OneOf
<1>5. OneOf(q, type, id) /\ Head(q).type = type => Head(q).id = id /\ NoneOf(r, type)
  BY <1>1, <1>2 DEF OneOf, NoneOf
<1> QED BY <1>3, <1>4, <1>5 DEF r

(* The same of the answers in the channel.                                 *)
LEMMA AnswerAppended ==
  ASSUME NEW S, NEW q \in Seq(S), NEW m \in S, NEW c, NEW id
  PROVE  /\ NoAnswer(q, c) /\ ~IsAnswer(m, c) => NoAnswer(Append(q, m), c)
         /\ NoAnswer(q, c) /\ IsAnswer(m, c) /\ m.body.id = id => OneAnswer(Append(q, m), c, id)
         /\ OneAnswer(q, c, id) /\ ~IsAnswer(m, c) => OneAnswer(Append(q, m), c, id)
<1> DEFINE r == Append(q, m)
<1>1. /\ r \in Seq(S) /\ Len(r) = Len(q) + 1 /\ Len(q) \in Nat
      /\ r[Len(q) + 1] = m /\ \A i \in 1 .. Len(q) : r[i] = q[i]
  BY Appended
<1> HIDE DEF r
<1>2. \A i \in 1 .. Len(r) : i = Len(q) + 1 \/ i \in 1 .. Len(q)
  BY <1>1
<1>3. Len(q) + 1 \in 1 .. Len(r) /\ \A i \in 1 .. Len(q) : i \in 1 .. Len(r) /\ i # Len(q) + 1
  BY <1>1
<1>4. NoAnswer(q, c) /\ ~IsAnswer(m, c) => NoAnswer(r, c)
  BY <1>1, <1>2 DEF NoAnswer
<1>5. NoAnswer(q, c) /\ IsAnswer(m, c) /\ m.body.id = id => OneAnswer(r, c, id)
  BY <1>1, <1>2, <1>3 DEF NoAnswer, OneAnswer
<1>6. OneAnswer(q, c, id) /\ ~IsAnswer(m, c) => OneAnswer(r, c, id)
  BY <1>1, <1>2, <1>3 DEF OneAnswer
<1> QED BY <1>4, <1>5, <1>6 DEF r

LEMMA AnswerTaken ==
  ASSUME NEW S, NEW q \in Seq(S), q # <<>>, NEW c, NEW id
  PROVE  /\ NoAnswer(q, c) => ~IsAnswer(Head(q), c) /\ NoAnswer(Tail(q), c)
         /\ OneAnswer(q, c, id) /\ ~IsAnswer(Head(q), c) => OneAnswer(Tail(q), c, id)
         /\ OneAnswer(q, c, id) /\ IsAnswer(Head(q), c) =>
              Head(q).body.id = id /\ NoAnswer(Tail(q), c)
<1> DEFINE r == Tail(q)
<1>1. /\ Len(q) \in Nat \ {0} /\ Head(q) = q[1]
      /\ r \in Seq(S) /\ Len(r) = Len(q) - 1
      /\ \A i \in 1 .. Len(r) : r[i] = q[i + 1] /\ i + 1 \in 1 .. Len(q)
  BY FirstAndRest
<1> HIDE DEF r
<1>2. 1 \in 1 .. Len(q) /\ \A i \in 1 .. Len(q) : i # 1 => i - 1 \in 1 .. Len(r) /\ q[i] = r[i - 1]
  BY <1>1
<1>3. NoAnswer(q, c) => ~IsAnswer(Head(q), c) /\ NoAnswer(r, c)
  BY <1>1, <1>2 DEF NoAnswer
<1>4. ASSUME OneAnswer(q, c, id), ~IsAnswer(Head(q), c) PROVE OneAnswer(r, c, id)
  <2>1. PICK i \in 1 .. Len(q) : /\ IsAnswer(q[i], c) /\ q[i].body.id = id
                                 /\ \A j \in 1 .. Len(q) : IsAnswer(q[j], c) => j = i
    BY <1>4 DEF OneAnswer
  <2>2. i # 1
    BY <1>1, <1>4, <2>1
  <2>3. \A j \in 1 .. Len(r) : IsAnswer(r[j], c) => j = i - 1
    BY <1>1, <2>1
  <2> QED BY <1>2, <2>1, <2>2, <2>3 DEF OneAnswer
<1>5. OneAnswer(q, c, id) /\ IsAnswer(Head(q), c) => Head(q).body.id = id /\ NoAnswer(r, c)
  BY <1>1, <1>2 DEF OneAnswer, NoAnswer
<1> QED BY <1>3, <1>4, <1>5 DEF r

-----------------------------------------------------------------------------
(* A step that leaves the exchange of d alone: at most, commands of others *)
(* or without an answer come and go.                                       *)
Untouched(d) ==
  /\ outbox'[d] = outbox[d] /\ asked'[d] = asked[d] /\ inputs'[d] = inputs[d]
  /\ connections'[d] = connections[d] /\ (lost[d] => lost'[d])
  /\ NoAnswer(commands, d) => NoAnswer(commands', d)
  /\ \A id : OneAnswer(commands, d, id) => OneAnswer(commands', d, id)

LEMMA UntouchedKeeps ==
  ASSUME NEW d, Untouched(d)
  PROVE  /\ StateOf(d)' = StateOf(d)
         /\ Exchange(d) => Exchange(d)'
         /\ Nowhere(d) => Nowhere(d)'
         /\ ~StateOf(d).pending => ~StateOf(d)'.pending
<1> USE DEF Untouched
<1>1. StateOf(d)' = StateOf(d)
  BY DEF StateOf
<1>2. /\ NoRequest(d)' = NoRequest(d) /\ NoneQueued(d)' = NoneQueued(d)
      /\ Nowhere(d) => Nowhere(d)'
  BY DEF Nowhere, NoRequest, NoneQueued
<1>3. ASSUME NEW id, Somewhere(d, id) PROVE Somewhere(d, id)'
  BY <1>2, <1>3 DEF Somewhere, InOutbox, AtClient, InChannel, InQueue
<1> QED BY <1>1, <1>2, <1>3 DEF Exchange

LEMMA UntouchedIsFresh ==
  ASSUME NEW d, Untouched(d), FreshOf(d), session'[d] = session[d],
         d \in registered' <=> d \in registered,
         \A m \in Range(commands') : m.connection = d => m \in Range(commands)
  PROVE  FreshOf(d)'
BY UntouchedKeeps DEF FreshOf, Untouched

(* A command is submitted: the exchanges of all but its sender are left    *)
(* alone, and the sender's too unless it is an answer.                     *)
LEMMA Submitted ==
  ASSUME RuntimeInv, NEW c \in Connection,
         NEW body \in PlayInput \cup {Register, Disconnect, Packet}, Submit(c, body)
  PROVE  /\ commands' \in Seq(Command)
         /\ Range(commands') = Range(commands) \cup {[connection |-> c, body |-> body]}
         /\ \A d : d # c \/ body.type # "KeepAliveResponse" =>
              /\ NoAnswer(commands, d) => NoAnswer(commands', d)
              /\ \A id : OneAnswer(commands, d, id) => OneAnswer(commands', d, id)
         /\ body.type = "KeepAliveResponse" /\ NoAnswer(commands, c) =>
              OneAnswer(commands', c, body.id)
<1> DEFINE m == [connection |-> c, body |-> body]
<1>1. m \in Command /\ m.connection = c /\ m.body = body
  BY DEF Command
<1>2. commands \in Seq(Command) /\ commands' = Append(commands, m)
  BY DEF RuntimeInv, TypesOK, Submit
<1> HIDE DEF m
<1>3. \A d : ~IsAnswer(m, d) <=> d # c \/ body.type # "KeepAliveResponse"
  BY <1>1 DEF IsAnswer
<1> QED BY <1>1, <1>2, <1>3, Appended, Contents, AnswerAppended DEF m

(* A command is taken: its kind, and what it leaves alone.                 *)
LEMMA Taken ==
  ASSUME RuntimeInv, NEW types, Take(types)
  PROVE  /\ commands' \in Seq(Command) /\ Range(commands') \subseteq Range(commands)
         /\ Head(commands) \in Range(commands) /\ Sender \in Connection
         /\ Body \in PlayInput \cup {Register, Disconnect, Packet} /\ Body.type \in types
         /\ \A d : d # Sender \/ Body.type # "KeepAliveResponse" =>
              /\ NoAnswer(commands, d) => NoAnswer(commands', d)
              /\ \A id : OneAnswer(commands, d, id) => OneAnswer(commands', d, id)
         /\ Body.type = "KeepAliveResponse" =>
              /\ ~NoAnswer(commands, Sender)
              /\ \A id : OneAnswer(commands, Sender, id) =>
                   Body.id = id /\ NoAnswer(commands', Sender)
<1>1. commands \in Seq(Command) /\ commands # <<>> /\ commands' = Tail(commands)
      /\ Body.type \in types
  BY DEF RuntimeInv, TypesOK, Take, Body
<1>2. Head(commands) \in Command /\ commands' \in Seq(Command)
      /\ Head(commands) \in Range(commands) /\ Range(commands') \subseteq Range(commands)
  BY <1>1, FirstAndRest, Contents
<1>3. Sender \in Connection /\ Body \in PlayInput \cup {Register, Disconnect, Packet}
  BY <1>2 DEF Sender, Body, Command
<1>4. \A d : ~IsAnswer(Head(commands), d) <=> d # Sender \/ Body.type # "KeepAliveResponse"
  BY DEF IsAnswer, Sender, Body
<1>5. \A d, id : /\ NoAnswer(commands, d) =>
                    ~IsAnswer(Head(commands), d) /\ NoAnswer(commands', d)
                 /\ OneAnswer(commands, d, id) =>
                      IF IsAnswer(Head(commands), d)
                      THEN Head(commands).body.id = id /\ NoAnswer(commands', d)
                      ELSE OneAnswer(commands', d, id)
  BY <1>1, AnswerTaken
<1> QED BY <1>1, <1>2, <1>3, <1>4, <1>5 DEF Body

(* What an outbox is after an attempt to send m.                           *)
LEMMA MaybeAppended ==
  ASSUME NEW q \in Seq(PlayOutput), NEW m \in PlayOutput, NEW r,
         r = q \/ r = Append(q, m)
  PROVE  /\ Range(r) \subseteq Range(q) \cup {m}
         /\ \A type, id : m.type # type =>
              /\ NoneOf(q, type) => NoneOf(r, type)
              /\ OneOf(q, type, id) => OneOf(r, type, id)
<1>1. CASE r = q
  BY <1>1
<1>2. CASE r = Append(q, m)
  <2>1. Range(Append(q, m)) = Range(q) \cup {m}
    BY Contents
  <2>2. \A type, id : m.type # type =>
          /\ NoneOf(q, type) => NoneOf(Append(q, m), type)
          /\ OneOf(q, type, id) => OneOf(Append(q, m), type, id)
    BY TypedAppended
  <2> QED BY <1>2, <2>1, <2>2
<1> QED BY <1>1, <1>2

(* An output is sent: at most the outbox of an open, registered connection *)
(* grows, and only one that is not open is unregistered.                   *)
LEMMA OutputSent ==
  ASSUME RuntimeInv, NEW c \in Connection, NEW output \in PlayOutput, SendOutput(c, output)
  PROVE  /\ registered' # registered =>
              session[c] # "open" /\ registered' = registered \ {c}
         /\ outbox' \in [Connection -> Seq(PlayOutput)]
         /\ \A d \in Connection : d # c => outbox'[d] = outbox[d]
         /\ outbox'[c] = outbox[c] \/ outbox'[c] = Append(outbox[c], output)
         /\ c \in registered /\ session[c] = "open" =>
              outbox'[c] = IF Refused(c) THEN outbox[c] ELSE Append(outbox[c], output)
<1>0. outbox \in [Connection -> Seq(PlayOutput)] /\ outbox[c] \in Seq(PlayOutput)
      /\ Append(outbox[c], output) \in Seq(PlayOutput) /\ Len(outbox[c]) \in Nat
  BY Appended DEF RuntimeInv, TypesOK
<1>1. CASE c \notin registered
  BY <1>0, <1>1 DEF SendOutput
<1>2. CASE c \in registered /\ session[c] # "open"
  BY <1>0, <1>2 DEF SendOutput
<1>3. CASE c \in registered /\ session[c] = "open"
  <2>1. /\ registered' = registered
        /\ outbox' = [outbox EXCEPT ![c] =
             IF Len(outbox[c]) < OutputCapacity THEN Append(outbox[c], output) ELSE outbox[c]]
    BY <1>3 DEF SendOutput
  <2>2. Refused(c) <=> ~(Len(outbox[c]) < OutputCapacity)
    BY <1>0, <1>3, AuthoritativeRuntimeAssumption DEF Refused
  <2> QED BY <1>0, <1>3, <2>1, <2>2
<1> QED BY <1>1, <1>2, <1>3

-----------------------------------------------------------------------------
LEMMA InitRuntime == RuntimeInit => RuntimeInv
<1> SUFFICES ASSUME RuntimeInit PROVE RuntimeInv
  OBVIOUS
<1> USE DEF RuntimeInit
<1>1. TypesOK
  BY AuthoritativeRuntimeAssumption DEF TypesOK, KeepAliveId
<1>2. \A c \in Connection : Nowhere(c) /\ ~StateOf(c).pending
  BY DEF Nowhere, NoRequest, NoAnswer, NoneQueued, NoneOf, StateOf, DefaultState
<1>3. Range(commands) = {} /\ \A c \in Connection : Range(outbox[c]) = {}
  BY DEF Range
<1>4. Exchanges /\ Fresh /\ NobodyDisconnected
  BY <1>2, <1>3 DEF Exchanges, Fresh, FreshOf, NobodyDisconnected, Exchange
<1> QED BY <1>1, <1>4 DEF RuntimeInv

(* The types of an entry of the connections map, and of the next id.       *)
LEMMA StateTypes ==
  ASSUME RuntimeInv
  PROVE  /\ \A c \in Connection : StateOf(c) \in State
         /\ NextId \in KeepAliveId
         /\ \A c \in Connection : \A id : Acknowledge(StateOf(c), id) \in State
<1>1. DefaultState \in State
  BY AuthoritativeRuntimeAssumption DEF DefaultState, State
<1>2. \A c \in Connection : StateOf(c) \in State
  BY <1>1 DEF StateOf, RuntimeInv, TypesOK
<1>3. NextId \in KeepAliveId
  BY AuthoritativeRuntimeAssumption DEF NextId, KeepAliveId, RuntimeInv, TypesOK
<1>4. \A s \in State : [s EXCEPT !.pending = FALSE] \in State
  BY DEF State
<1> QED BY <1>2, <1>3, <1>4 DEF Acknowledge

(* Ingesting a registration.                                               *)
LEMMA RegisterPreserves ==
  ASSUME RuntimeInv, IngestRegister
  PROVE  RuntimeInv'
<1> USE DEF RuntimeInv
<1>1. /\ Take({"Register"}) /\ registered' = registered \cup {Sender}
      /\ UNCHANGED <<inputs, connections, nextKeepAliveId, ticking, outbox, session, asked, lost>>
  BY DEF IngestRegister
<1>2. /\ commands' \in Seq(Command) /\ Range(commands') \subseteq Range(commands)
      /\ Head(commands) \in Range(commands) /\ Sender \in Connection
      /\ \A d : Untouched(d)
  BY <1>1, Taken DEF Untouched
<1>3. TypesOK' /\ NobodyDisconnected'
  BY <1>1, <1>2 DEF TypesOK, NobodyDisconnected
<1>4. Exchanges'
  BY <1>1, <1>2, UntouchedKeeps DEF Exchanges
<1>5. Fresh'
  <2> SUFFICES ASSUME NEW d \in Connection PROVE FreshOf(d)'
    BY DEF Fresh
  <2>1. session[Sender] # "none" /\ FreshOf(d)
    BY <1>2 DEF Fresh, FreshOf, Sender
  <2>2. CASE d = Sender
    BY <1>1, <1>2, <2>1, <2>2 DEF FreshOf
  <2>3. CASE d # Sender
    BY <1>1, <1>2, <2>1, <2>3, UntouchedIsFresh
  <2> QED BY <2>2, <2>3
<1> QED BY <1>3, <1>4, <1>5

(* Ingesting a removal: its sender is not open.                            *)
LEMMA RemovalPreserves ==
  ASSUME RuntimeInv, IngestDisconnect
  PROVE  RuntimeInv'
<1> USE DEF RuntimeInv
<1>1. /\ Take({"Disconnect"}) /\ registered' = registered \ {Sender}
      /\ inputs' = [inputs EXCEPT ![Sender] = <<>>]
      /\ UNCHANGED <<connections, nextKeepAliveId, ticking, outbox, session, asked, lost>>
  BY DEF IngestDisconnect
<1>2. /\ commands' \in Seq(Command) /\ Range(commands') \subseteq Range(commands)
      /\ Head(commands) \in Range(commands) /\ Sender \in Connection
      /\ Body \in PlayInput \cup {Register, Disconnect, Packet} /\ Body.type = "Disconnect"
      /\ \A d : /\ NoAnswer(commands, d) => NoAnswer(commands', d)
                /\ \A id : OneAnswer(commands, d, id) => OneAnswer(commands', d, id)
  BY <1>1, Taken
<1>3. Body = Disconnect
  BY <1>2, Messages
<1>4. session[Sender] \notin {"none", "open"}
  BY <1>2, <1>3 DEF Fresh, FreshOf, Sender, Body
<1>5. TypesOK' /\ NobodyDisconnected'
  BY <1>1, <1>2 DEF TypesOK, NobodyDisconnected
<1>6. \A d \in Connection : d # Sender => Untouched(d)
  BY <1>1, <1>2 DEF TypesOK, Untouched
<1>7. Exchanges'
  BY <1>1, <1>4, <1>6, UntouchedKeeps DEF Exchanges
<1>8. Fresh'
  <2> SUFFICES ASSUME NEW d \in Connection PROVE FreshOf(d)'
    BY DEF Fresh
  <2>1. CASE d = Sender
    BY <1>1, <1>4, <2>1 DEF FreshOf
  <2>2. CASE d # Sender
    BY <1>1, <1>2, <1>6, <2>2, UntouchedIsFresh DEF Fresh
  <2> QED BY <2>1, <2>2
<1> QED BY <1>5, <1>7, <1>8

(* Ingesting an input: an answer goes on to the queue, or is lost.         *)
LEMMA InputPreserves ==
  ASSUME RuntimeInv, IngestInput
  PROVE  RuntimeInv'
<1> USE DEF RuntimeInv
<1>0. Take({"ClientTickEnd", "Movement", "KeepAliveResponse"})
  BY DEF IngestInput
<1> PICK c \in Connection : c = Sender
  BY <1>0, Taken
<1>1. /\ Take({"ClientTickEnd", "Movement", "KeepAliveResponse"})
      /\ \/ /\ c \in registered /\ inputs' = [inputs EXCEPT ![c] = Append(inputs[c], Body)]
            /\ lost' = lost
         \/ lost' = [lost EXCEPT ![c] = TRUE] /\ inputs' = inputs
      /\ UNCHANGED <<registered, connections, nextKeepAliveId, ticking, outbox, session, asked>>
  BY DEF IngestInput
<1>2. /\ commands' \in Seq(Command) /\ Range(commands') \subseteq Range(commands)
      /\ Head(commands) \in Range(commands) /\ c \in Connection
      /\ Body \in PlayInput \cup {Register, Disconnect, Packet}
      /\ Body.type \in {"ClientTickEnd", "Movement", "KeepAliveResponse"}
      /\ \A d : d # c \/ Body.type # "KeepAliveResponse" =>
           /\ NoAnswer(commands, d) => NoAnswer(commands', d)
           /\ \A id : OneAnswer(commands, d, id) => OneAnswer(commands', d, id)
      /\ Body.type = "KeepAliveResponse" =>
           /\ ~NoAnswer(commands, c)
           /\ \A id : OneAnswer(commands, c, id) => Body.id = id /\ NoAnswer(commands', c)
  BY <1>1, Taken
<1>3. Body \in PlayInput
  BY <1>2, Messages
<1>4. inputs[c] \in Seq(PlayInput) /\ Append(inputs[c], Body) \in Seq(PlayInput)
  BY <1>2, <1>3, Appended DEF TypesOK
<1>5. session[c] # "none"
  BY <1>2 DEF Fresh, FreshOf, Sender
<1>6. TypesOK' /\ NobodyDisconnected'
  BY <1>1, <1>2, <1>4 DEF TypesOK, NobodyDisconnected
<1>7. \A d \in Connection : d # c => Untouched(d)
  BY <1>1, <1>2 DEF Untouched, TypesOK
<1>8. ASSUME session[c] = "open", Exchange(c) PROVE Exchange(c)'
  <2>0. StateOf(c)' = StateOf(c) /\ NoRequest(c)' = NoRequest(c) /\ asked' = asked
    BY <1>1 DEF StateOf, NoRequest
  <2>1. CASE inputs' = inputs /\ lost' = [lost EXCEPT ![c] = TRUE]
    <3>1. CASE Body.type # "KeepAliveResponse"
      BY <1>1, <1>2, <1>8, <2>1, <3>1, UntouchedKeeps DEF Untouched, TypesOK
    <3>2. CASE Body.type = "KeepAliveResponse"
      <4>1. InChannel(c, StateOf(c).request)
        BY <1>2, <1>8, <3>2
           DEF Exchange, Nowhere, Somewhere, InOutbox, AtClient, InQueue
      <4>2. Nowhere(c)'
        BY <1>2, <2>0, <2>1, <3>2, <4>1 DEF InChannel, Nowhere, NoneQueued
      <4> QED BY <1>2, <2>1, <4>2 DEF Exchange, TypesOK
    <3> QED BY <3>1, <3>2
  <2>2. CASE inputs' = [inputs EXCEPT ![c] = Append(inputs[c], Body)] /\ lost' = lost
    <3>0. inputs'[c] = Append(inputs[c], Body)
      BY <1>2, <2>2 DEF TypesOK
    <3>1. CASE Body.type # "KeepAliveResponse"
      <4>1. /\ NoneQueued(c) => NoneQueued(c)'
            /\ \A id : OneOf(inputs[c], "KeepAliveResponse", id) =>
                 OneOf(inputs'[c], "KeepAliveResponse", id)
        BY <1>3, <1>4, <3>0, <3>1, TypedAppended DEF NoneQueued
      <4>2. /\ NoAnswer(commands, c) => NoAnswer(commands', c)
            /\ \A id : OneAnswer(commands, c, id) => OneAnswer(commands', c, id)
            /\ outbox' = outbox
        BY <1>1, <1>2, <3>1
      <4>3. Nowhere(c) => Nowhere(c)'
        BY <2>0, <4>1, <4>2 DEF Nowhere
      <4>4. ASSUME NEW id, Somewhere(c, id) PROVE Somewhere(c, id)'
        BY <2>0, <4>1, <4>2, <4>4 DEF Somewhere, InOutbox, AtClient, InChannel, InQueue
      <4> QED BY <1>8, <2>0, <2>2, <4>3, <4>4 DEF Exchange
    <3>2. CASE Body.type = "KeepAliveResponse"
      <4>1. InChannel(c, StateOf(c).request) /\ StateOf(c).pending
        BY <1>2, <1>8, <3>2
           DEF Exchange, Nowhere, Somewhere, InOutbox, AtClient, InQueue
      <4>2. Body.id = StateOf(c).request /\ NoAnswer(commands', c)
        BY <1>2, <3>2, <4>1 DEF InChannel
      <4>3. OneOf(inputs'[c], "KeepAliveResponse", StateOf(c).request)
        BY <1>3, <1>4, <3>0, <3>2, <4>1, <4>2, TypedAppended DEF InChannel, NoneQueued
      <4>4. InQueue(c, StateOf(c).request)'
        BY <2>0, <4>1, <4>2, <4>3 DEF InChannel, InQueue
      <4> QED BY <2>0, <4>1, <4>4 DEF Exchange, Somewhere
    <3> QED BY <3>1, <3>2
  <2> QED BY <1>1, <2>1, <2>2
<1>9. Exchanges'
  BY <1>1, <1>7, <1>8, UntouchedKeeps DEF Exchanges
<1>10. Fresh'
  <2> SUFFICES ASSUME NEW d \in Connection PROVE FreshOf(d)'
    BY DEF Fresh
  <2>0. FreshOf(d)
    BY DEF Fresh
  <2>1. ASSUME d = c, session[c] = "open", c \notin registered PROVE Untouched(c)
    <3>1. Nowhere(c)
      BY <2>0, <2>1 DEF FreshOf
    <3>2. Body.type # "KeepAliveResponse" /\ inputs' = inputs
      BY <1>1, <1>2, <2>1, <3>1 DEF Nowhere
    <3> QED BY <1>1, <1>2, <3>2 DEF Untouched, TypesOK
  <2>2. CASE d = c /\ session[c] = "open" /\ c \notin registered
    BY <1>1, <1>2, <2>0, <2>1, <2>2, UntouchedIsFresh
  <2>3. CASE d = c /\ ~(session[c] = "open" /\ c \notin registered)
    BY <1>1, <1>2, <1>5, <2>0, <2>3 DEF FreshOf
  <2>4. CASE d # c
    BY <1>1, <1>2, <1>7, <2>0, <2>4, UntouchedIsFresh
  <2> QED BY <2>2, <2>3, <2>4
<1> QED BY <1>6, <1>9, <1>10

(* An output of another thread goes on to the outbox.                      *)
LEMMA OutputPreserves ==
  ASSUME RuntimeInv, IngestOutput
  PROVE  RuntimeInv'
<1> USE DEF RuntimeInv
<1>0. Take({"Packet"})
  BY DEF IngestOutput
<1> PICK c \in Connection : c = Sender
  BY <1>0, Taken
<1>1. /\ commands' \in Seq(Command) /\ Range(commands') \subseteq Range(commands)
      /\ Body \in PlayInput \cup {Register, Disconnect, Packet} /\ Body.type = "Packet"
      /\ \A d : /\ NoAnswer(commands, d) => NoAnswer(commands', d)
                /\ \A id : OneAnswer(commands, d, id) => OneAnswer(commands', d, id)
      /\ UNCHANGED <<inputs, connections, nextKeepAliveId, ticking, session, asked, lost>>
  BY <1>0, Taken DEF IngestOutput
<1>2. Body = Packet /\ Packet \in PlayOutput /\ Packet.type = "Packet"
  BY <1>1, Messages
<1>3. SendOutput(c, Packet)
  BY <1>2 DEF IngestOutput
<1>4. /\ registered' # registered => session[c] # "open" /\ registered' = registered \ {c}
      /\ outbox' \in [Connection -> Seq(PlayOutput)]
      /\ \A d \in Connection : d # c => outbox'[d] = outbox[d]
      /\ outbox'[c] = outbox[c] \/ outbox'[c] = Append(outbox[c], Packet)
  BY <1>2, <1>3, OutputSent
<1>5. TypesOK'
  BY <1>1, <1>4 DEF TypesOK
<1>6. NobodyDisconnected'
  <2>1. Range(outbox'[c]) \subseteq Range(outbox[c]) \cup {Packet}
    <3>1. outbox[c] \in Seq(PlayOutput)
      BY DEF TypesOK
    <3> QED BY <1>2, <1>4, <3>1, MaybeAppended
  <2> QED BY <1>4, <2>1, Messages DEF NobodyDisconnected
<1>7. \A d \in Connection : d # c => Untouched(d)
  BY <1>1, <1>4 DEF Untouched, TypesOK
<1>8. /\ NoRequest(c) => NoRequest(c)'
      /\ \A id : OneOf(outbox[c], "KeepAliveRequest", id) =>
                  OneOf(outbox'[c], "KeepAliveRequest", id)
  <2>1. outbox[c] \in Seq(PlayOutput) /\ Packet.type # "KeepAliveRequest"
    BY <1>2 DEF TypesOK
  <2> QED BY <1>2, <1>4, <2>1, MaybeAppended DEF NoRequest
<1>9. /\ StateOf(c)' = StateOf(c) /\ asked'[c] = asked[c] /\ NoneQueued(c)' = NoneQueued(c)
      /\ lost'[c] = lost[c] /\ inputs'[c] = inputs[c]
  BY <1>1 DEF StateOf, NoneQueued
<1>10. /\ Nowhere(c) => Nowhere(c)'
       /\ Exchange(c) => Exchange(c)'
  <2>1. Nowhere(c) => Nowhere(c)'
    BY <1>1, <1>8, <1>9 DEF Nowhere
  <2>2. ASSUME NEW id, Somewhere(c, id) PROVE Somewhere(c, id)'
    BY <1>1, <1>8, <1>9, <2>2 DEF Somewhere, InOutbox, AtClient, InChannel, InQueue
  <2> QED BY <1>9, <2>1, <2>2 DEF Exchange
<1>11. Exchanges'
  BY <1>1, <1>7, <1>10, UntouchedKeeps DEF Exchanges
<1>12. Fresh'
  <2> SUFFICES ASSUME NEW d \in Connection PROVE FreshOf(d)'
    BY DEF Fresh
  <2>0. FreshOf(d)
    BY DEF Fresh
  <2>1. CASE d = c
    <3>1. session[c] # "none"
      BY <1>0, Taken DEF Fresh, FreshOf, Sender
    <3> QED BY <1>1, <1>4, <1>9, <1>10, <2>0, <2>1, <3>1 DEF FreshOf
  <2>2. CASE d # c
    BY <1>1, <1>4, <1>7, <2>0, <2>2, UntouchedIsFresh
  <2> QED BY <2>1, <2>2
<1> QED BY <1>5, <1>6, <1>11, <1>12

(* Whoever the hub does not know loses its entry.                          *)
LEMMA ForgetPreserves ==
  ASSUME RuntimeInv, EndIngest
  PROVE  RuntimeInv'
<1> USE DEF RuntimeInv
<1>1. /\ connections' = [c \in Connection |->
            IF c \in registered THEN connections[c] ELSE NoState]
      /\ UNCHANGED <<commands, registered, inputs, nextKeepAliveId, outbox, session, asked, lost>>
  BY DEF EndIngest, ForgetUnregistered
<1>2. TypesOK' /\ NobodyDisconnected'
  BY <1>1 DEF TypesOK, NobodyDisconnected
<1>3. \A d \in registered : Untouched(d)
  BY <1>1 DEF Untouched, TypesOK
<1>4. ASSUME NEW d \in Connection, d \notin registered
      PROVE  /\ ~StateOf(d)'.pending
             /\ Nowhere(d) => Nowhere(d)'
  BY <1>1, <1>4 DEF StateOf, DefaultState, Nowhere, NoRequest, NoneQueued
<1>5. Exchanges'
  BY <1>1, <1>3, <1>4, UntouchedKeeps DEF Exchanges, Fresh, FreshOf, Exchange
<1>6. Fresh'
  BY <1>1, <1>3, <1>4, UntouchedIsFresh DEF Fresh, FreshOf
<1> QED BY <1>2, <1>5, <1>6

(* Steps of the owner that concern no connection that is followed.         *)
LEMMA OwnerRestPreserves ==
  ASSUME RuntimeInv, EndTicks \/ AskOther
  PROVE  RuntimeInv'
<1> USE DEF RuntimeInv
<1>1. /\ UNCHANGED <<commands, registered, inputs, connections, outbox, session, asked, lost>>
      /\ nextKeepAliveId' \in KeepAliveId
  BY StateTypes DEF EndTicks, AskOther, TypesOK
<1>2. TypesOK' /\ NobodyDisconnected'
  BY <1>1 DEF TypesOK, NobodyDisconnected
<1>3. \A d : Untouched(d)
  BY <1>1 DEF Untouched
<1>4. Exchanges' /\ Fresh'
  BY <1>1, <1>3, UntouchedKeeps, UntouchedIsFresh DEF Exchanges, Fresh
<1> QED BY <1>2, <1>4

(* A tick takes an input of c: c is registered or on its way out, and the  *)
(* rest of its queue stays.                                                *)
LEMMA InputTaken ==
  ASSUME RuntimeInv, NEW c \in Connection, NEW type, TakeInput(c, type)
  PROVE  /\ session[c] # "none" /\ (session[c] = "open" => c \in registered)
         /\ inputs' \in [Connection -> Seq(PlayInput)] /\ Head(inputs[c]) \in PlayInput
         /\ \A d \in Connection : d # c => inputs'[d] = inputs[d]
         /\ type # "KeepAliveResponse" =>
              /\ NoneQueued(c) => NoneQueued(c)'
              /\ \A id : OneOf(inputs[c], "KeepAliveResponse", id) =>
                          OneOf(inputs'[c], "KeepAliveResponse", id)
         /\ type = "KeepAliveResponse" =>
              /\ ~NoneQueued(c)
              /\ \A id : OneOf(inputs[c], "KeepAliveResponse", id) =>
                          Head(inputs[c]).id = id /\ NoneQueued(c)'
<1>1. /\ inputs[c] \in Seq(PlayInput) /\ inputs[c] # <<>> /\ Head(inputs[c]).type = type
      /\ inputs' = [inputs EXCEPT ![c] = Tail(inputs[c])]
      /\ inputs \in [Connection -> Seq(PlayInput)]
  BY DEF RuntimeInv, TypesOK, TakeInput
<1>2. session[c] # "none" /\ (session[c] = "open" => c \in registered)
  BY <1>1 DEF RuntimeInv, Fresh, FreshOf
<1>3. Head(inputs[c]) \in PlayInput /\ Tail(inputs[c]) \in Seq(PlayInput)
      /\ inputs'[c] = Tail(inputs[c])
  BY <1>1, FirstAndRest
<1>4. /\ NoneQueued(c) => type # "KeepAliveResponse" /\ NoneQueued(c)'
      /\ \A id : OneOf(inputs[c], "KeepAliveResponse", id) =>
           IF type = "KeepAliveResponse"
           THEN Head(inputs[c]).id = id /\ NoneQueued(c)'
           ELSE OneOf(inputs'[c], "KeepAliveResponse", id)
  BY <1>1, <1>3, TypedTaken DEF NoneQueued
<1> QED BY <1>1, <1>2, <1>3, <1>4

(* What remains to be shown of a tick's handler: the exchange of c itself. *)
LEMMA HandlerPreserves ==
  ASSUME RuntimeInv, NEW c \in Connection, NEW type, TakeInput(c, type), TypesOK',
         UNCHANGED <<commands, session, asked>>,
         registered' # registered => session[c] # "open" /\ registered' = registered \ {c},
         \A d \in Connection : d # c => /\ outbox'[d] = outbox[d] /\ lost'[d] = lost[d]
                                       /\ connections'[d] = connections[d],
         Disconnect \notin Range(outbox'[c]),
         session[c] = "open" => Exchange(c)'
  PROVE  RuntimeInv'
<1> USE DEF RuntimeInv
<1>1. /\ session[c] # "none" /\ (session[c] = "open" => c \in registered)
      /\ \A d \in Connection : d # c => inputs'[d] = inputs[d]
  BY InputTaken
<1>2. \A d \in Connection : d # c => Untouched(d)
  BY <1>1 DEF Untouched
<1>3. Exchanges'
  BY <1>2, UntouchedKeeps DEF Exchanges
<1>4. Fresh'
  <2> SUFFICES ASSUME NEW d \in Connection PROVE FreshOf(d)'
    BY DEF Fresh
  <2>0. FreshOf(d)
    BY DEF Fresh
  <2>1. CASE d = c
    BY <1>1, <2>0, <2>1 DEF FreshOf
  <2>2. CASE d # c
    BY <1>2, <2>0, <2>2, UntouchedIsFresh
  <2> QED BY <2>1, <2>2
<1>5. NobodyDisconnected'
  BY DEF NobodyDisconnected
<1> QED BY <1>3, <1>4, <1>5

(* A movement.                                                             *)
LEMMA MovementPreserves ==
  ASSUME RuntimeInv, NEW c \in Connection, ExecuteMovement(c)
  PROVE  RuntimeInv'
<1>1. /\ TakeInput(c, "Movement") /\ connections' = [connections EXCEPT ![c] = StateOf(c)]
      /\ UNCHANGED <<commands, registered, nextKeepAliveId, ticking, outbox, session, asked, lost>>
  BY DEF ExecuteMovement
<1>2. TypesOK'
  BY <1>1, InputTaken, StateTypes DEF RuntimeInv, TypesOK
<1>3. connections'[c] = StateOf(c) /\ StateOf(c)' = StateOf(c)
  BY <1>1 DEF StateOf, RuntimeInv, TypesOK
<1>4. ASSUME session[c] = "open" PROVE Exchange(c)'
  <2>1. /\ NoneQueued(c) => NoneQueued(c)'
        /\ \A id : OneOf(inputs[c], "KeepAliveResponse", id) =>
                    OneOf(inputs'[c], "KeepAliveResponse", id)
        /\ NoRequest(c)' = NoRequest(c)
    BY <1>1, InputTaken DEF NoRequest
  <2>2. Nowhere(c) => Nowhere(c)'
    BY <1>1, <2>1 DEF Nowhere
  <2>3. ASSUME NEW id, Somewhere(c, id) PROVE Somewhere(c, id)'
    BY <1>1, <2>1, <2>3 DEF Somewhere, InOutbox, AtClient, InChannel, InQueue
  <2> QED BY <1>1, <1>3, <1>4, <2>2, <2>3 DEF RuntimeInv, Exchanges, Exchange
<1>5. \A d \in Connection : d # c => connections'[d] = connections[d]
  BY <1>1 DEF RuntimeInv, TypesOK
<1> QED BY <1>1, <1>2, <1>4, <1>5, HandlerPreserves DEF RuntimeInv, NobodyDisconnected

(* The end of a client tick: a request goes out only while none is under   *)
(* way, and a refused one is recorded as lost.                             *)
LEMMA TickEndPreserves ==
  ASSUME RuntimeInv, NEW c \in Connection, ExecuteTickEnd(c)
  PROVE  RuntimeInv'
<1> DEFINE s == [StateOf(c) EXCEPT !.ticks = IF @ < KeepAliveInterval THEN @ + 1 ELSE @]
           asking == [pending |-> TRUE, request |-> nextKeepAliveId, ticks |-> 0]
           request == Request(nextKeepAliveId)
<1>0. /\ TakeInput(c, "ClientTickEnd") /\ UNCHANGED <<commands, ticking, session, asked>>
      /\ IF Due(s)
         THEN /\ connections' = [connections EXCEPT ![c] = asking]
              /\ nextKeepAliveId' = NextId /\ SendOutput(c, request)
              /\ lost' = [lost EXCEPT ![c] = @ \/ Refused(c)]
         ELSE /\ connections' = [connections EXCEPT ![c] = s]
              /\ UNCHANGED <<nextKeepAliveId, registered, outbox, lost>>
  BY DEF ExecuteTickEnd
<1>1. /\ StateOf(c) \in State /\ s \in State /\ asking \in State
      /\ s.pending = StateOf(c).pending /\ s.request = StateOf(c).request
  <2>1. nextKeepAliveId \in 0 .. MaxKeepAliveId
    BY DEF RuntimeInv, TypesOK, KeepAliveId
  <2> QED BY <2>1, StateTypes, AuthoritativeRuntimeAssumption DEF State
<1>2. request \in PlayOutput /\ request.type = "KeepAliveRequest"
      /\ request.id = nextKeepAliveId /\ request # Disconnect
  BY Messages DEF RuntimeInv, TypesOK
<1> HIDE DEF s, request
<1>3. /\ inputs' \in [Connection -> Seq(PlayInput)]
      /\ session[c] = "open" => c \in registered
      /\ NoneQueued(c) => NoneQueued(c)'
      /\ \A id : OneOf(inputs[c], "KeepAliveResponse", id) =>
                  OneOf(inputs'[c], "KeepAliveResponse", id)
  <2>1. TakeInput(c, "ClientTickEnd")
    BY <1>0
  <2> QED BY <2>1, InputTaken
<1>4. CASE ~Due(s)
  <2>1. /\ connections' = [connections EXCEPT ![c] = s]
        /\ UNCHANGED <<nextKeepAliveId, registered, outbox, lost>>
    BY <1>0, <1>4
  <2>2. TypesOK'
    BY <1>0, <1>1, <1>3, <2>1 DEF RuntimeInv, TypesOK
  <2>3. StateOf(c)' = s
    BY <1>1, <2>1, NoStateAssumption DEF StateOf, RuntimeInv, TypesOK
  <2>4. ASSUME session[c] = "open" PROVE Exchange(c)'
    <3>1. Nowhere(c) => Nowhere(c)'
      BY <1>0, <1>3, <2>1 DEF Nowhere, NoRequest
    <3>2. ASSUME NEW id, Somewhere(c, id) PROVE Somewhere(c, id)'
      BY <1>0, <1>3, <2>1, <3>2 DEF Somewhere, InOutbox, AtClient, InChannel, InQueue, NoRequest
    <3>3. Exchange(c)
      BY <2>4 DEF RuntimeInv, Exchanges
    <3> QED BY <1>1, <2>1, <2>3, <3>1, <3>2, <3>3 DEF Exchange
  <2>5. \A d \in Connection : d # c => connections'[d] = connections[d]
    BY <2>1 DEF RuntimeInv, TypesOK
  <2> QED BY <1>0, <2>1, <2>2, <2>4, <2>5, HandlerPreserves DEF RuntimeInv, NobodyDisconnected
<1>5. CASE Due(s)
  <2>1. /\ connections' = [connections EXCEPT ![c] = asking]
        /\ nextKeepAliveId' = NextId /\ SendOutput(c, request)
        /\ lost' = [lost EXCEPT ![c] = @ \/ Refused(c)]
        /\ ~StateOf(c).pending
    BY <1>0, <1>1, <1>5 DEF Due
  <2>2. /\ registered' # registered => session[c] # "open" /\ registered' = registered \ {c}
        /\ outbox' \in [Connection -> Seq(PlayOutput)]
        /\ \A d \in Connection : d # c => outbox'[d] = outbox[d]
        /\ outbox'[c] = outbox[c] \/ outbox'[c] = Append(outbox[c], request)
        /\ c \in registered /\ session[c] = "open" =>
              outbox'[c] = IF Refused(c) THEN outbox[c] ELSE Append(outbox[c], request)
    BY <1>2, <2>1, OutputSent
  <2>3. registered' \subseteq Connection /\ lost' \in [Connection -> BOOLEAN]
        /\ lost'[c] = (lost[c] \/ Refused(c))
    <3>1. Refused(c) \in BOOLEAN
      BY DEF Refused
    <3> QED BY <2>1, <2>2, <3>1 DEF RuntimeInv, TypesOK
  <2>4. TypesOK'
    BY <1>0, <1>1, <1>3, <2>1, <2>2, <2>3, StateTypes DEF RuntimeInv, TypesOK
  <2>5. StateOf(c)' = asking
    BY <1>1, <2>1, NoStateAssumption DEF StateOf, RuntimeInv, TypesOK
  <2>6. outbox[c] \in Seq(PlayOutput)
    BY DEF RuntimeInv, TypesOK
  <2>7. Disconnect \notin Range(outbox'[c])
    <3>1. Range(outbox'[c]) \subseteq Range(outbox[c]) \cup {request}
      BY <1>2, <2>2, <2>6, MaybeAppended
    <3> QED BY <1>2, <3>1 DEF RuntimeInv, NobodyDisconnected
  <2>8. ASSUME session[c] = "open" PROVE Exchange(c)'
    <3>1. Nowhere(c)
      BY <2>1, <2>8 DEF RuntimeInv, Exchanges, Exchange
    <3>2. CASE Refused(c)
      <4>1. Nowhere(c)'
        BY <1>0, <1>3, <2>2, <2>8, <3>1, <3>2 DEF Nowhere, NoRequest
      <4> QED BY <2>3, <3>2, <4>1 DEF Exchange
    <3>3. CASE ~Refused(c)
      <4>1. outbox'[c] = Append(outbox[c], request)
        BY <1>3, <2>2, <2>8, <3>3
      <4>2. OneOf(outbox'[c], "KeepAliveRequest", nextKeepAliveId)
        BY <1>2, <2>6, <3>1, <4>1, TypedAppended DEF Nowhere, NoRequest
      <4>3. /\ asked'[c] = <<>> /\ NoAnswer(commands', c) /\ NoneQueued(c)'
            /\ StateOf(c)'.pending /\ StateOf(c)'.request = nextKeepAliveId
        BY <1>0, <1>3, <2>5, <3>1 DEF Nowhere
      <4> QED BY <4>2, <4>3 DEF Exchange, Somewhere, InOutbox
    <3> QED BY <3>2, <3>3
  <2>9. \A d \in Connection : d # c => connections'[d] = connections[d] /\ lost'[d] = lost[d]
    BY <2>1 DEF RuntimeInv, TypesOK
  <2> QED BY <1>0, <2>2, <2>4, <2>7, <2>8, <2>9, HandlerPreserves
<1> QED BY <1>4, <1>5

(* An answer: the one the runtime waits for, if its connection is open.    *)
LEMMA ResponsePreserves ==
  ASSUME RuntimeInv, NEW c \in Connection, ExecuteKeepAliveResponse(c)
  PROVE  RuntimeInv'
<1> DEFINE id == Head(inputs[c]).id
<1>0. /\ TakeInput(c, "KeepAliveResponse")
      /\ connections' = [connections EXCEPT ![c] = Acknowledge(StateOf(c), id)]
      /\ \/ StateOf(c).pending /\ StateOf(c).request # id /\ SendOutput(c, Disconnect)
         \/ ~(StateOf(c).pending /\ StateOf(c).request # id) /\ UNCHANGED <<registered, outbox>>
      /\ UNCHANGED <<commands, nextKeepAliveId, ticking, session, asked, lost>>
  BY DEF ExecuteKeepAliveResponse
<1>1. /\ inputs' \in [Connection -> Seq(PlayInput)]
      /\ session[c] = "open" => c \in registered
      /\ ~NoneQueued(c)
      /\ \A x : OneOf(inputs[c], "KeepAliveResponse", x) => id = x /\ NoneQueued(c)'
  <2>1. TakeInput(c, "KeepAliveResponse")
    BY <1>0
  <2> QED BY <2>1, InputTaken
<1> HIDE DEF id
<1>2. Disconnect \in PlayOutput
  BY Messages
<1>3. /\ registered' # registered => session[c] # "open" /\ registered' = registered \ {c}
      /\ outbox' \in [Connection -> Seq(PlayOutput)]
      /\ \A d \in Connection : d # c => outbox'[d] = outbox[d]
  BY <1>0, <1>2, OutputSent DEF RuntimeInv, TypesOK
<1>4. TypesOK'
  BY <1>0, <1>1, <1>3, StateTypes DEF RuntimeInv, TypesOK
<1>5. StateOf(c)' = Acknowledge(StateOf(c), id)
  <2> DEFINE acknowledged == Acknowledge(StateOf(c), id)
  <2>1. acknowledged \in State
    BY StateTypes
  <2> HIDE DEF acknowledged
  <2>2. connections'[c] = acknowledged
    BY <1>0 DEF RuntimeInv, TypesOK, acknowledged
  <2>3. StateOf(c)' = acknowledged
    BY <2>1, <2>2, NoStateAssumption DEF StateOf
  <2> QED BY <2>3 DEF acknowledged
<1>6. ASSUME session[c] = "open"
      PROVE  outbox' = outbox /\ Exchange(c)'
  <2>1. StateOf(c).pending /\ InQueue(c, StateOf(c).request)
    BY <1>1, <1>6 DEF RuntimeInv, Exchanges, Exchange, Nowhere, Somewhere, InOutbox, AtClient,
                      InChannel
  <2>2. id = StateOf(c).request /\ NoneQueued(c)'
    BY <1>1, <2>1 DEF InQueue
  <2>3. ~StateOf(c)'.pending
    <3>1. StateOf(c) \in State
      BY StateTypes
    <3> QED BY <1>5, <2>2, <3>1 DEF Acknowledge, State
  <2>4. outbox' = outbox
    BY <1>0, <2>2
  <2>5. Nowhere(c)'
    BY <1>0, <2>1, <2>2, <2>4 DEF InQueue, Nowhere, NoRequest
  <2> QED BY <2>3, <2>4, <2>5 DEF Exchange
<1>7. Disconnect \notin Range(outbox'[c])
  <2>1. CASE session[c] = "open"
    BY <1>6, <2>1 DEF RuntimeInv, NobodyDisconnected
  <2>2. CASE session[c] # "open"
    BY <1>0, <2>2 DEF SendOutput, RuntimeInv, NobodyDisconnected
  <2> QED BY <2>1, <2>2
<1>8. \A d \in Connection : d # c => connections'[d] = connections[d]
  BY <1>0 DEF RuntimeInv, TypesOK
<1> QED BY <1>0, <1>3, <1>4, <1>6, <1>7, <1>8, HandlerPreserves

-----------------------------------------------------------------------------
(* What remains to be shown of a step of the threads of c: all about c.    *)
LEMMA WorkerPreserves ==
  ASSUME RuntimeInv, NEW c \in Connection, TypesOK',
         UNCHANGED <<registered, inputs, connections, nextKeepAliveId, lost>>,
         \A d \in Connection : d # c => /\ outbox'[d] = outbox[d] /\ asked'[d] = asked[d]
                                       /\ session'[d] = session[d],
         commands' = commands \/ \E body \in PlayInput \cup {Register, Disconnect, Packet} :
                                  Submit(c, body),
         Disconnect \notin Range(outbox'[c]),
         session'[c] = "open" => Exchange(c)',
         FreshOf(c)'
  PROVE  RuntimeInv'
<1> USE DEF RuntimeInv
<1>1. ASSUME NEW d \in Connection, d # c
      PROVE  Untouched(d) /\ \A m \in Range(commands') : m.connection = d => m \in Range(commands)
  <2>1. CASE commands' = commands
    BY <1>1, <2>1 DEF Untouched
  <2>2. ASSUME NEW body \in PlayInput \cup {Register, Disconnect, Packet}, Submit(c, body)
        PROVE  /\ Range(commands') = Range(commands) \cup {[connection |-> c, body |-> body]}
               /\ NoAnswer(commands, d) => NoAnswer(commands', d)
               /\ \A id : OneAnswer(commands, d, id) => OneAnswer(commands', d, id)
    BY <1>1, <2>2, Submitted
  <2> QED BY <1>1, <2>1, <2>2 DEF Untouched
<1>2. Exchanges'
  BY <1>1, UntouchedKeeps DEF Exchanges
<1>3. Fresh'
  BY <1>1, UntouchedIsFresh DEF Fresh
<1>4. NobodyDisconnected'
  BY DEF NobodyDisconnected
<1> QED BY <1>2, <1>3, <1>4

(* A step that puts the session out of the way leaves nothing to show of   *)
(* its exchange.                                                           *)
LEMMA GoneIsFresh ==
  ASSUME NEW c \in Connection, session'[c] \in {"closing", "over"}
  PROVE  FreshOf(c)'
BY DEF FreshOf

(* A connection's first command is its registration.                       *)
LEMMA EnterPreserves ==
  ASSUME RuntimeInv, NEW c \in Connection, Enter(c)
  PROVE  RuntimeInv'
<1>1. /\ session[c] = "none" /\ Submit(c, Register) /\ session' = [session EXCEPT ![c] = "open"]
      /\ UNCHANGED <<registered, inputs, connections, nextKeepAliveId, ticking, outbox, asked,
                     lost>>
  BY DEF Enter
<1>2. /\ commands' \in Seq(Command)
      /\ Range(commands') = Range(commands) \cup {[connection |-> c, body |-> Register]}
      /\ NoAnswer(commands, c) => NoAnswer(commands', c)
      /\ \A id : OneAnswer(commands, c, id) => OneAnswer(commands', c, id)
      /\ Register # Disconnect
  BY <1>1, Submitted, Messages
<1>3. /\ FreshOf(c) /\ c \notin registered /\ inputs[c] = <<>>
      /\ Nowhere(c) /\ ~StateOf(c).pending
      /\ \A m \in Range(commands) : m.connection # c
  BY <1>1 DEF RuntimeInv, Fresh, FreshOf
<1>4. Nowhere(c)' /\ ~StateOf(c)'.pending
  BY <1>1, <1>2, <1>3, UntouchedKeeps DEF Untouched
<1>5. FreshOf(c)' /\ Exchange(c)'
  BY <1>1, <1>2, <1>3, <1>4 DEF FreshOf, Exchange, RuntimeInv, TypesOK
<1>6. TypesOK'
  BY <1>1, <1>2 DEF RuntimeInv, TypesOK
<1> QED BY <1>1, <1>5, <1>6, WorkerPreserves DEF RuntimeInv, TypesOK, NobodyDisconnected

(* A command other than an answer, of an open session.                     *)
LEMMA CommandPreserves ==
  ASSUME RuntimeInv, NEW c \in Connection, NEW body \in {TickEnd, Movement, Packet},
         session[c] = "open", Submit(c, body),
         UNCHANGED <<registered, inputs, connections, nextKeepAliveId, outbox, session, asked,
                     lost>>
  PROVE  RuntimeInv'
<1>1. /\ body \in PlayInput \cup {Register, Disconnect, Packet}
      /\ body.type # "KeepAliveResponse" /\ body # Disconnect
  BY Messages
<1>2. /\ commands' \in Seq(Command)
      /\ Range(commands') = Range(commands) \cup {[connection |-> c, body |-> body]}
      /\ NoAnswer(commands, c) => NoAnswer(commands', c)
      /\ \A id : OneAnswer(commands, c, id) => OneAnswer(commands', c, id)
  BY <1>1, Submitted
<1>3. Untouched(c) /\ FreshOf(c) /\ Exchange(c)
  BY <1>2 DEF Untouched, RuntimeInv, Fresh, Exchanges
<1>4. Exchange(c)' /\ FreshOf(c)'
  BY <1>1, <1>2, <1>3, UntouchedKeeps DEF FreshOf
<1>5. TypesOK'
  BY <1>2 DEF RuntimeInv, TypesOK
<1> QED BY <1>1, <1>4, <1>5, WorkerPreserves DEF RuntimeInv, NobodyDisconnected

(* The channel is full, or the client leaves: the writer goes.             *)
LEMMA ClosingPreserves ==
  ASSUME RuntimeInv, NEW c \in Connection,
         session' = [session EXCEPT ![c] = "closing"], outbox' = [outbox EXCEPT ![c] = <<>>],
         UNCHANGED <<commands, registered, inputs, connections, nextKeepAliveId, lost>>,
         asked' \in [Connection -> Seq(KeepAliveId)],
         \A d \in Connection : d # c => asked'[d] = asked[d]
  PROVE  RuntimeInv'
<1> USE DEF RuntimeInv, TypesOK
<1>1. <<>> \in Seq(PlayOutput)
  OBVIOUS
<1>2. TypesOK'
  BY <1>1
<1>3. session'[c] = "closing" /\ FreshOf(c)'
  BY GoneIsFresh
<1>4. Disconnect \notin Range(outbox'[c])
  BY DEF Range
<1> QED BY <1>2, <1>3, <1>4, WorkerPreserves

(* An input of the client other than an answer.                            *)
LEMMA ClientInputPreserves ==
  ASSUME RuntimeInv, NEW c \in Connection, ClientTick(c) \/ ClientMoves(c)
  PROVE  RuntimeInv'
<1>1. PICK input \in {TickEnd, Movement} : SubmitInput(c, input) /\ UNCHANGED asked
  BY DEF ClientTick, ClientMoves
<1>2. session[c] = "open" /\ UNCHANGED <<registered, inputs, connections, nextKeepAliveId, lost>>
  BY <1>1 DEF SubmitInput
<1>3. CASE Submit(c, input) /\ UNCHANGED <<outbox, session>>
  BY <1>1, <1>2, <1>3, CommandPreserves
<1>4. CASE /\ session' = [session EXCEPT ![c] = "closing"]
           /\ outbox' = [outbox EXCEPT ![c] = <<>>] /\ UNCHANGED commands
  <2>1. UNCHANGED <<commands, registered, inputs, connections, nextKeepAliveId, lost>>
        /\ asked' = asked /\ asked \in [Connection -> Seq(KeepAliveId)]
    BY <1>1, <1>2, <1>4 DEF RuntimeInv, TypesOK
  <2> QED BY <1>4, <2>1, ClosingPreserves
<1>5. \/ Submit(c, input) /\ UNCHANGED <<outbox, session>>
      \/ /\ session' = [session EXCEPT ![c] = "closing"]
         /\ outbox' = [outbox EXCEPT ![c] = <<>>] /\ UNCHANGED commands
  BY <1>1 DEF SubmitInput
<1> QED BY <1>3, <1>4, <1>5

(* An answer of the client: the exchange moves from it to the channel.     *)
LEMMA ClientAnswerPreserves ==
  ASSUME RuntimeInv, NEW c \in Connection, ClientAnswers(c)
  PROVE  RuntimeInv'
<1> DEFINE id == Head(asked[c])
           input == Response(id)
<1>1. /\ asked[c] # <<>> /\ asked' = [asked EXCEPT ![c] = Tail(asked[c])]
      /\ session[c] = "open" /\ SubmitInput(c, input)
      /\ UNCHANGED <<registered, inputs, connections, nextKeepAliveId, lost>>
  BY DEF ClientAnswers, SubmitInput, RuntimeInv, TypesOK
<1>2. id \in KeepAliveId /\ Tail(asked[c]) \in Seq(KeepAliveId)
  BY <1>1, FirstAndRest DEF RuntimeInv, TypesOK
<1>3. input \in PlayInput /\ input.type = "KeepAliveResponse" /\ input.id = id
      /\ input # Disconnect
  BY <1>2, Messages
<1>4. CASE Submit(c, input) /\ UNCHANGED <<outbox, session>>
  <2>1. StateOf(c).pending /\ AtClient(c, StateOf(c).request)
    BY <1>1 DEF RuntimeInv, Exchanges, Exchange, Nowhere, Somewhere, InOutbox, InChannel, InQueue
  <2>2. id = StateOf(c).request /\ Tail(asked[c]) = <<>>
    BY <2>1 DEF AtClient
  <2> HIDE DEF id, input
  <2>3. /\ commands' \in Seq(Command)
        /\ Range(commands') = Range(commands) \cup {[connection |-> c, body |-> input]}
        /\ NoAnswer(commands, c) => OneAnswer(commands', c, id)
    BY <1>3, <1>4, Submitted
  <2>4. /\ StateOf(c)' = StateOf(c) /\ NoRequest(c)' = NoRequest(c)
        /\ NoneQueued(c)' = NoneQueued(c) /\ asked'[c] = <<>>
    BY <1>1, <1>4, <2>2 DEF StateOf, NoRequest, NoneQueued, RuntimeInv, TypesOK
  <2>5. Exchange(c)'
    BY <2>1, <2>2, <2>3, <2>4 DEF AtClient, InChannel, Exchange, Somewhere
  <2>6. c \in registered
    BY <1>1, <2>1 DEF RuntimeInv, Fresh, FreshOf
  <2>7. FreshOf(c)'
    BY <1>1, <1>3, <1>4, <2>3, <2>6 DEF RuntimeInv, Fresh, FreshOf
  <2>8. TypesOK'
    BY <1>1, <1>2, <1>4, <2>3 DEF RuntimeInv, TypesOK
  <2>9. \A d \in Connection : d # c => asked'[d] = asked[d]
    BY <1>1 DEF RuntimeInv, TypesOK
  <2> QED BY <1>1, <1>3, <1>4, <2>5, <2>7, <2>8, <2>9, WorkerPreserves
             DEF RuntimeInv, NobodyDisconnected
<1>5. CASE /\ session' = [session EXCEPT ![c] = "closing"]
           /\ outbox' = [outbox EXCEPT ![c] = <<>>] /\ UNCHANGED commands
  <2>1. /\ asked' \in [Connection -> Seq(KeepAliveId)]
        /\ \A d \in Connection : d # c => asked'[d] = asked[d]
    BY <1>1, <1>2 DEF RuntimeInv, TypesOK
  <2> QED BY <1>1, <1>5, <2>1, ClosingPreserves
<1> QED BY <1>1, <1>4, <1>5 DEF SubmitInput

(* The writer writes: a request moves on to the client.                    *)
LEMMA WritePreserves ==
  ASSUME RuntimeInv, NEW c \in Connection, WriteOutput(c)
  PROVE  RuntimeInv'
<1> DEFINE output == Head(outbox[c])
<1>1. /\ outbox[c] \in Seq(PlayOutput) /\ outbox[c] # <<>> /\ asked[c] \in Seq(KeepAliveId)
      /\ session[c] = "open"
      /\ UNCHANGED <<commands, registered, inputs, connections, nextKeepAliveId, ticking, lost>>
  BY DEF WriteOutput, RuntimeInv, TypesOK
<1>2. output \in PlayOutput /\ Tail(outbox[c]) \in Seq(PlayOutput)
  BY <1>1, FirstAndRest
<1>3. output # Disconnect /\ Disconnect \notin Range(Tail(outbox[c]))
  <2>1. output \in Range(outbox[c]) /\ Range(Tail(outbox[c])) \subseteq Range(outbox[c])
    BY <1>1, <1>2, Contents
  <2> QED BY <2>1 DEF RuntimeInv, NobodyDisconnected
<1>4. /\ session' = session /\ outbox' = [outbox EXCEPT ![c] = Tail(outbox[c])]
      /\ asked' = [asked EXCEPT ![c] = IF output.type = "KeepAliveRequest"
                                       THEN Append(asked[c], output.id) ELSE asked[c]]
  BY <1>3 DEF WriteOutput, RuntimeInv, TypesOK
<1>5. output.type = "KeepAliveRequest" =>
        output.id \in KeepAliveId /\ Append(asked[c], output.id) \in Seq(KeepAliveId)
  BY <1>1, <1>2, Messages, Appended
<1>6. TypesOK'
  BY <1>1, <1>2, <1>4, <1>5 DEF RuntimeInv, TypesOK
<1>7. /\ outbox'[c] = Tail(outbox[c])
      /\ StateOf(c)' = StateOf(c) /\ NoneQueued(c)' = NoneQueued(c)
      /\ \A d \in Connection : d # c => outbox'[d] = outbox[d] /\ asked'[d] = asked[d]
  BY <1>1, <1>4 DEF StateOf, NoneQueued, RuntimeInv, TypesOK
<1>8. \A id : /\ NoRequest(c) => output.type # "KeepAliveRequest" /\ NoRequest(c)'
              /\ OneOf(outbox[c], "KeepAliveRequest", id) =>
                   IF output.type = "KeepAliveRequest" THEN output.id = id /\ NoRequest(c)'
                   ELSE OneOf(outbox'[c], "KeepAliveRequest", id)
  <2>1. \A id : /\ NoneOf(outbox[c], "KeepAliveRequest") =>
                     /\ output.type # "KeepAliveRequest"
                     /\ NoneOf(Tail(outbox[c]), "KeepAliveRequest")
                /\ OneOf(outbox[c], "KeepAliveRequest", id) =>
                     IF output.type = "KeepAliveRequest"
                     THEN output.id = id /\ NoneOf(Tail(outbox[c]), "KeepAliveRequest")
                     ELSE OneOf(Tail(outbox[c]), "KeepAliveRequest", id)
    BY <1>1, TypedTaken
  <2> HIDE DEF output
  <2> QED BY <1>7, <2>1 DEF NoRequest
<1>9. CASE output.type # "KeepAliveRequest"
  <2>1. asked'[c] = asked[c]
    BY <1>4, <1>9 DEF RuntimeInv, TypesOK
  <2>2. Nowhere(c) => Nowhere(c)'
    BY <1>1, <1>7, <1>8, <2>1 DEF Nowhere
  <2>3. ASSUME NEW id, Somewhere(c, id) PROVE Somewhere(c, id)'
    BY <1>1, <1>7, <1>8, <1>9, <2>1, <2>3
       DEF Somewhere, InOutbox, AtClient, InChannel, InQueue
  <2>4. Exchange(c)'
    BY <1>1, <1>7, <2>2, <2>3 DEF RuntimeInv, Exchanges, Exchange
  <2>5. FreshOf(c)'
    BY <1>1, <1>4, <1>7, <2>2 DEF RuntimeInv, Fresh, FreshOf
  <2> QED BY <1>1, <1>3, <1>4, <1>6, <1>7, <2>4, <2>5, WorkerPreserves
<1>10. CASE output.type = "KeepAliveRequest"
  <2>1. StateOf(c).pending /\ InOutbox(c, StateOf(c).request)
    BY <1>1, <1>8, <1>10
       DEF RuntimeInv, Exchanges, Exchange, Nowhere, Somewhere, AtClient, InChannel, InQueue
  <2>2. output.id = StateOf(c).request /\ NoRequest(c)' /\ asked[c] = <<>>
    BY <1>8, <1>10, <2>1 DEF InOutbox
  <2>3. asked'[c] = <<StateOf(c).request>>
    <3>1. asked'[c] = Append(<<>>, output.id)
      BY <1>4, <1>10, <2>2 DEF RuntimeInv, TypesOK
    <3> QED BY <2>2, <3>1
  <2>4. Exchange(c)'
    BY <1>1, <1>7, <2>1, <2>2, <2>3 DEF InOutbox, AtClient, Exchange, Somewhere
  <2>5. c \in registered
    BY <1>1, <2>1 DEF RuntimeInv, Fresh, FreshOf
  <2>6. FreshOf(c)'
    BY <1>1, <1>4, <2>5 DEF RuntimeInv, Fresh, FreshOf
  <2> QED BY <1>1, <1>3, <1>4, <1>6, <1>7, <2>4, <2>6, WorkerPreserves
<1> QED BY <1>9, <1>10

(* The guard of a session that is over asks for the removal, or gives up.  *)
LEMMA LeavePreserves ==
  ASSUME RuntimeInv, NEW c \in Connection, Leave(c)
  PROVE  RuntimeInv'
<1>1. /\ session[c] = "closing" /\ session' = [session EXCEPT ![c] = "over"]
      /\ Submit(c, Disconnect) \/ UNCHANGED commands
      /\ UNCHANGED <<registered, inputs, connections, nextKeepAliveId, ticking, outbox, asked,
                     lost>>
  BY DEF Leave
<1>2. commands' \in Seq(Command)
  BY <1>1, Submitted DEF RuntimeInv, TypesOK
<1>3. TypesOK' /\ session'[c] = "over" /\ FreshOf(c)'
  BY <1>1, <1>2, GoneIsFresh DEF RuntimeInv, TypesOK
<1> QED BY <1>1, <1>3, WorkerPreserves DEF RuntimeInv, TypesOK, NobodyDisconnected

-----------------------------------------------------------------------------
(* Every step of the owner, the threads and the clients.                   *)
LEMMA RuntimeStep == RuntimeInv /\ [RuntimeNext]_vars => RuntimeInv'
<1> SUFFICES ASSUME RuntimeInv, [RuntimeNext]_vars PROVE RuntimeInv'
  OBVIOUS
<1>1. CASE Ingest
  BY <1>1, RegisterPreserves, RemovalPreserves, InputPreserves, OutputPreserves DEF Ingest
<1>2. CASE EndIngest
  BY <1>2, ForgetPreserves
<1>3. CASE EndTicks \/ AskOther
  BY <1>3, OwnerRestPreserves
<1>4. ASSUME NEW c \in Connection, ExecuteInput(c) PROVE RuntimeInv'
  BY <1>4, TickEndPreserves, ResponsePreserves, MovementPreserves DEF ExecuteInput
<1>5. ASSUME NEW c \in Connection, WorkerNext(c) PROVE RuntimeInv'
  <2>1. CASE Enter(c)
    BY <2>1, EnterPreserves
  <2>2. CASE ClientTick(c) \/ ClientMoves(c)
    BY <2>2, ClientInputPreserves
  <2>3. CASE ClientAnswers(c)
    BY <2>3, ClientAnswerPreserves
  <2>4. CASE SubmitOutput(c)
    BY <2>4, CommandPreserves DEF SubmitOutput
  <2>5. CASE WriteOutput(c)
    BY <2>5, WritePreserves
  <2>6. CASE CloseWriter(c)
    <3>1. /\ session' = [session EXCEPT ![c] = "closing"]
          /\ outbox' = [outbox EXCEPT ![c] = <<>>]
          /\ UNCHANGED <<commands, registered, inputs, connections, nextKeepAliveId, lost>>
          /\ asked' = asked /\ asked \in [Connection -> Seq(KeepAliveId)]
      BY <2>6 DEF CloseWriter, RuntimeInv, TypesOK
    <3> QED BY <3>1, ClosingPreserves
  <2>7. CASE Leave(c)
    BY <2>7, LeavePreserves
  <2> QED BY <1>5, <2>1, <2>2, <2>3, <2>4, <2>5, <2>6, <2>7 DEF WorkerNext
<1>6. CASE UNCHANGED vars
  <2>1. TypesOK' /\ NobodyDisconnected'
    BY <1>6 DEF vars, RuntimeInv, TypesOK, NobodyDisconnected
  <2>2. \A d : Untouched(d)
    BY <1>6 DEF vars, Untouched
  <2>3. Exchanges' /\ Fresh'
    BY <1>6, <2>2, UntouchedKeeps, UntouchedIsFresh DEF vars, RuntimeInv, Exchanges, Fresh
  <2> QED BY <2>1, <2>3 DEF RuntimeInv
<1> QED BY <1>1, <1>2, <1>3, <1>4, <1>5, <1>6 DEF RuntimeNext, OwnerNext

(* The invariant of the runtime: the one exchange of an open connection is *)
(* in one place, with the id the runtime waits for.                        *)
THEOREM RuntimeInvariant == RuntimeSpec => []RuntimeInv
<1>1. RuntimeInit => RuntimeInv
  BY InitRuntime
<1>2. RuntimeInv /\ [RuntimeNext]_vars => RuntimeInv'
  BY RuntimeStep
<1> QED BY <1>1, <1>2, PTL DEF RuntimeSpec

-----------------------------------------------------------------------------
(* The parts that Underway collects, of one sequence of messages.          *)
PartsOf(q, place, type) == {[place |-> place, at |-> i, id |-> q[i].id] : i \in Typed(q, type)}
AnswersOf(q, c) ==
  {[place |-> "channel", at |-> i, id |-> q[i].body.id] :
     i \in {j \in 1 .. Len(q) : IsAnswer(q[j], c)}}
AskedOf(q) == {[place |-> "client", at |-> i, id |-> q[i]] : i \in 1 .. Len(q)}

LEMMA PartsCounted ==
  ASSUME NEW q, NEW place, NEW type, NEW id
  PROVE  /\ NoneOf(q, type) => PartsOf(q, place, type) = {}
         /\ OneOf(q, type, id) => \E part : part.id = id /\ PartsOf(q, place, type) = {part}
<1>1. NoneOf(q, type) => PartsOf(q, place, type) = {}
  BY DEF NoneOf, PartsOf, Typed
<1>2. ASSUME OneOf(q, type, id)
      PROVE  \E part : part.id = id /\ PartsOf(q, place, type) = {part}
  <2>1. PICK i \in 1 .. Len(q) : /\ q[i].type = type /\ q[i].id = id
                                 /\ \A j \in 1 .. Len(q) : q[j].type = type => j = i
    BY <1>2 DEF OneOf
  <2>2. Typed(q, type) = {i}
    BY <2>1 DEF Typed
  <2>3. PartsOf(q, place, type) = {[place |-> place, at |-> i, id |-> q[i].id]}
    BY <2>2 DEF PartsOf
  <2> QED BY <2>1, <2>3
<1> QED BY <1>1, <1>2

LEMMA AnswersCounted ==
  ASSUME NEW q, NEW c, NEW id
  PROVE  /\ NoAnswer(q, c) => AnswersOf(q, c) = {}
         /\ OneAnswer(q, c, id) => \E part : part.id = id /\ AnswersOf(q, c) = {part}
<1>1. NoAnswer(q, c) => AnswersOf(q, c) = {}
  BY DEF NoAnswer, AnswersOf
<1>2. ASSUME OneAnswer(q, c, id) PROVE \E part : part.id = id /\ AnswersOf(q, c) = {part}
  <2>1. PICK i \in 1 .. Len(q) : /\ IsAnswer(q[i], c) /\ q[i].body.id = id
                                 /\ \A j \in 1 .. Len(q) : IsAnswer(q[j], c) => j = i
    BY <1>2 DEF OneAnswer
  <2>2. {j \in 1 .. Len(q) : IsAnswer(q[j], c)} = {i}
    BY <2>1
  <2>3. AnswersOf(q, c) = {[place |-> "channel", at |-> i, id |-> q[i].body.id]}
    BY <2>2 DEF AnswersOf
  <2> QED BY <2>1, <2>3
<1> QED BY <1>1, <1>2

LEMMA AskedCounted ==
  ASSUME NEW id
  PROVE  /\ AskedOf(<<>>) = {}
         /\ \E part : part.id = id /\ AskedOf(<<id>>) = {part}
<1>1. AskedOf(<<>>) = {}
  BY DEF AskedOf
<1>2. 1 .. Len(<<id>>) = {1} /\ <<id>>[1] = id
  OBVIOUS
<1>3. AskedOf(<<id>>) = {[place |-> "client", at |-> 1, id |-> id]}
  BY <1>2 DEF AskedOf
<1> QED BY <1>1, <1>3

(* The place of the exchange is what Underway counts.                      *)
LEMMA UnderwayCounted ==
  ASSUME NEW c, NEW id
  PROVE  /\ Nowhere(c) => Underway(c) = {}
         /\ Somewhere(c, id) => \E part \in Underway(c) : part.id = id /\ Underway(c) = {part}
<1> DEFINE requests == PartsOf(outbox[c], "outbox", "KeepAliveRequest")
           client == AskedOf(asked[c])
           channel == AnswersOf(commands, c)
           queue == PartsOf(inputs[c], "queue", "KeepAliveResponse")
<1>1. Underway(c) = requests \cup client \cup channel \cup queue
  BY DEF Underway, PartsOf, AskedOf, AnswersOf, IsAnswer
<1>2. /\ NoRequest(c) => requests = {}
      /\ OneOf(outbox[c], "KeepAliveRequest", id) =>
           \E part : part.id = id /\ requests = {part}
      /\ NoneQueued(c) => queue = {}
      /\ OneOf(inputs[c], "KeepAliveResponse", id) => \E part : part.id = id /\ queue = {part}
  BY PartsCounted DEF NoRequest, NoneQueued
<1>3. /\ NoAnswer(commands, c) => channel = {}
      /\ OneAnswer(commands, c, id) => \E part : part.id = id /\ channel = {part}
  BY AnswersCounted
<1>4. /\ asked[c] = <<>> => client = {}
      /\ asked[c] = <<id>> => \E part : part.id = id /\ client = {part}
  BY AskedCounted
<1> HIDE DEF requests, client, channel, queue
<1>5. Nowhere(c) => Underway(c) = {}
  BY <1>1, <1>2, <1>3, <1>4 DEF Nowhere
<1>6. ASSUME Somewhere(c, id) PROVE \E part : part.id = id /\ Underway(c) = {part}
  <2>1. CASE InOutbox(c, id)
    BY <1>1, <1>2, <1>3, <1>4, <2>1 DEF InOutbox
  <2>2. CASE AtClient(c, id)
    BY <1>1, <1>2, <1>3, <1>4, <2>2 DEF AtClient
  <2>3. CASE InChannel(c, id)
    BY <1>1, <1>2, <1>3, <1>4, <2>3 DEF InChannel
  <2>4. CASE InQueue(c, id)
    BY <1>1, <1>2, <1>3, <1>4, <2>4 DEF InQueue
  <2> QED BY <1>6, <2>1, <2>2, <2>3, <2>4 DEF Somewhere
<1> QED BY <1>5, <1>6

(* A client that answers every request once is never disconnected for a    *)
(* wrong answer, and keep_alive_pending tells whether an exchange is under *)
(* way, unless a full queue dropped a part of it.                          *)
THEOREM AnsweringClientsStay == RuntimeSpec => []AnsweringClientKept
<1>1. ASSUME RuntimeInv PROVE AnsweringClientKept
  <2>1. \A c \in Connection : Disconnect \notin Range(outbox[c])
    BY <1>1 DEF RuntimeInv, NobodyDisconnected
  <2>2. ASSUME NEW c \in registered, session[c] = "open", ~lost[c]
        PROVE  IF StateOf(c).pending
               THEN \E part \in Underway(c) :
                      part.id = StateOf(c).request /\ Underway(c) = {part}
               ELSE Underway(c) = {}
    <3>1. c \in Connection
      BY <1>1 DEF RuntimeInv, TypesOK
    <3>2. Exchange(c)
      BY <1>1, <2>2, <3>1 DEF RuntimeInv, Exchanges
    <3> QED BY <2>2, <3>2, UnderwayCounted DEF Exchange
  <2> QED BY <2>1, <2>2 DEF AnsweringClientKept
<1>2. RuntimeInv => AnsweringClientKept
  BY <1>1
<1> QED BY <1>2, RuntimeInvariant, PTL

(***************************************************************************)
(* The inventories.                                                        *)
(***************************************************************************)

---------------------------------------------------------------------------
\* Folds over a sequence

\* A set of numbers that is not empty has a smallest one.
LEMMA SmallestExists ==
  ASSUME NEW T \in SUBSET Nat, T # {}
  PROVE  \E n \in T : \A m \in T : ~(m < n)
  <1>1. PICK n \in T : \A m \in T : ~(<<m, n>> \in OpToRel(<, Nat))
    BY NatLessThanWellFounded, WFMin
  <1>2. ASSUME NEW m \in T, m < n PROVE FALSE
    <2>1. m \in Nat /\ n \in Nat /\ <<m, n>> \notin OpToRel(<, Nat)
      BY <1>1
    <2> QED
      BY <1>2, <2>1, Zenon DEF OpToRel
  <1> QED
    BY <1>2

\* A set of indices that is not empty has a last one; without it, it is one smaller.
LEMMA LastFacts ==
  ASSUME NEW n \in Nat, NEW s \in SUBSET (1 .. n), s # {}
  PROVE  /\ Max(s) \in s /\ Max(s) \in 1 .. n /\ s \ {Max(s)} \in SUBSET (1 .. n)
         /\ Cardinality(s) \in Nat /\ Cardinality(s \ {Max(s)}) = Cardinality(s) - 1
  <1>1. Max(s) \in s
    <2> DEFINE T == {m \in Nat : n - m \in s}
    <2>1. PICK x \in s : TRUE
      OBVIOUS
    <2>2. n - x \in T
      <3>1. n - x \in Nat /\ n - (n - x) = x
        BY <2>1
      <3> QED
        BY <3>1
    <2>3. PICK k \in T : \A m \in T : ~(m < k)
      BY <2>2, SmallestExists
    <2>4. ASSUME NEW y \in s PROVE n - k >= y
      <3>1. n - y \in Nat /\ n - (n - y) = y
        OBVIOUS
      <3>2. n - y \in T
        BY <3>1
      <3>3. ~(n - y < k)
        BY <2>3, <3>2
      <3> QED
        BY <3>3
    <2>5. n - k \in s
      OBVIOUS
    <2> QED
      BY <2>4, <2>5 DEF Max
  <1>2. IsFiniteSet(1 .. n)
    BY FS_Interval
  <1>3. IsFiniteSet(s)
    BY <1>2, FS_Subset
  <1>4. IsFiniteSet(s \ {Max(s)}) /\ Cardinality(s \ {Max(s)}) = Cardinality(s) - 1
    BY <1>1, <1>3, FS_RemoveElement
  <1> QED
    BY <1>1, <1>3, <1>4, FS_CardinalityType

\* One round of a fold over the first indices of a sequence: the value for a
\* set of indices from the value for the set without its last one.
Round(h, base, step, s) ==
  IF s = {} THEN base ELSE step[<<Max(s), h[s \ {Max(s)}]>>]

Rounds(h, base, step, n) == \A s \in SUBSET (1 .. n) : h[s] = Round(h, base, step, s)

\* A fold with a step that stays in R exists, and stays in R.
LEMMA RoundsExist ==
  ASSUME NEW n \in Nat, NEW R, NEW base \in R, NEW step \in [(1 .. n) \X R -> R]
  PROVE  \E h \in [SUBSET (1 .. n) -> R] : Rounds(h, base, step, n)
  <1> DEFINE S == SUBSET (1 .. n)
             Upto(h, m) == \A s \in S : Cardinality(s) <= m => h[s] = Round(h, base, step, s)
             T == {m \in Nat : ~\E h \in [S -> R] : Upto(h, m)}
  <1>1. \A s \in S : Cardinality(s) \in Nat /\ Cardinality(s) <= n
                     /\ (Cardinality(s) = 0 => s = {})
    <2>1. IsFiniteSet(1 .. n) /\ Cardinality(1 .. n) = n
      BY FS_Interval
    <2>2. SUFFICES ASSUME NEW s \in S
                   PROVE  /\ Cardinality(s) \in Nat /\ Cardinality(s) <= n
                          /\ Cardinality(s) = 0 => s = {}
      OBVIOUS
    <2>3. IsFiniteSet(s) /\ Cardinality(s) <= Cardinality(1 .. n)
      BY <2>1, FS_Subset
    <2>4. Cardinality(s) \in Nat
      BY <2>3, FS_CardinalityType
    <2>5. Cardinality(s) = 0 => s = {}
      BY <2>3, FS_EmptySet
    <2> QED
      BY <2>1, <2>3, <2>4, <2>5
  <1>2. 0 \notin T
    <2> DEFINE h == [s \in S |-> base]
    <2>1. ASSUME NEW s \in S, Cardinality(s) <= 0 PROVE h[s] = Round(h, base, step, s)
      <3>1. s = {}
        BY <1>1, <2>1
      <3> QED
        BY <3>1 DEF Round
    <2>2. Upto(h, 0) /\ h \in [S -> R]
      BY <2>1
    <2> QED
      BY <2>2
  <1>3. ASSUME NEW m \in Nat, m \notin T PROVE m + 1 \notin T
    <2>1. PICK g \in [S -> R] : Upto(g, m)
      BY <1>3
    <2> DEFINE h == [s \in S |-> Round(g, base, step, s)]
    <2>2. ASSUME NEW s \in S PROVE Round(g, base, step, s) \in R
      <3>1. CASE s = {}
        BY <3>1 DEF Round
      <3>2. CASE s # {}
        <4>1. Max(s) \in 1 .. n /\ s \ {Max(s)} \in S
          BY <3>2, LastFacts
        <4>2. g[s \ {Max(s)}] \in R
          BY <4>1
        <4> QED
          BY <3>2, <4>1, <4>2 DEF Round
      <3> QED
        BY <3>1, <3>2
    <2>3. h \in [S -> R]
      BY <2>2
    <2>4. ASSUME NEW s \in S, Cardinality(s) <= m + 1 PROVE h[s] = Round(h, base, step, s)
      <3>1. h[s] = Round(g, base, step, s)
        OBVIOUS
      <3>2. CASE s = {}
        <4> HIDE DEF h
        <4> QED
          BY <3>1, <3>2 DEF Round
      <3>3. CASE s # {}
        <4> DEFINE t == s \ {Max(s)}
        <4>1. t \in S /\ Cardinality(t) = Cardinality(s) - 1 /\ Cardinality(s) \in Nat
          BY <3>3, LastFacts
        <4>2. Cardinality(t) <= m
          BY <2>4, <4>1
        <4>3. g[t] = Round(g, base, step, t)
          BY <2>1, <4>1, <4>2
        <4>4. h[t] = g[t]
          BY <4>1, <4>3
        <4> HIDE DEF h
        <4> QED
          BY <3>1, <3>3, <4>4 DEF Round
      <3> QED
        BY <3>2, <3>3
    <2> HIDE DEF h
    <2>5. Upto(h, m + 1)
      BY <2>4
    <2> QED
      BY <2>3, <2>5
  <1>4. n \notin T
    <2> DEFINE U == {m \in Nat : m \in T}
    <2>1. SUFFICES ASSUME U # {} PROVE FALSE
      OBVIOUS
    <2> HIDE DEF T
    <2>2. PICK m \in U : \A k \in U : ~(k < m)
      BY <2>1, SmallestExists
    <2>3. m \in Nat /\ m \in T /\ m # 0
      BY <1>2
    <2>4. m - 1 \in Nat /\ m - 1 < m /\ (m - 1) + 1 = m
      BY <2>3
    <2>5. m - 1 \notin T
      BY <2>2, <2>4
    <2> QED
      BY <1>3, <2>3, <2>4, <2>5
  <1>5. PICK h \in [S -> R] : Upto(h, n)
    BY <1>4
  <1>6. \A s \in S : h[s] = Round(h, base, step, s)
    BY <1>1, <1>5
  <1> QED
    BY <1>6 DEF Rounds

\* An accumulator that is good stays good in every round.
LEMMA RoundsReach ==
  ASSUME NEW n \in Nat, NEW R, NEW h, h[{}] \in R,
         \A s \in SUBSET (1 .. n) : s # {} /\ h[s \ {Max(s)}] \in R => h[s] \in R
  PROVE  h[1 .. n] \in R
  <1> DEFINE S == SUBSET (1 .. n)
             T == {m \in Nat : \E s \in S : Cardinality(s) = m /\ h[s] \notin R}
  <1>1. SUFFICES ASSUME T # {} PROVE FALSE
    <2>1. 1 .. n \in S /\ Cardinality(1 .. n) \in Nat
      BY FS_Interval, FS_CardinalityType
    <2> QED
      BY <2>1
  <1>2. PICK m \in T : \A k \in T : ~(k < m)
    BY <1>1, SmallestExists
  <1>3. PICK s \in S : Cardinality(s) = m /\ h[s] \notin R
    BY <1>2
  <1>4. s # {}
    BY <1>3
  <1>5. /\ s \ {Max(s)} \in S /\ Cardinality(s) \in Nat
        /\ Cardinality(s \ {Max(s)}) = Cardinality(s) - 1
    BY <1>4, LastFacts
  <1>6. Cardinality(s) # 0
    <2>1. IsFiniteSet(1 .. n)
      BY FS_Interval
    <2>2. IsFiniteSet(s)
      BY <2>1, FS_Subset
    <2> QED
      BY <1>4, <2>2, FS_EmptySet
  <1>7. m - 1 \in Nat /\ m - 1 < m
    BY <1>3, <1>5, <1>6
  <1>8. h[s \ {Max(s)}] \in R
    <2>1. m - 1 \notin T
      BY <1>2, <1>7
    <2> QED
      BY <1>3, <1>5, <1>7, <2>1
  <1> QED
    BY <1>3, <1>4, <1>8

\* The value of a fold, one round at a time.
LEMMA RoundFacts ==
  ASSUME NEW n \in Nat, NEW R, NEW base \in R, NEW step,
         NEW h \in [SUBSET (1 .. n) -> R], Rounds(h, base, step, n), NEW s \in SUBSET (1 .. n)
  PROVE  /\ s = {} => h[s] = base
         /\ s # {} => /\ h[s] = step[<<Max(s), h[s \ {Max(s)}]>>]
                      /\ Max(s) \in 1 .. n /\ h[s \ {Max(s)}] \in R
  <1>1. h[s] = Round(h, base, step, s)
    BY DEF Rounds
  <1>2. CASE s = {}
    BY <1>1, <1>2 DEF Round
  <1>3. CASE s # {}
    <2>1. Max(s) \in 1 .. n /\ s \ {Max(s)} \in SUBSET (1 .. n)
      BY <1>3, LastFacts
    <2> QED
      BY <1>1, <1>3, <2>1 DEF Round
  <1> QED
    BY <1>2, <1>3

\* A fold whose steps stay in R ends in R: merging a stack into slots, ...
LEMMA MergeFold ==
  ASSUME NEW n \in Nat, NEW cells, DOMAIN cells = 1 .. n, NEW R, NEW base \in R,
         \A r \in R, k \in 1 .. n : MergeAt(r, cells[k]) \in R
  PROVE  FoldLeft(MergeAt, base, cells) \in R
  <1> DEFINE step == [p \in (1 .. n) \X R |-> MergeAt(p[2], cells[p[1]])]
             h == CHOOSE h : h = [s \in SUBSET DOMAIN cells |->
                    IF s = {} THEN base ELSE MergeAt(h[s \ {Max(s)}], cells[Max(s)])]
  <1>1. /\ step \in [(1 .. n) \X R -> R]
        /\ \A k \in 1 .. n, r \in R : step[<<k, r>>] = MergeAt(r, cells[k])
    OBVIOUS
  <1>2. PICK g \in [SUBSET (1 .. n) -> R] : Rounds(g, base, step, n)
    <2> HIDE DEF step
    <2> QED
      BY <1>1, RoundsExist
  <1>3. ASSUME NEW s \in SUBSET (1 .. n)
        PROVE  g[s] = IF s = {} THEN base ELSE MergeAt(g[s \ {Max(s)}], cells[Max(s)])
    <2> HIDE DEF step
    <2>1. /\ s = {} => g[s] = base
          /\ s # {} => /\ g[s] = step[<<Max(s), g[s \ {Max(s)}]>>]
                       /\ Max(s) \in 1 .. n /\ g[s \ {Max(s)}] \in R
      BY <1>2, RoundFacts
    <2> QED
      BY <1>1, <2>1
  <1>4. h = [s \in SUBSET DOMAIN cells |->
                    IF s = {} THEN base ELSE MergeAt(h[s \ {Max(s)}], cells[Max(s)])]
    BY <1>3
  <1>5. FoldLeft(MergeAt, base, cells) = h[DOMAIN cells]
    BY DEF FoldLeft, MapThenFoldSet
  <1> HIDE DEF h
  <1>6. ASSUME NEW s \in SUBSET (1 .. n), s # {}, h[s \ {Max(s)}] \in R PROVE h[s] \in R
    <2>1. Max(s) \in 1 .. n
      BY <1>6, LastFacts
    <2>2. h[s] = MergeAt(h[s \ {Max(s)}], cells[Max(s)])
      BY <1>4, <1>6
    <2> QED
      BY <1>6, <2>1, <2>2
  <1>7. h[1 .. n] \in R
    BY <1>4, <1>6, RoundsReach
  <1> QED
    BY <1>5, <1>7

\* ... filling empty slots, ...
LEMMA FillFold ==
  ASSUME NEW n \in Nat, NEW cells, DOMAIN cells = 1 .. n, NEW R, NEW base \in R,
         \A r \in R, k \in 1 .. n : FillAt(r, cells[k]) \in R
  PROVE  FoldLeft(FillAt, base, cells) \in R
  <1> DEFINE step == [p \in (1 .. n) \X R |-> FillAt(p[2], cells[p[1]])]
             h == CHOOSE h : h = [s \in SUBSET DOMAIN cells |->
                    IF s = {} THEN base ELSE FillAt(h[s \ {Max(s)}], cells[Max(s)])]
  <1>1. /\ step \in [(1 .. n) \X R -> R]
        /\ \A k \in 1 .. n, r \in R : step[<<k, r>>] = FillAt(r, cells[k])
    OBVIOUS
  <1>2. PICK g \in [SUBSET (1 .. n) -> R] : Rounds(g, base, step, n)
    <2> HIDE DEF step
    <2> QED
      BY <1>1, RoundsExist
  <1>3. ASSUME NEW s \in SUBSET (1 .. n)
        PROVE  g[s] = IF s = {} THEN base ELSE FillAt(g[s \ {Max(s)}], cells[Max(s)])
    <2> HIDE DEF step
    <2>1. /\ s = {} => g[s] = base
          /\ s # {} => /\ g[s] = step[<<Max(s), g[s \ {Max(s)}]>>]
                       /\ Max(s) \in 1 .. n /\ g[s \ {Max(s)}] \in R
      BY <1>2, RoundFacts
    <2> QED
      BY <1>1, <2>1
  <1>4. h = [s \in SUBSET DOMAIN cells |->
                    IF s = {} THEN base ELSE FillAt(h[s \ {Max(s)}], cells[Max(s)])]
    BY <1>3
  <1>5. FoldLeft(FillAt, base, cells) = h[DOMAIN cells]
    BY DEF FoldLeft, MapThenFoldSet
  <1> HIDE DEF h
  <1>6. ASSUME NEW s \in SUBSET (1 .. n), s # {}, h[s \ {Max(s)}] \in R PROVE h[s] \in R
    <2>1. Max(s) \in 1 .. n
      BY <1>6, LastFacts
    <2>2. h[s] = FillAt(h[s \ {Max(s)}], cells[Max(s)])
      BY <1>4, <1>6
    <2> QED
      BY <1>6, <2>1, <2>2
  <1>7. h[1 .. n] \in R
    BY <1>4, <1>6, RoundsReach
  <1> QED
    BY <1>5, <1>7

\* ... giving batches, ...
LEMMA GiveFold ==
  ASSUME NEW n \in Nat, NEW cells, DOMAIN cells = 1 .. n, NEW R, NEW base \in R,
         \A r \in R, k \in 1 .. n : GiveBatch(r, cells[k]) \in R
  PROVE  FoldLeft(GiveBatch, base, cells) \in R
  <1> DEFINE step == [p \in (1 .. n) \X R |-> GiveBatch(p[2], cells[p[1]])]
             h == CHOOSE h : h = [s \in SUBSET DOMAIN cells |->
                    IF s = {} THEN base ELSE GiveBatch(h[s \ {Max(s)}], cells[Max(s)])]
  <1>1. /\ step \in [(1 .. n) \X R -> R]
        /\ \A k \in 1 .. n, r \in R : step[<<k, r>>] = GiveBatch(r, cells[k])
    OBVIOUS
  <1>2. PICK g \in [SUBSET (1 .. n) -> R] : Rounds(g, base, step, n)
    <2> HIDE DEF step
    <2> QED
      BY <1>1, RoundsExist
  <1>3. ASSUME NEW s \in SUBSET (1 .. n)
        PROVE  g[s] = IF s = {} THEN base ELSE GiveBatch(g[s \ {Max(s)}], cells[Max(s)])
    <2> HIDE DEF step
    <2>1. /\ s = {} => g[s] = base
          /\ s # {} => /\ g[s] = step[<<Max(s), g[s \ {Max(s)}]>>]
                       /\ Max(s) \in 1 .. n /\ g[s \ {Max(s)}] \in R
      BY <1>2, RoundFacts
    <2> QED
      BY <1>1, <2>1
  <1>4. h = [s \in SUBSET DOMAIN cells |->
                    IF s = {} THEN base ELSE GiveBatch(h[s \ {Max(s)}], cells[Max(s)])]
    BY <1>3
  <1>5. FoldLeft(GiveBatch, base, cells) = h[DOMAIN cells]
    BY DEF FoldLeft, MapThenFoldSet
  <1> HIDE DEF h
  <1>6. ASSUME NEW s \in SUBSET (1 .. n), s # {}, h[s \ {Max(s)}] \in R PROVE h[s] \in R
    <2>1. Max(s) \in 1 .. n
      BY <1>6, LastFacts
    <2>2. h[s] = GiveBatch(h[s \ {Max(s)}], cells[Max(s)])
      BY <1>4, <1>6
    <2> QED
      BY <1>6, <2>1, <2>2
  <1>7. h[1 .. n] \in R
    BY <1>4, <1>6, RoundsReach
  <1> QED
    BY <1>5, <1>7

\* ... spreading a stack over the slots of a drag, ...
LEMMA SpreadFold ==
  ASSUME NEW n \in Nat, NEW cells, DOMAIN cells = 1 .. n, NEW R, NEW base \in R,
         \A r \in R, k \in 1 .. n : SpreadAt(r, cells[k]) \in R
  PROVE  FoldLeft(SpreadAt, base, cells) \in R
  <1> DEFINE step == [p \in (1 .. n) \X R |-> SpreadAt(p[2], cells[p[1]])]
             h == CHOOSE h : h = [s \in SUBSET DOMAIN cells |->
                    IF s = {} THEN base ELSE SpreadAt(h[s \ {Max(s)}], cells[Max(s)])]
  <1>1. /\ step \in [(1 .. n) \X R -> R]
        /\ \A k \in 1 .. n, r \in R : step[<<k, r>>] = SpreadAt(r, cells[k])
    OBVIOUS
  <1>2. PICK g \in [SUBSET (1 .. n) -> R] : Rounds(g, base, step, n)
    <2> HIDE DEF step
    <2> QED
      BY <1>1, RoundsExist
  <1>3. ASSUME NEW s \in SUBSET (1 .. n)
        PROVE  g[s] = IF s = {} THEN base ELSE SpreadAt(g[s \ {Max(s)}], cells[Max(s)])
    <2> HIDE DEF step
    <2>1. /\ s = {} => g[s] = base
          /\ s # {} => /\ g[s] = step[<<Max(s), g[s \ {Max(s)}]>>]
                       /\ Max(s) \in 1 .. n /\ g[s \ {Max(s)}] \in R
      BY <1>2, RoundFacts
    <2> QED
      BY <1>1, <2>1
  <1>4. h = [s \in SUBSET DOMAIN cells |->
                    IF s = {} THEN base ELSE SpreadAt(h[s \ {Max(s)}], cells[Max(s)])]
    BY <1>3
  <1>5. FoldLeft(SpreadAt, base, cells) = h[DOMAIN cells]
    BY DEF FoldLeft, MapThenFoldSet
  <1> HIDE DEF h
  <1>6. ASSUME NEW s \in SUBSET (1 .. n), s # {}, h[s \ {Max(s)}] \in R PROVE h[s] \in R
    <2>1. Max(s) \in 1 .. n
      BY <1>6, LastFacts
    <2>2. h[s] = SpreadAt(h[s \ {Max(s)}], cells[Max(s)])
      BY <1>4, <1>6
    <2> QED
      BY <1>6, <2>1, <2>2
  <1>7. h[1 .. n] \in R
    BY <1>4, <1>6, RoundsReach
  <1> QED
    BY <1>5, <1>7

\* ... stamping copies into them, ...
LEMMA StampFold ==
  ASSUME NEW n \in Nat, NEW cells, DOMAIN cells = 1 .. n, NEW R, NEW base \in R,
         \A r \in R, k \in 1 .. n : StampAt(r, cells[k]) \in R
  PROVE  FoldLeft(StampAt, base, cells) \in R
  <1> DEFINE step == [p \in (1 .. n) \X R |-> StampAt(p[2], cells[p[1]])]
             h == CHOOSE h : h = [s \in SUBSET DOMAIN cells |->
                    IF s = {} THEN base ELSE StampAt(h[s \ {Max(s)}], cells[Max(s)])]
  <1>1. /\ step \in [(1 .. n) \X R -> R]
        /\ \A k \in 1 .. n, r \in R : step[<<k, r>>] = StampAt(r, cells[k])
    OBVIOUS
  <1>2. PICK g \in [SUBSET (1 .. n) -> R] : Rounds(g, base, step, n)
    <2> HIDE DEF step
    <2> QED
      BY <1>1, RoundsExist
  <1>3. ASSUME NEW s \in SUBSET (1 .. n)
        PROVE  g[s] = IF s = {} THEN base ELSE StampAt(g[s \ {Max(s)}], cells[Max(s)])
    <2> HIDE DEF step
    <2>1. /\ s = {} => g[s] = base
          /\ s # {} => /\ g[s] = step[<<Max(s), g[s \ {Max(s)}]>>]
                       /\ Max(s) \in 1 .. n /\ g[s \ {Max(s)}] \in R
      BY <1>2, RoundFacts
    <2> QED
      BY <1>1, <2>1
  <1>4. h = [s \in SUBSET DOMAIN cells |->
                    IF s = {} THEN base ELSE StampAt(h[s \ {Max(s)}], cells[Max(s)])]
    BY <1>3
  <1>5. FoldLeft(StampAt, base, cells) = h[DOMAIN cells]
    BY DEF FoldLeft, MapThenFoldSet
  <1> HIDE DEF h
  <1>6. ASSUME NEW s \in SUBSET (1 .. n), s # {}, h[s \ {Max(s)}] \in R PROVE h[s] \in R
    <2>1. Max(s) \in 1 .. n
      BY <1>6, LastFacts
    <2>2. h[s] = StampAt(h[s \ {Max(s)}], cells[Max(s)])
      BY <1>4, <1>6
    <2> QED
      BY <1>6, <2>1, <2>2
  <1>7. h[1 .. n] \in R
    BY <1>4, <1>6, RoundsReach
  <1> QED
    BY <1>5, <1>7

\* ... gathering stacks onto the cursor, ...
LEMMA GatherFold ==
  ASSUME NEW n \in Nat, NEW cells, DOMAIN cells = 1 .. n, NEW R, NEW base \in R,
         \A r \in R, k \in 1 .. n : GatherAt(r, cells[k]) \in R
  PROVE  FoldLeft(GatherAt, base, cells) \in R
  <1> DEFINE step == [p \in (1 .. n) \X R |-> GatherAt(p[2], cells[p[1]])]
             h == CHOOSE h : h = [s \in SUBSET DOMAIN cells |->
                    IF s = {} THEN base ELSE GatherAt(h[s \ {Max(s)}], cells[Max(s)])]
  <1>1. /\ step \in [(1 .. n) \X R -> R]
        /\ \A k \in 1 .. n, r \in R : step[<<k, r>>] = GatherAt(r, cells[k])
    OBVIOUS
  <1>2. PICK g \in [SUBSET (1 .. n) -> R] : Rounds(g, base, step, n)
    <2> HIDE DEF step
    <2> QED
      BY <1>1, RoundsExist
  <1>3. ASSUME NEW s \in SUBSET (1 .. n)
        PROVE  g[s] = IF s = {} THEN base ELSE GatherAt(g[s \ {Max(s)}], cells[Max(s)])
    <2> HIDE DEF step
    <2>1. /\ s = {} => g[s] = base
          /\ s # {} => /\ g[s] = step[<<Max(s), g[s \ {Max(s)}]>>]
                       /\ Max(s) \in 1 .. n /\ g[s \ {Max(s)}] \in R
      BY <1>2, RoundFacts
    <2> QED
      BY <1>1, <2>1
  <1>4. h = [s \in SUBSET DOMAIN cells |->
                    IF s = {} THEN base ELSE GatherAt(h[s \ {Max(s)}], cells[Max(s)])]
    BY <1>3
  <1>5. FoldLeft(GatherAt, base, cells) = h[DOMAIN cells]
    BY DEF FoldLeft, MapThenFoldSet
  <1> HIDE DEF h
  <1>6. ASSUME NEW s \in SUBSET (1 .. n), s # {}, h[s \ {Max(s)}] \in R PROVE h[s] \in R
    <2>1. Max(s) \in 1 .. n
      BY <1>6, LastFacts
    <2>2. h[s] = GatherAt(h[s \ {Max(s)}], cells[Max(s)])
      BY <1>4, <1>6
    <2> QED
      BY <1>6, <2>1, <2>2
  <1>7. h[1 .. n] \in R
    BY <1>4, <1>6, RoundsReach
  <1> QED
    BY <1>5, <1>7

\* ... and removing items from slots.
LEMMA RemoveFold ==
  ASSUME NEW n \in Nat, NEW cells, DOMAIN cells = 1 .. n, NEW R, NEW base \in R,
         \A r \in R, k \in 1 .. n : RemoveAt1(r, cells[k]) \in R
  PROVE  FoldLeft(RemoveAt1, base, cells) \in R
  <1> DEFINE step == [p \in (1 .. n) \X R |-> RemoveAt1(p[2], cells[p[1]])]
             h == CHOOSE h : h = [s \in SUBSET DOMAIN cells |->
                    IF s = {} THEN base ELSE RemoveAt1(h[s \ {Max(s)}], cells[Max(s)])]
  <1>1. /\ step \in [(1 .. n) \X R -> R]
        /\ \A k \in 1 .. n, r \in R : step[<<k, r>>] = RemoveAt1(r, cells[k])
    OBVIOUS
  <1>2. PICK g \in [SUBSET (1 .. n) -> R] : Rounds(g, base, step, n)
    <2> HIDE DEF step
    <2> QED
      BY <1>1, RoundsExist
  <1>3. ASSUME NEW s \in SUBSET (1 .. n)
        PROVE  g[s] = IF s = {} THEN base ELSE RemoveAt1(g[s \ {Max(s)}], cells[Max(s)])
    <2> HIDE DEF step
    <2>1. /\ s = {} => g[s] = base
          /\ s # {} => /\ g[s] = step[<<Max(s), g[s \ {Max(s)}]>>]
                       /\ Max(s) \in 1 .. n /\ g[s \ {Max(s)}] \in R
      BY <1>2, RoundFacts
    <2> QED
      BY <1>1, <2>1
  <1>4. h = [s \in SUBSET DOMAIN cells |->
                    IF s = {} THEN base ELSE RemoveAt1(h[s \ {Max(s)}], cells[Max(s)])]
    BY <1>3
  <1>5. FoldLeft(RemoveAt1, base, cells) = h[DOMAIN cells]
    BY DEF FoldLeft, MapThenFoldSet
  <1> HIDE DEF h
  <1>6. ASSUME NEW s \in SUBSET (1 .. n), s # {}, h[s \ {Max(s)}] \in R PROVE h[s] \in R
    <2>1. Max(s) \in 1 .. n
      BY <1>6, LastFacts
    <2>2. h[s] = RemoveAt1(h[s \ {Max(s)}], cells[Max(s)])
      BY <1>4, <1>6
    <2> QED
      BY <1>6, <2>1, <2>2
  <1>7. h[1 .. n] \in R
    BY <1>4, <1>6, RoundsReach
  <1> QED
    BY <1>5, <1>7

---------------------------------------------------------------------------
\* Stacks and what they count

Amount(s, i) == IF s.item = i THEN s.count ELSE 0

\* A stack is empty, or an item with a count the item allows.
LEMMA StackFacts ==
  ASSUME NEW s \in Stack
  PROVE  /\ s.count \in Nat
         /\ s = Empty => s.item = NoItem /\ s.count = 0
         /\ s # Empty => /\ s.item \in Items /\ s.count \in 1 .. MaxCount[s.item]
                         /\ MaxCount[s.item] \in Nat \ {0}
                         /\ s = [item |-> s.item, count |-> s.count]
         /\ s = Empty <=> s.item = NoItem
         /\ \A i \in Items : Amount(s, i) \in Nat /\ Amount(Empty, i) = 0
  <1>1. MaxCount \in [Items -> Nat \ {0}] /\ NoItem \notin Items
    BY ContainersAssumption
  <1>2. Empty.item = NoItem /\ Empty.count = 0
    BY DEF Empty
  <1>3. \A i \in Items : Amount(Empty, i) = 0
    BY <1>1, <1>2 DEF Amount
  <1>4. CASE s = Empty
    BY <1>2, <1>3, <1>4
  <1>5. CASE s # Empty
    <2>1. PICK i \in Items : s \in [item : {i}, count : 1 .. MaxCount[i]]
      BY <1>5 DEF Stack
    <2>2. s.item = i /\ s.count \in 1 .. MaxCount[i] /\ s = [item |-> s.item, count |-> s.count]
      BY <2>1
    <2>3. MaxCount[i] \in Nat \ {0} /\ i # NoItem
      BY <1>1
    <2>4. \A j \in Items : Amount(s, j) \in Nat
      BY <2>2, <2>3 DEF Amount
    <2> QED
      BY <1>3, <1>5, <2>2, <2>3, <2>4
  <1> QED
    BY <1>4, <1>5

\* An item with a count it allows is a stack.
LEMMA StackMade ==
  ASSUME NEW i \in Items, NEW n \in 1 .. MaxCount[i]
  PROVE  [item |-> i, count |-> n] \in Stack
  BY DEF Stack

\* No item at all is a stack too.
LEMMA EmptyIsStack == Empty \in Stack
  BY DEF Stack

\* A stack with another count, as long as its item allows it.
LEMMA WithCountFacts ==
  ASSUME NEW s \in Stack, s # Empty, NEW n \in 0 .. MaxCount[s.item]
  PROVE  /\ WithCount(s, n) \in Stack
         /\ n = 0 => WithCount(s, n) = Empty
         /\ n # 0 => /\ WithCount(s, n).item = s.item /\ WithCount(s, n).count = n
                     /\ WithCount(s, n) # Empty
         /\ \A i \in Items : Amount(WithCount(s, n), i) = IF s.item = i THEN n ELSE 0
  <1>1. s.item \in Items /\ MaxCount[s.item] \in Nat /\ s = [item |-> s.item, count |-> s.count]
        /\ s.item # NoItem
    BY StackFacts
  <1>2. CASE n = 0
    <2>1. WithCount(s, n) = Empty
      BY <1>2 DEF WithCount
    <2> QED
      BY <1>2, <2>1, EmptyIsStack, StackFacts
  <1>3. CASE n # 0
    <2>1. WithCount(s, n) = [item |-> s.item, count |-> n]
      <3>1. WithCount(s, n) = [s EXCEPT !.count = n]
        BY <1>3 DEF WithCount
      <3>2. [[item |-> s.item, count |-> s.count] EXCEPT !.count = n]
              = [item |-> s.item, count |-> n]
        OBVIOUS
      <3> QED
        BY <1>1, <3>1, <3>2
    <2>2. n \in 1 .. MaxCount[s.item]
      BY <1>1, <1>3
    <2>3. WithCount(s, n) \in Stack
      BY <1>1, <2>1, <2>2, StackMade
    <2>4. WithCount(s, n).item = s.item /\ WithCount(s, n).count = n
      BY <2>1
    <2>5. WithCount(s, n) # Empty
      BY <1>1, <2>4 DEF Empty
    <2> QED
      BY <1>3, <2>3, <2>4, <2>5 DEF Amount
  <1> QED
    BY <1>2, <1>3

\* Taking nothing of an empty stack leaves it empty.
LEMMA WithCountZero ==
  ASSUME NEW s
  PROVE  WithCount(s, 0) = Empty
  BY DEF WithCount

\* A stack with the count it has is itself.
LEMMA SameCount ==
  ASSUME NEW s \in Stack, s # Empty, NEW n, n = s.count
  PROVE  WithCount(s, n) = s
  <1>1. s = [item |-> s.item, count |-> s.count] /\ n # 0
    BY StackFacts
  <1> QED
    BY <1>1 DEF WithCount

\* The smaller of two counts is one of them.
LEMMA LeastFacts ==
  ASSUME NEW a \in Nat, NEW b \in Nat
  PROVE  Least(a, b) \in Nat /\ Least(a, b) <= a /\ Least(a, b) <= b
         /\ (Least(a, b) = a \/ Least(a, b) = b)
  BY DEF Least

\* The room of a stack is what it lacks of a full one.
LEMMA RoomFacts ==
  ASSUME NEW s \in Stack, s # Empty
  PROVE  Room(s) \in Nat /\ s.count + Room(s) = MaxCount[s.item]
  <1>1. s.count \in 1 .. MaxCount[s.item] /\ MaxCount[s.item] \in Nat
    BY StackFacts
  <1> QED
    BY <1>1 DEF Room

---------------------------------------------------------------------------
\* Counting the items in cells

\* The pairs of two finite sets.
LEMMA PairsFinite ==
  ASSUME NEW S, NEW T, IsFiniteSet(S), IsFiniteSet(T), NEW P, P = S \X T
  PROVE  IsFiniteSet(P) /\ Cardinality(P) = Cardinality(S) * Cardinality(T)
  <1>1. IsFiniteSet(S \X T) /\ Cardinality(S \X T) = Cardinality(S) * Cardinality(T)
    BY FS_Product, Zenon
  <1> QED
    BY <1>1, Zenon

\* The rest of a finite set has the rest of its members.
LEMMA SetMinus ==
  ASSUME NEW S, NEW T, IsFiniteSet(S), T \subseteq S, NEW R, R = S \ T
  PROVE  IsFiniteSet(R) /\ Cardinality(R) = Cardinality(S) - Cardinality(T)
  <1>1. IsFiniteSet(S \ T) /\ Cardinality(S \ T) = Cardinality(S) - Cardinality(S \cap T)
    BY FS_Difference, Zenon
  <1>2. S \cap T = T
    OBVIOUS
  <1> QED
    BY <1>1, <1>2, Zenon

UnitsAt(cells, ref, i) == {u \in Units(cells, i) : u[1] = ref}

\* Finitely many cells hold finitely many units of an item.
LEMMA UnitsFinite ==
  ASSUME NEW D, IsFiniteSet(D), NEW cells \in [D -> Stack], NEW i \in Items
  PROVE  IsFiniteSet(Units(cells, i)) /\ Cardinality(Units(cells, i)) \in Nat
  <1>1. MaxCount[i] \in Nat
    BY ContainersAssumption
  <1>2. IsFiniteSet(1 .. MaxCount[i])
    BY <1>1, FS_Interval
  <1>3. PICK P : P = D \X (1 .. MaxCount[i])
    OBVIOUS
  <1>4. IsFiniteSet(P)
    BY <1>2, <1>3, PairsFinite
  <1>5. Units(cells, i) \in SUBSET P
    BY <1>3 DEF Units
  <1> QED
    BY <1>4, <1>5, FS_Subset, FS_CardinalityType

\* A cell counts as many units of an item as its stack has.
LEMMA UnitsOfCell ==
  ASSUME NEW D, IsFiniteSet(D), NEW cells \in [D -> Stack], NEW i \in Items, NEW ref \in D
  PROVE  /\ IsFiniteSet(UnitsAt(cells, ref, i))
         /\ Cardinality(UnitsAt(cells, ref, i)) = Amount(cells[ref], i)
  <1> DEFINE n == Amount(cells[ref], i)
  <1>1. MaxCount[i] \in Nat /\ i # NoItem
    BY ContainersAssumption
  <1>2. cells[ref] \in Stack
    OBVIOUS
  <1>3. n \in Nat /\ n <= MaxCount[i]
    <2>1. CASE cells[ref].item = i
      <3>1. cells[ref] # Empty
        BY <1>1, <2>1 DEF Empty
      <3>2. cells[ref].count \in 1 .. MaxCount[i]
        BY <1>2, <2>1, <3>1, StackFacts
      <3> QED
        BY <1>1, <2>1, <3>2 DEF Amount
    <2>2. CASE cells[ref].item # i
      BY <1>1, <2>2 DEF Amount
    <2> QED
      BY <2>1, <2>2
  <1>4. UnitsAt(cells, ref, i) = {ref} \X (1 .. n)
    <2>1. ASSUME NEW u \in UnitsAt(cells, ref, i) PROVE u \in {ref} \X (1 .. n)
      <3>1. /\ u \in D \X (1 .. MaxCount[i]) /\ u[1] = ref
            /\ cells[ref].item = i /\ u[2] <= cells[ref].count
        BY <2>1 DEF UnitsAt, Units
      <3>2. n = cells[ref].count
        BY <3>1 DEF Amount
      <3> QED
        BY <1>3, <3>1, <3>2
    <2>2. ASSUME NEW u \in {ref} \X (1 .. n) PROVE u \in UnitsAt(cells, ref, i)
      <3>1. u[1] = ref /\ u[2] \in 1 .. n
        OBVIOUS
      <3>2. n # 0
        BY <1>3, <3>1
      <3>3. cells[ref].item = i /\ n = cells[ref].count
        BY <3>2 DEF Amount
      <3>4. u \in D \X (1 .. MaxCount[i]) /\ u[2] <= cells[ref].count
        BY <1>1, <1>3, <3>1, <3>3
      <3> QED
        BY <3>1, <3>3, <3>4 DEF UnitsAt, Units
    <2> QED
      BY <2>1, <2>2
  <1>5. IsFiniteSet(1 .. n) /\ Cardinality(1 .. n) = n
    BY <1>3, FS_Interval
  <1>6. IsFiniteSet({ref}) /\ Cardinality({ref}) = 1
    BY FS_Singleton
  <1> HIDE DEF n
  <1>7. PICK P : P = {ref} \X (1 .. n)
    OBVIOUS
  <1>8. IsFiniteSet(P) /\ Cardinality(P) = Cardinality({ref}) * Cardinality(1 .. n)
    BY <1>5, <1>6, <1>7, PairsFinite
  <1>9. Cardinality(P) = n
    BY <1>3, <1>5, <1>6, <1>8
  <1> QED
    BY <1>4, <1>7, <1>8, <1>9 DEF n

Replaced(D, cells, after, ref, t) ==
  after \in [D -> Stack] /\ after[ref] = t /\ \A x \in D \ {ref} : after[x] = cells[x]

\* Replacing one stack changes the count by the difference of the two stacks.
LEMMA UnitsUpdate ==
  ASSUME NEW D, IsFiniteSet(D), NEW cells \in [D -> Stack], NEW ref \in D, NEW t \in Stack,
         NEW after, Replaced(D, cells, after, ref, t), NEW i \in Items
  PROVE  /\ Cardinality(Units(after, i)) + Amount(cells[ref], i)
              = Cardinality(Units(cells, i)) + Amount(t, i)
         /\ Cardinality(Units(after, i)) \in Nat /\ Cardinality(Units(cells, i)) \in Nat
         /\ Amount(cells[ref], i) \in Nat /\ Amount(t, i) \in Nat
  <1> DEFINE rest(f) == Units(f, i) \ UnitsAt(f, ref, i)
  <1>1. after \in [D -> Stack] /\ after[ref] = t
    BY DEF Replaced
  <1>2. ASSUME NEW f \in [D -> Stack]
        PROVE  /\ Cardinality(Units(f, i)) = Cardinality(rest(f)) + Amount(f[ref], i)
               /\ Cardinality(rest(f)) \in Nat /\ Amount(f[ref], i) \in Nat
               /\ Cardinality(Units(f, i)) \in Nat
    <2>1. IsFiniteSet(Units(f, i)) /\ Cardinality(Units(f, i)) \in Nat
      BY UnitsFinite
    <2>2. Cardinality(UnitsAt(f, ref, i)) = Amount(f[ref], i)
      BY UnitsOfCell
    <2>3. UnitsAt(f, ref, i) \subseteq Units(f, i)
      BY DEF UnitsAt
    <2>4. /\ IsFiniteSet(rest(f))
          /\ Cardinality(rest(f)) = Cardinality(Units(f, i)) - Amount(f[ref], i)
      BY <2>1, <2>2, <2>3, SetMinus
    <2>5. Cardinality(rest(f)) \in Nat
      BY <2>4, FS_CardinalityType
    <2>6. f[ref] \in Stack
      OBVIOUS
    <2>7. Amount(f[ref], i) \in Nat
      BY <2>6, StackFacts
    <2> HIDE DEF rest
    <2> QED
      BY <2>1, <2>4, <2>5, <2>7
  <1>3. rest(after) = rest(cells)
    <2>1. DOMAIN after = D /\ DOMAIN cells = D /\ \A x \in D \ {ref} : after[x] = cells[x]
      BY DEF Replaced
    <2> QED
      BY <2>1 DEF Units, UnitsAt
  <1> HIDE DEF rest
  <1>4. Cardinality(Units(cells, i)) = Cardinality(rest(cells)) + Amount(cells[ref], i)
    BY <1>2
  <1>5. Cardinality(Units(after, i)) = Cardinality(rest(cells)) + Amount(t, i)
    BY <1>1, <1>2, <1>3
  <1>6. Cardinality(rest(cells)) \in Nat /\ Amount(cells[ref], i) \in Nat /\ Amount(t, i) \in Nat
        /\ Cardinality(Units(after, i)) \in Nat /\ Cardinality(Units(cells, i)) \in Nat
    BY <1>1, <1>2
  <1> QED
    BY <1>1, <1>4, <1>5, <1>6

---------------------------------------------------------------------------
\* Slots

Chest == {<<"external", k>> : k \in 0 .. (ChestSlots - 1)}

\* The sizes of the layout are numbers, in the order of the slots.
LEMMA Sizes ==
  /\ MainStart \in Nat /\ HotbarStart \in Nat /\ HotbarEnd \in Nat /\ ChestSlots \in Nat
  /\ MainStart < HotbarStart /\ HotbarStart <= HotbarEnd /\ OffhandSlot = HotbarEnd + 1
  BY ContainersAssumption DEF OffhandSlot

\* The cells of a range of the player's slots, and those of a container.
LEMMA RangeFacts ==
  ASSUME NEW first \in Nat, NEW last \in Nat, first <= last
  PROVE  /\ last - first + 1 \in Nat /\ DOMAIN PlayerCells(first, last) = 1 .. (last - first + 1)
         /\ ToSet(PlayerCells(first, last)) = {<<"player", k>> : k \in first .. last}
         /\ \A k \in 1 .. (last - first + 1) :
              PlayerCells(first, last)[k] \in {<<"player", m>> : m \in first .. last}
  <1> DEFINE n == last - first + 1
  <1>1. PlayerCells(first, last) = [k \in 1 .. n |-> <<"player", first + k - 1>>]
    BY DEF PlayerCells
  <1>2. n \in Nat
    OBVIOUS
  <1>3. ASSUME NEW k \in 1 .. n
        PROVE  PlayerCells(first, last)[k] \in {<<"player", m>> : m \in first .. last}
    <2>1. first + k - 1 \in first .. last
      OBVIOUS
    <2> QED
      BY <1>1, <2>1
  <1>4. ASSUME NEW m \in first .. last
        PROVE  \E k \in 1 .. n : PlayerCells(first, last)[k] = <<"player", m>>
    <2>1. m - first + 1 \in 1 .. n /\ first + (m - first + 1) - 1 = m
      OBVIOUS
    <2> QED
      BY <1>1, <2>1
  <1> QED
    BY <1>1, <1>2, <1>3, <1>4 DEF ToSet

\* The cells of an open container are the container's slots.
LEMMA ChestFacts ==
  /\ DOMAIN ChestCells = 1 .. ChestSlots /\ ToSet(ChestCells) = Chest
  /\ \A k \in 1 .. ChestSlots : ChestCells[k] \in Chest
  <1>1. ChestCells = [k \in 1 .. ChestSlots |-> <<"external", k - 1>>]
    BY DEF ChestCells
  <1>2. ChestSlots \in Nat
    BY Sizes
  <1>3. \A k \in 1 .. ChestSlots : ChestCells[k] \in Chest
    <2>1. \A k \in 1 .. ChestSlots : k - 1 \in 0 .. (ChestSlots - 1)
      BY <1>2
    <2> QED
      BY <1>1, <2>1 DEF Chest
  <1>4. ASSUME NEW m \in 0 .. (ChestSlots - 1)
        PROVE  \E k \in 1 .. ChestSlots : ChestCells[k] = <<"external", m>>
    <2>1. m + 1 \in 1 .. ChestSlots /\ (m + 1) - 1 = m
      BY <1>2
    <2> QED
      BY <1>1, <2>1
  <1> QED
    BY <1>1, <1>3, <1>4 DEF ToSet, Chest

\* The slots are the player's and the container's, and finitely many.
LEMMA RefFacts ==
  /\ PlayerRefs = {<<"player", k>> : k \in 0 .. OffhandSlot}
  /\ Refs = PlayerRefs \cup Chest /\ PlayerRefs \cap Chest = {} /\ NoRef \notin Refs
  /\ IsFiniteSet(PlayerRefs) /\ IsFiniteSet(Chest) /\ IsFiniteSet(Refs)
  <1>1. PlayerRefs = {<<"player", k>> : k \in 0 .. OffhandSlot}
    BY Sizes, RangeFacts DEF PlayerRefs
  <1>2. Refs = PlayerRefs \cup Chest
    BY ChestFacts DEF Refs
  <1>3. PlayerRefs \cap Chest = {} /\ NoRef \notin Refs
    BY <1>1, <1>2 DEF Chest, NoRef
  <1>4. IsFiniteSet(PlayerRefs)
    <2>1. IsFiniteSet({"player"}) /\ IsFiniteSet(0 .. OffhandSlot)
      <3>1. IsFiniteSet({"player"})
        BY FS_Singleton
      <3>2. 0 \in Int /\ OffhandSlot \in Int
        BY Sizes
      <3>3. IsFiniteSet(0 .. OffhandSlot)
        BY <3>2, FS_Interval
      <3> QED
        BY <3>1, <3>3
    <2>2. PICK P : P = {"player"} \X (0 .. OffhandSlot)
      OBVIOUS
    <2>3. PlayerRefs \in SUBSET P
      BY <1>1, <2>2
    <2>4. IsFiniteSet(P)
      BY <2>1, <2>2, PairsFinite
    <2> QED
      BY <2>3, <2>4, FS_Subset
  <1>5. IsFiniteSet(Chest)
    <2>1. IsFiniteSet({"external"}) /\ IsFiniteSet(0 .. (ChestSlots - 1))
      <3>1. IsFiniteSet({"external"})
        BY FS_Singleton
      <3>2. 0 \in Int /\ (ChestSlots - 1) \in Int
        BY Sizes
      <3>3. IsFiniteSet(0 .. (ChestSlots - 1))
        BY <3>2, FS_Interval
      <3> QED
        BY <3>1, <3>3
    <2>2. PICK P : P = {"external"} \X (0 .. (ChestSlots - 1))
      OBVIOUS
    <2>3. Chest \in SUBSET P
      BY <2>2 DEF Chest
    <2>4. IsFiniteSet(P)
      BY <2>1, <2>2, PairsFinite
    <2> QED
      BY <2>3, <2>4, FS_Subset
  <1>6. IsFiniteSet(Refs)
    BY <1>2, <1>4, <1>5, FS_Union
  <1> QED
    BY <1>1, <1>2, <1>3, <1>4, <1>5, <1>6

\* Every sequence of cells that an operation folds over.
LEMMA CellsFacts ==
  /\ HotbarEnd - MainStart + 1 \in Nat /\ DOMAIN Storage = 1 .. (HotbarEnd - MainStart + 1)
  /\ HotbarStart - MainStart \in Nat /\ DOMAIN Main = 1 .. (HotbarStart - MainStart)
  /\ HotbarEnd - HotbarStart + 1 \in Nat /\ DOMAIN Hotbar = 1 .. (HotbarEnd - HotbarStart + 1)
  /\ ToSet(Storage) = {<<"player", k>> : k \in MainStart .. HotbarEnd}
  /\ ToSet(Main) = {<<"player", k>> : k \in MainStart .. (HotbarStart - 1)}
  /\ ToSet(Hotbar) = {<<"player", k>> : k \in HotbarStart .. HotbarEnd}
  /\ ToSet(Storage) \subseteq PlayerRefs /\ ToSet(Storage) = ToSet(Main) \cup ToSet(Hotbar)
  <1>1. HotbarStart - 1 \in Nat /\ MainStart <= HotbarStart - 1 /\ HotbarStart <= HotbarEnd
        /\ MainStart <= HotbarEnd /\ (HotbarStart - 1) - MainStart + 1 = HotbarStart - MainStart
    BY Sizes
  <1>2. /\ HotbarEnd - MainStart + 1 \in Nat /\ DOMAIN Storage = 1 .. (HotbarEnd - MainStart + 1)
        /\ ToSet(Storage) = {<<"player", k>> : k \in MainStart .. HotbarEnd}
    BY <1>1, Sizes, RangeFacts DEF Storage
  <1>3. /\ HotbarEnd - HotbarStart + 1 \in Nat /\ DOMAIN Hotbar = 1 .. (HotbarEnd - HotbarStart + 1)
        /\ ToSet(Hotbar) = {<<"player", k>> : k \in HotbarStart .. HotbarEnd}
    BY <1>1, Sizes, RangeFacts DEF Hotbar
  <1>4. /\ HotbarStart - MainStart \in Nat /\ DOMAIN Main = 1 .. (HotbarStart - MainStart)
        /\ ToSet(Main) = {<<"player", k>> : k \in MainStart .. (HotbarStart - 1)}
    <2>1. PICK l : l = HotbarStart - 1
      OBVIOUS
    <2>2. /\ l - MainStart + 1 \in Nat
          /\ DOMAIN PlayerCells(MainStart, l) = 1 .. (l - MainStart + 1)
          /\ ToSet(PlayerCells(MainStart, l)) = {<<"player", k>> : k \in MainStart .. l}
      BY <1>1, <2>1, Sizes, RangeFacts
    <2> QED
      BY <1>1, <2>1, <2>2 DEF Main
  <1>5. \A k \in MainStart .. HotbarEnd : k \in 0 .. OffhandSlot
    BY Sizes
  <1>6. MainStart .. HotbarEnd = (MainStart .. (HotbarStart - 1)) \cup (HotbarStart .. HotbarEnd)
    BY Sizes
  <1>7. ToSet(Storage) \subseteq PlayerRefs
    BY <1>2, <1>5, RefFacts
  <1>8. ToSet(Storage) = ToSet(Main) \cup ToSet(Hotbar)
    BY <1>2, <1>3, <1>4, <1>6
  <1> QED
    BY <1>2, <1>3, <1>4, <1>7, <1>8

\* The slots that exist: those of the player, and of the container while one
\* is open.
Usable == IF open = 0 THEN PlayerRefs ELSE Refs
Slots == {s \in [Refs -> Stack] : \A ref \in Refs \ Usable : s[ref] = Empty}

\* A slot number that resolves names a slot that exists.
LEMMA ResolveFacts ==
  ASSUME NEW slot \in Int, Resolve(slot) # NoRef
  PROVE  Resolve(slot) \in Usable
  <1> DEFINE behind == MainStart + slot - ChestSlots
  <1>1. behind \in Int /\ OffhandSlot \in Nat
    BY Sizes
  <1>2. CASE open = 0
    <2>1. slot \in 0 .. OffhandSlot /\ Resolve(slot) = <<"player", slot>>
      BY <1>2 DEF Resolve
    <2> QED
      BY <1>2, <2>1, RefFacts DEF Usable
  <1>3. CASE open # 0
    <2>1. CASE slot \in 0 .. (ChestSlots - 1)
      <3>1. Resolve(slot) = <<"external", slot>>
        BY <1>3, <2>1, Sizes DEF Resolve
      <3> QED
        BY <1>3, <2>1, <3>1, RefFacts DEF Usable, Chest
    <2>2. CASE slot \notin 0 .. (ChestSlots - 1)
      <3>1. /\ slot >= ChestSlots /\ behind <= OffhandSlot
            /\ Resolve(slot) = <<"player", behind>>
        BY <1>3, <2>2, Sizes DEF Resolve
      <3>2. behind \in 0 .. OffhandSlot
        BY <3>1, Sizes
      <3> HIDE DEF behind
      <3> QED
        BY <1>3, <3>1, <3>2, RefFacts DEF Usable
    <2> QED
      BY <2>1, <2>2
  <1> QED
    BY <1>2, <1>3

\* A slot's stack is replaced by another one.
Weighs(before, after, old, new) ==
  \A i \in Items :
    /\ Cardinality(Units(after, i)) + Amount(old, i)
         = Cardinality(Units(before, i)) + Amount(new, i)
    /\ Cardinality(Units(after, i)) \in Nat /\ Cardinality(Units(before, i)) \in Nat
    /\ Amount(old, i) \in Nat /\ Amount(new, i) \in Nat

\* One slot gets another stack.
LEMMA SlotUpdate ==
  ASSUME NEW s \in Slots, NEW ref \in Usable, NEW t \in Stack,
         NEW after, after = [s EXCEPT ![ref] = t]
  PROVE  /\ after \in Slots /\ ref \in Refs /\ s[ref] \in Stack
         /\ after[ref] = t /\ DOMAIN after = Refs
         /\ \A x \in Refs \ {ref} : after[x] = s[x]
         /\ Weighs(s, after, s[ref], t)
         /\ \A i \in Items :
              /\ Cardinality(Units(after, i)) + Amount(s[ref], i)
                   = Cardinality(Units(s, i)) + Amount(t, i)
              /\ Cardinality(Units(after, i)) \in Nat /\ Cardinality(Units(s, i)) \in Nat
              /\ Amount(s[ref], i) \in Nat /\ Amount(t, i) \in Nat
  <1>1. s \in [Refs -> Stack] /\ ref \in Refs /\ IsFiniteSet(Refs)
    BY RefFacts DEF Slots, Usable
  <1>2. after \in [Refs -> Stack] /\ after[ref] = t /\ DOMAIN after = Refs
        /\ s[ref] \in Stack /\ \A x \in Refs \ {ref} : after[x] = s[x]
    BY <1>1
  <1>3. after \in Slots
    BY <1>2 DEF Slots
  <1>4. ASSUME NEW i \in Items
        PROVE  /\ Cardinality(Units(after, i)) + Amount(s[ref], i)
                   = Cardinality(Units(s, i)) + Amount(t, i)
              /\ Cardinality(Units(after, i)) \in Nat /\ Cardinality(Units(s, i)) \in Nat
              /\ Amount(s[ref], i) \in Nat /\ Amount(t, i) \in Nat
    <2>1. PICK D : D = Refs
      OBVIOUS
    <2>2. IsFiniteSet(D) /\ s \in [D -> Stack] /\ ref \in D /\ Replaced(D, s, after, ref, t)
      BY <1>1, <1>2, <2>1 DEF Replaced
    <2>3. Cardinality(Units(after, i)) + Amount(s[ref], i)
            = Cardinality(Units(s, i)) + Amount(t, i)
      BY <2>2, UnitsUpdate
    <2>4. /\ Cardinality(Units(after, i)) \in Nat /\ Cardinality(Units(s, i)) \in Nat
          /\ Amount(s[ref], i) \in Nat /\ Amount(t, i) \in Nat
      BY <2>2, UnitsUpdate
    <2> QED
      BY <2>3, <2>4
  <1>5. Weighs(s, after, s[ref], t)
    BY <1>4 DEF Weighs
  <1> QED
    BY <1>1, <1>2, <1>3, <1>4, <1>5

\* The same, with the counts behind one name.
LEMMA SlotWeighs ==
  ASSUME NEW s \in Slots, NEW ref \in Usable, NEW t \in Stack,
         NEW after, after = [s EXCEPT ![ref] = t], NEW old, old = s[ref]
  PROVE  after \in Slots /\ Weighs(s, after, old, t)
  BY SlotUpdate

---------------------------------------------------------------------------
\* Inserting a stack

\* How far an insertion may have come: slots outside `changed` are as they
\* were, and what is in the slots and still without a place is what there was.
Insertion(into, stack, cells) ==
  {r \in [stacks : Slots, rest : Stack, changed : SUBSET ToSet(cells)] :
     /\ \A ref \in Refs \ r.changed : r.stacks[ref] = into[ref]
     /\ \A i \in Items : Cardinality(Units(r.stacks, i)) + Amount(r.rest, i)
                           = Cardinality(Units(into, i)) + Amount(stack, i)}

\* A step that moves items from the rest to one slot and reports the slot.
LEMMA InsertionStep ==
  ASSUME NEW into, NEW stack, NEW cells, ToSet(cells) \subseteq Usable,
         NEW r \in Insertion(into, stack, cells), NEW cell \in ToSet(cells),
         NEW t \in Stack, NEW rest \in Stack,
         \A i \in Items : Amount(t, i) + Amount(rest, i)
                            = Amount(r.stacks[cell], i) + Amount(r.rest, i),
         NEW d, d = [stacks |-> [r.stacks EXCEPT ![cell] = t], rest |-> rest,
                     changed |-> r.changed \cup {cell}]
  PROVE  d \in Insertion(into, stack, cells)
  <1>1. /\ r.stacks \in Slots /\ r.rest \in Stack /\ r.changed \subseteq ToSet(cells)
        /\ \A ref \in Refs \ r.changed : r.stacks[ref] = into[ref]
        /\ \A i \in Items : Cardinality(Units(r.stacks, i)) + Amount(r.rest, i)
                              = Cardinality(Units(into, i)) + Amount(stack, i)
    BY DEF Insertion
  <1>2. PICK a : a = [r.stacks EXCEPT ![cell] = t]
    OBVIOUS
  <1>3. cell \in Usable
    OBVIOUS
  <1>4. /\ a \in Slots
        /\ \A x \in Refs \ {cell} : a[x] = r.stacks[x]
        /\ \A i \in Items :
              /\ Cardinality(Units(a, i)) + Amount(r.stacks[cell], i)
                   = Cardinality(Units(r.stacks, i)) + Amount(t, i)
              /\ Cardinality(Units(a, i)) \in Nat /\ Cardinality(Units(r.stacks, i)) \in Nat
              /\ Amount(r.stacks[cell], i) \in Nat /\ Amount(t, i) \in Nat
    BY <1>1, <1>2, <1>3, SlotUpdate
  <1>5. d = [stacks |-> a, rest |-> rest, changed |-> r.changed \cup {cell}]
    BY <1>2
  <1>6. ASSUME NEW i \in Items
        PROVE  Cardinality(Units(d.stacks, i)) + Amount(d.rest, i)
                 = Cardinality(Units(into, i)) + Amount(stack, i)
    <2>1. Amount(rest, i) \in Nat /\ Amount(r.rest, i) \in Nat
      BY <1>1, StackFacts
    <2>2. Amount(t, i) + Amount(rest, i) = Amount(r.stacks[cell], i) + Amount(r.rest, i)
      OBVIOUS
    <2>3. Cardinality(Units(a, i)) + Amount(rest, i)
            = Cardinality(Units(r.stacks, i)) + Amount(r.rest, i)
      BY <1>4, <2>1, <2>2
    <2> QED
      BY <1>1, <1>5, <2>3
  <1>7. d \in [stacks : Slots, rest : Stack, changed : SUBSET ToSet(cells)]
    BY <1>1, <1>4, <1>5
  <1>8. \A ref \in Refs \ d.changed : d.stacks[ref] = into[ref]
    BY <1>1, <1>4, <1>5
  <1> QED
    BY <1>6, <1>7, <1>8 DEF Insertion

\* Merging what is left into a slot of the same item is such a step.
LEMMA MergeKeeps ==
  ASSUME NEW into, NEW stack, NEW cells, ToSet(cells) \subseteq Usable,
         NEW r \in Insertion(into, stack, cells), NEW cell \in ToSet(cells)
  PROVE  MergeAt(r, cell) \in Insertion(into, stack, cells)
  <1> DEFINE moved == IF CanMerge(r.stacks[cell], r.rest)
                      THEN Least(Room(r.stacks[cell]), r.rest.count) ELSE 0
  <1>1. PICK here : here = r.stacks[cell]
    OBVIOUS
  <1>2. here \in Stack /\ r.rest \in Stack
    <2>1. cell \in Refs /\ r.stacks \in [Refs -> Stack] /\ r.rest \in Stack
      BY RefFacts DEF Insertion, Slots, Usable
    <2> QED
      BY <1>1, <2>1
  <1>3. CASE moved = 0
    <2>1. MergeAt(r, cell) = r
      BY <1>3 DEF MergeAt
    <2> QED
      BY <2>1
  <1>4. CASE moved # 0
    <2>1. CanMerge(here, r.rest) /\ moved = Least(Room(here), r.rest.count)
      BY <1>1, <1>4
    <2>2. here # Empty /\ here.item = r.rest.item /\ here.item \in Items
      BY <1>2, <2>1, StackFacts DEF CanMerge
    <2>3. r.rest # Empty
      BY <1>2, <2>2, StackFacts, ContainersAssumption
    <2>4. /\ here.count \in 1 .. MaxCount[here.item] /\ MaxCount[here.item] \in Nat
          /\ r.rest.count \in 1 .. MaxCount[here.item]
      BY <1>2, <2>2, <2>3, StackFacts
    <2>5. Room(here) \in Nat /\ here.count + Room(here) = MaxCount[here.item]
      BY <1>2, <2>2, RoomFacts
    <2>6. moved \in Nat /\ moved <= Room(here) /\ moved <= r.rest.count
      <3>1. r.rest.count \in Nat
        BY <2>4
      <3>2. PICK a, b : a = Room(here) /\ b = r.rest.count
        OBVIOUS
      <3>3. Least(a, b) \in Nat /\ Least(a, b) <= a /\ Least(a, b) <= b
        BY <2>5, <3>1, <3>2, LeastFacts
      <3>4. moved = Least(a, b)
        BY <2>1, <3>2
      <3> QED
        BY <3>2, <3>3, <3>4
    <2>7. PICK m : m = moved
      OBVIOUS
    <2> HIDE DEF moved
    <2>8. PICK up, down : up = here.count + m /\ down = r.rest.count - m
      OBVIOUS
    <2>9. up \in 0 .. MaxCount[here.item] /\ down \in 0 .. MaxCount[here.item]
          /\ up + down = here.count + r.rest.count
      BY <2>4, <2>5, <2>6, <2>7, <2>8
    <2>10. PICK t, rest : t = WithCount(here, up) /\ rest = WithCount(r.rest, down)
      OBVIOUS
    <2>11. t \in Stack /\ \A i \in Items : Amount(t, i) = IF here.item = i THEN up ELSE 0
      BY <1>2, <2>2, <2>9, <2>10, WithCountFacts
    <2>12. rest \in Stack /\ \A i \in Items : Amount(rest, i) = IF here.item = i THEN down ELSE 0
      BY <1>2, <2>2, <2>3, <2>9, <2>10, WithCountFacts
    <2>13. ASSUME NEW i \in Items
           PROVE  Amount(t, i) + Amount(rest, i) = Amount(r.stacks[cell], i) + Amount(r.rest, i)
      BY <1>1, <2>2, <2>9, <2>11, <2>12 DEF Amount
    <2>14. MergeAt(r, cell) = [stacks |-> [r.stacks EXCEPT ![cell] = t], rest |-> rest,
                               changed |-> r.changed \cup {cell}]
      BY <1>1, <1>4, <2>7, <2>8, <2>10 DEF MergeAt, moved
    <2> QED
      BY <2>11, <2>12, <2>13, <2>14, InsertionStep
  <1> QED
    BY <1>3, <1>4

\* Putting what is left into an empty slot is such a step.
LEMMA FillKeeps ==
  ASSUME NEW into, NEW stack, NEW cells, ToSet(cells) \subseteq Usable,
         NEW r \in Insertion(into, stack, cells), NEW cell \in ToSet(cells)
  PROVE  FillAt(r, cell) \in Insertion(into, stack, cells)
  <1>1. CASE r.rest = Empty \/ r.stacks[cell] # Empty
    BY <1>1 DEF FillAt
  <1>2. CASE r.rest # Empty /\ r.stacks[cell] = Empty
    <2>1. FillAt(r, cell) = [stacks |-> [r.stacks EXCEPT ![cell] = r.rest], rest |-> Empty,
                             changed |-> r.changed \cup {cell}]
      BY <1>2 DEF FillAt
    <2>2. PICK t : t = r.rest
      OBVIOUS
    <2>3. t \in Stack /\ Empty \in Stack
      BY <2>2, EmptyIsStack DEF Insertion
    <2>4. ASSUME NEW i \in Items
          PROVE  Amount(t, i) + Amount(Empty, i) = Amount(r.stacks[cell], i) + Amount(r.rest, i)
      <3>1. Amount(t, i) \in Nat /\ Amount(Empty, i) = 0
        BY <2>3, StackFacts
      <3> QED
        BY <1>2, <2>2, <3>1
    <2> QED
      BY <2>1, <2>2, <2>3, <2>4, InsertionStep
  <1> QED
    BY <1>1, <1>2

\* What an insertion leaves: every changed slot is reported, and nothing is
\* lost or copied.
LEMMA InsertFacts ==
  ASSUME NEW into \in Slots, NEW stack \in Stack, NEW n \in Nat, NEW cells,
         DOMAIN cells = 1 .. n, ToSet(cells) \subseteq Usable
  PROVE  Insert(into, stack, cells) \in Insertion(into, stack, cells)
  <1>1. PICK R : R = Insertion(into, stack, cells)
    OBVIOUS
  <1>2. PICK base : base = [stacks |-> into, rest |-> stack, changed |-> {}]
    OBVIOUS
  <1>3. base \in R
    BY <1>1, <1>2 DEF Insertion
  <1>4. \A k \in 1 .. n : cells[k] \in ToSet(cells)
    BY DEF ToSet
  <1>5. \A r \in R, k \in 1 .. n : MergeAt(r, cells[k]) \in R
    BY <1>1, <1>4, MergeKeeps
  <1>6. FoldLeft(MergeAt, base, cells) \in R
    BY <1>3, <1>5, MergeFold
  <1>7. \A r \in R, k \in 1 .. n : FillAt(r, cells[k]) \in R
    BY <1>1, <1>4, FillKeeps
  <1>8. FoldLeft(FillAt, FoldLeft(MergeAt, base, cells), cells) \in R
    BY <1>6, <1>7, FillFold
  <1> QED
    BY <1>1, <1>2, <1>8 DEF Insert

---------------------------------------------------------------------------
\* Giving items in batches

Giving ==
  {r \in [stacks : Slots, rest : Stack, changed : SUBSET PlayerRefs] :
     \A ref \in Refs \ r.changed : r.stacks[ref] = stacks[ref]}

\* A batch is inserted on top of the batches before it.
LEMMA GiveKeeps ==
  ASSUME NEW r \in Giving, NEW batch \in Stack
  PROVE  GiveBatch(r, batch) \in Giving
  <1>1. CASE r.rest # Empty
    BY <1>1 DEF GiveBatch
  <1>2. CASE r.rest = Empty
    <2>1. PICK into : into = r.stacks
      OBVIOUS
    <2>2. into \in Slots
      BY <2>1 DEF Giving
    <2>3. PICK s : s = Insert(into, batch, Storage)
      OBVIOUS
    <2>4. ToSet(Storage) \subseteq Usable
      BY CellsFacts, RefFacts DEF Usable
    <2>5. PICK n : n = HotbarEnd - MainStart + 1
      OBVIOUS
    <2>6. n \in Nat /\ DOMAIN Storage = 1 .. n
      BY <2>5, CellsFacts
    <2>7. s \in Insertion(into, batch, Storage)
      BY <2>2, <2>3, <2>4, <2>6, InsertFacts
    <2>8. /\ s \in [stacks : Slots, rest : Stack, changed : SUBSET ToSet(Storage)]
          /\ \A ref \in Refs \ s.changed : s.stacks[ref] = into[ref]
      BY <2>7 DEF Insertion
    <2>9. PICK d : d = [s EXCEPT !.changed = s.changed \cup r.changed]
      OBVIOUS
    <2>10. d = GiveBatch(r, batch)
      BY <1>2, <2>1, <2>3, <2>9 DEF GiveBatch
    <2>11. d = [stacks |-> s.stacks, rest |-> s.rest, changed |-> s.changed \cup r.changed]
      BY <2>8, <2>9
    <2>12. /\ d.changed \subseteq PlayerRefs
           /\ \A ref \in Refs \ r.changed : r.stacks[ref] = stacks[ref]
      BY <2>8, <2>11, CellsFacts DEF Giving
    <2>13. \A ref \in Refs \ d.changed : d.stacks[ref] = stacks[ref]
      BY <2>1, <2>8, <2>11, <2>12
    <2>14. d \in [stacks : Slots, rest : Stack, changed : SUBSET PlayerRefs]
      BY <2>8, <2>11, <2>12
    <2> QED
      BY <2>10, <2>13, <2>14 DEF Giving
  <1> QED
    BY <1>1, <1>2

\* A count is given in full stacks and a last one of at least one item.
LEMMA BatchesFacts ==
  ASSUME NEW item \in Items, NEW count \in Nat
  PROVE  \E n \in Nat : /\ DOMAIN Batches(item, count) = 1 .. n
                        /\ \A k \in 1 .. n : Batches(item, count)[k] \in Stack
  <1>1. PICK full : full = MaxCount[item]
    OBVIOUS
  <1>2. full \in Nat /\ full > 0
    BY <1>1, ContainersAssumption
  <1>3. PICK n : n = (count + full - 1) \div full
    OBVIOUS
  <1>4. n \in Nat /\ full * n <= count + full - 1 /\ count + full - 1 < full * n + full
    BY <1>2, <1>3
  <1>5. PICK m : m = (n - 1) * full
    OBVIOUS
  <1>6. m \in Int /\ m = full * n - full
    BY <1>2, <1>4, <1>5
  <1>7. count - m \in 1 .. full
    BY <1>2, <1>4, <1>6
  <1>8. Batches(item, count)
          = [k \in 1 .. n |-> [item |-> item, count |-> IF k < n THEN full ELSE count - m]]
    BY <1>1, <1>3, <1>5 DEF Batches
  <1>9. ASSUME NEW k \in 1 .. n PROVE Batches(item, count)[k] \in Stack
    <2>1. PICK c : c = IF k < n THEN full ELSE count - m
      OBVIOUS
    <2>2. c \in 1 .. MaxCount[item]
      BY <1>1, <1>2, <1>7, <2>1
    <2>3. Batches(item, count)[k] = [item |-> item, count |-> c]
      BY <1>8, <2>1
    <2> QED
      BY <2>2, <2>3, StackMade
  <1> QED
    BY <1>4, <1>8, <1>9

---------------------------------------------------------------------------
\* The other folds over slots

\* Spreading the cursor's stack over slots: all of it is in the slots or left.
Spreading ==
  {r \in [stacks : Slots, left : 0 .. carried.count, ok : {TRUE}, each : Nat] :
     \A i \in Items : Cardinality(Units(r.stacks, i)) + (IF carried.item = i THEN r.left ELSE 0)
                        = Cardinality(Units(stacks, i)) + Amount(carried, i)}

\* A slot of a drag takes its share of what is left.
LEMMA SpreadKeeps ==
  ASSUME NEW r \in Spreading, carried \in Stack, carried # Empty,
         NEW slot \in Int, Resolve(slot) # NoRef
  PROVE  SpreadAt(r, slot) \in Spreading
  <1>1. PICK ref : ref = Resolve(slot)
    OBVIOUS
  <1>2. ref \in Usable
    BY <1>1, ResolveFacts
  <1>3. PICK here : here = r.stacks[ref]
    OBVIOUS
  <1>4. /\ r.stacks \in Slots /\ r.left \in 0 .. carried.count /\ r.ok = TRUE /\ r.each \in Nat
        /\ r = [stacks |-> r.stacks, left |-> r.left, ok |-> r.ok, each |-> r.each]
        /\ \A i \in Items : Cardinality(Units(r.stacks, i))
                              + (IF carried.item = i THEN r.left ELSE 0)
                              = Cardinality(Units(stacks, i)) + Amount(carried, i)
    BY DEF Spreading
  <1>5. here \in Stack
    BY <1>2, <1>3, <1>4, RefFacts DEF Slots, Usable
  <1>6. /\ carried.item \in Items /\ carried.count \in 1 .. MaxCount[carried.item]
        /\ MaxCount[carried.item] \in Nat
    BY StackFacts
  <1>7. CASE r.left = 0
    BY <1>7 DEF SpreadAt
  <1>8. CASE r.left # 0
    <2> DEFINE room == CASE here = Empty            -> MaxCount[carried.item]
                         [] CanMerge(here, carried) -> Room(here)
                         [] OTHER                   -> 0
    <2>1. PICK m : m = room
      OBVIOUS
    <2>2. PICK n : n = Least(r.each, Least(m, r.left))
      OBVIOUS
    <2>3. /\ m \in Nat
          /\ m # 0 => /\ here = Empty \/ (here # Empty /\ here.item = carried.item)
                      /\ here.count + m = MaxCount[carried.item]
      <3>1. CASE here = Empty
        <4>1. m = MaxCount[carried.item]
          BY <2>1, <3>1 DEF CanMerge
        <4> QED
          BY <1>5, <1>6, <3>1, <4>1, StackFacts
      <3>2. CASE CanMerge(here, carried)
        <4>1. here # Empty /\ here.item = carried.item /\ m = Room(here)
          BY <2>1, <3>2 DEF CanMerge
        <4> QED
          BY <1>5, <4>1, RoomFacts
      <3>3. CASE here # Empty /\ ~CanMerge(here, carried)
        BY <2>1, <3>3
      <3> QED
        BY <3>1, <3>2, <3>3
    <2> HIDE DEF room
    <2>4. n \in Nat /\ n <= m /\ n <= r.left
      <3>1. PICK l, x : l = r.left /\ x = Least(m, l)
        OBVIOUS
      <3>2. l \in Nat
        BY <1>4, <1>6, <3>1
      <3>3. x \in Nat /\ x <= m /\ x <= l
        BY <2>3, <3>1, <3>2, LeastFacts
      <3>4. PICK e : e = r.each
        OBVIOUS
      <3>5. Least(e, x) \in Nat /\ Least(e, x) <= x
        BY <1>4, <3>3, <3>4, LeastFacts
      <3> QED
        BY <2>2, <2>3, <3>1, <3>2, <3>3, <3>4, <3>5
    <2>5. PICK t : t = IF n = 0 THEN here ELSE WithCount(carried, here.count + n)
      OBVIOUS
    <2>6. /\ t \in Stack
          /\ \A i \in Items : Amount(t, i)
                                = Amount(here, i) + (IF carried.item = i THEN n ELSE 0)
      <3>1. CASE n = 0
        <4>1. \A i \in Items : Amount(here, i) \in Nat
          BY <1>5, StackFacts
        <4> QED
          BY <1>5, <2>5, <3>1, <4>1
      <3>2. CASE n # 0
        <4>1. m # 0
          BY <2>3, <2>4, <3>2
        <4>2. PICK c : c = here.count + n
          OBVIOUS
        <4>3. here.count \in Nat
          BY <1>5, StackFacts
        <4>4. c \in 0 .. MaxCount[carried.item]
          BY <1>6, <2>3, <2>4, <4>1, <4>2, <4>3
        <4>5. /\ t = WithCount(carried, c)
              /\ t \in Stack
              /\ \A i \in Items : Amount(t, i) = IF carried.item = i THEN c ELSE 0
          BY <2>5, <3>2, <4>2, <4>4, WithCountFacts
        <4>6. ASSUME NEW i \in Items
              PROVE  Amount(here, i) = IF carried.item = i THEN here.count ELSE 0
          <5>1. CASE here = Empty
            BY <1>5, <5>1, StackFacts
          <5>2. CASE here # Empty
            BY <2>3, <4>1, <5>2 DEF Amount
          <5> QED
            BY <5>1, <5>2
        <4> QED
          BY <2>4, <4>2, <4>3, <4>5, <4>6
      <3> QED
        BY <3>1, <3>2
    <2>7. PICK a : a = [r.stacks EXCEPT ![ref] = t]
      OBVIOUS
    <2>8. /\ a \in Slots
          /\ \A i \in Items :
               /\ Cardinality(Units(a, i)) + Amount(here, i)
                    = Cardinality(Units(r.stacks, i)) + Amount(t, i)
               /\ Cardinality(Units(a, i)) \in Nat /\ Cardinality(Units(r.stacks, i)) \in Nat
               /\ Amount(here, i) \in Nat /\ Amount(t, i) \in Nat
      BY <1>2, <1>3, <1>4, <2>6, <2>7, SlotUpdate
    <2>9. PICK d : d = [stacks |-> a, left |-> r.left - n, ok |-> r.ok, each |-> r.each]
      OBVIOUS
    <2>10. SpreadAt(r, slot) = d
      <3>1. SpreadAt(r, slot) = [r EXCEPT !.stacks[ref] = t, !.left = r.left - n]
        BY <1>1, <1>3, <1>4, <1>8, <2>1, <2>2, <2>5 DEF SpreadAt, room
      <3>2. PICK s, l, o, e : s = r.stacks /\ l = r.left /\ o = r.ok /\ e = r.each
        OBVIOUS
      <3>3. r = [stacks |-> s, left |-> l, ok |-> o, each |-> e]
        BY <1>4, <3>2
      <3>4. PICK q, x : q = [r EXCEPT !.stacks[ref] = t] /\ x = r.left - n
        OBVIOUS
      <3>5. q = [stacks |-> a, left |-> l, ok |-> o, each |-> e]
        BY <2>7, <3>2, <3>3, <3>4
      <3>6. [q EXCEPT !.left = x] = [stacks |-> a, left |-> x, ok |-> o, each |-> e]
        BY <3>5
      <3>7. [r EXCEPT !.stacks[ref] = t, !.left = r.left - n] = [q EXCEPT !.left = x]
        BY <3>4
      <3> QED
        BY <2>9, <3>1, <3>2, <3>4, <3>6, <3>7
    <2>11. ASSUME NEW i \in Items
           PROVE  Cardinality(Units(d.stacks, i)) + (IF carried.item = i THEN d.left ELSE 0)
                    = Cardinality(Units(stacks, i)) + Amount(carried, i)
      <3>1. d.stacks = a /\ d.left = r.left - n
        BY <2>9
      <3>2. r.left \in Nat
        BY <1>4, <1>6
      <3> QED
        BY <1>4, <2>4, <2>6, <2>8, <3>1, <3>2
    <2>12. d \in [stacks : Slots, left : 0 .. carried.count, ok : {TRUE}, each : Nat]
      <3>1. r.left - n \in 0 .. carried.count
        BY <1>4, <1>6, <2>4
      <3> QED
        BY <1>4, <2>8, <2>9, <3>1
    <2> QED
      BY <2>10, <2>11, <2>12 DEF Spreading
  <1> QED
    BY <1>7, <1>8

\* Stamping a full stack into each slot of a creative drag.
Stamping == {r \in [stacks : Slots, left : {carried.count}, ok : {TRUE}, each : Nat] : TRUE}

\* A slot of a creative drag gets a full stack and nothing is taken.
LEMMA StampKeeps ==
  ASSUME NEW r \in Stamping, carried \in Stack, carried # Empty,
         NEW slot \in Int, Resolve(slot) # NoRef
  PROVE  StampAt(r, slot) \in Stamping
  <1>1. PICK ref, t : ref = Resolve(slot) /\ t = WithCount(carried, MaxCount[carried.item])
    OBVIOUS
  <1>2. ref \in Usable
    BY <1>1, ResolveFacts
  <1>3. t \in Stack
    <2>1. MaxCount[carried.item] \in 0 .. MaxCount[carried.item]
      BY StackFacts
    <2> QED
      BY <1>1, <2>1, WithCountFacts
  <1>4. r.stacks \in Slots /\ r.ok = TRUE
    BY DEF Stamping
  <1>5. PICK s, a : s = r.stacks /\ a = [s EXCEPT ![ref] = t]
    OBVIOUS
  <1>6. a \in Slots
    BY <1>2, <1>3, <1>4, <1>5, SlotUpdate
  <1>7. StampAt(r, slot) = [r EXCEPT !.stacks[ref] = t]
    BY <1>1, <1>4 DEF StampAt
  <1>8. [r EXCEPT !.stacks[ref] = t] = [r EXCEPT !.stacks = a]
    BY <1>5
  <1> QED
    BY <1>6, <1>7, <1>8 DEF Stamping

\* Gathering visible slots onto the cursor.
Gathering ==
  {r \in [stacks : Slots, carried : Stack \ {Empty}] :
     \A i \in Items : Cardinality(Units(r.stacks, i)) + Amount(r.carried, i)
                        = Cardinality(Units(stacks, i)) + Amount(carried, i)}

\* A slot gives what the cursor still has room for.
LEMMA GatherKeeps ==
  ASSUME NEW r \in Gathering, NEW ref \in Usable
  PROVE  GatherAt(r, ref) \in Gathering
  <1>1. PICK here, cur : here = r.stacks[ref] /\ cur = r.carried
    OBVIOUS
  <1>2. /\ r.stacks \in Slots /\ cur \in Stack /\ cur # Empty
        /\ \A i \in Items : Cardinality(Units(r.stacks, i)) + Amount(cur, i)
                              = Cardinality(Units(stacks, i)) + Amount(carried, i)
    BY <1>1 DEF Gathering
  <1>3. here \in Stack
    BY <1>1, <1>2, RefFacts DEF Slots, Usable
  <1>4. /\ cur.item \in Items /\ cur.count \in 1 .. MaxCount[cur.item]
        /\ MaxCount[cur.item] \in Nat
    BY <1>2, StackFacts
  <1>5. PICK n : n = IF CanMerge(here, cur) THEN Least(Room(cur), here.count) ELSE 0
    OBVIOUS
  <1>6. PICK t, c : t = WithCount(here, here.count - n) /\ c = WithCount(cur, cur.count + n)
    OBVIOUS
  <1>7. /\ t \in Stack /\ c \in Stack \ {Empty}
        /\ \A i \in Items : Amount(t, i) + Amount(c, i) = Amount(here, i) + Amount(cur, i)
    <2>1. CASE CanMerge(here, cur)
      <3>1. here # Empty /\ here.item = cur.item
        BY <2>1 DEF CanMerge
      <3>2. here.count \in 1 .. MaxCount[cur.item]
        BY <1>3, <3>1, StackFacts
      <3>3. n \in Nat /\ n <= here.count /\ cur.count + n <= MaxCount[cur.item]
        <4>1. PICK a, b : a = Room(cur) /\ b = here.count
          OBVIOUS
        <4>2. a \in Nat /\ cur.count + a = MaxCount[cur.item] /\ b \in Nat
          BY <1>2, <3>2, <4>1, RoomFacts
        <4>3. Least(a, b) \in Nat /\ Least(a, b) <= a /\ Least(a, b) <= b
          BY <4>2, LeastFacts
        <4> QED
          BY <1>4, <1>5, <2>1, <4>1, <4>2, <4>3
      <3>4. PICK down, up : down = here.count - n /\ up = cur.count + n
        OBVIOUS
      <3>5. /\ down \in 0 .. MaxCount[here.item] /\ up \in 0 .. MaxCount[cur.item] /\ up # 0
            /\ down + up = here.count + cur.count
        BY <1>4, <3>1, <3>2, <3>3, <3>4
      <3>6. t \in Stack /\ \A i \in Items : Amount(t, i) = IF here.item = i THEN down ELSE 0
        BY <1>3, <1>6, <3>1, <3>4, <3>5, WithCountFacts
      <3>7. /\ c \in Stack /\ c # Empty
            /\ \A i \in Items : Amount(c, i) = IF cur.item = i THEN up ELSE 0
        BY <1>2, <1>6, <3>4, <3>5, WithCountFacts
      <3> QED
        BY <3>1, <3>5, <3>6, <3>7 DEF Amount
    <2>2. CASE ~CanMerge(here, cur)
      <3>1. n = 0 /\ here.count \in Nat /\ here.count - n = here.count /\ cur.count + n = cur.count
        BY <1>3, <1>4, <1>5, <2>2, StackFacts
      <3>2. t = here
        <4>1. CASE here = Empty
          BY <1>3, <1>6, <3>1, <4>1, StackFacts, WithCountZero
        <4>2. CASE here # Empty
          BY <1>3, <1>6, <3>1, <4>2, SameCount
        <4> QED
          BY <4>1, <4>2
      <3>3. c = cur
        BY <1>2, <1>6, <3>1, SameCount
      <3> QED
        BY <1>2, <1>3, <3>2, <3>3
    <2> QED
      BY <2>1, <2>2
  <1>8. PICK a : a = [r.stacks EXCEPT ![ref] = t]
    OBVIOUS
  <1>9. /\ a \in Slots
        /\ \A i \in Items :
              /\ Cardinality(Units(a, i)) + Amount(here, i)
                   = Cardinality(Units(r.stacks, i)) + Amount(t, i)
              /\ Cardinality(Units(a, i)) \in Nat /\ Cardinality(Units(r.stacks, i)) \in Nat
              /\ Amount(here, i) \in Nat /\ Amount(t, i) \in Nat
    BY <1>1, <1>2, <1>7, <1>8, SlotUpdate
  <1>10. GatherAt(r, ref) = [stacks |-> a, carried |-> c]
    BY <1>1, <1>5, <1>6, <1>8 DEF GatherAt
  <1>11. ASSUME NEW i \in Items
         PROVE  Cardinality(Units(a, i)) + Amount(c, i)
                  = Cardinality(Units(stacks, i)) + Amount(carried, i)
    <2>1. Amount(c, i) \in Nat /\ Amount(cur, i) \in Nat
      BY <1>2, <1>7, StackFacts
    <2>2. Amount(t, i) + Amount(c, i) = Amount(here, i) + Amount(cur, i)
      BY <1>7
    <2>3. Cardinality(Units(a, i)) + Amount(c, i) = Cardinality(Units(r.stacks, i)) + Amount(cur, i)
      BY <1>9, <2>1, <2>2
    <2> QED
      BY <1>2, <2>3
  <1> QED
    BY <1>7, <1>9, <1>10, <1>11 DEF Gathering

\* Removing items by a command.
Removing == [stacks : Slots, left : Nat, item : Items]

\* A slot loses what is still to be removed.
LEMMA RemoveKeeps ==
  ASSUME NEW r \in Removing, NEW ref \in PlayerRefs
  PROVE  RemoveAt1(r, ref) \in Removing
  <1>1. PICK here : here = r.stacks[ref]
    OBVIOUS
  <1>2. r.stacks \in Slots /\ r.left \in Nat /\ r.item \in Items /\ ref \in Usable /\ ref \in Refs
    BY RefFacts DEF Removing, Usable
  <1>3. here \in Stack
    BY <1>1, <1>2 DEF Slots
  <1>4. PICK n : n = IF here.item = r.item THEN Least(r.left, here.count) ELSE 0
    OBVIOUS
  <1>5. here.count \in Nat /\ n \in Nat /\ n <= here.count /\ n <= r.left
    <2>1. here.count \in Nat
      BY <1>3, StackFacts
    <2>2. PICK a, b : a = r.left /\ b = here.count
      OBVIOUS
    <2>3. Least(a, b) \in Nat /\ Least(a, b) <= a /\ Least(a, b) <= b
      BY <1>2, <2>1, <2>2, LeastFacts
    <2> QED
      BY <1>2, <1>4, <2>1, <2>2, <2>3
  <1>6. PICK t : t = WithCount(here, here.count - n)
    OBVIOUS
  <1>7. t \in Stack
    <2>1. CASE here = Empty
      <3>1. here.count - n = 0
        BY <1>3, <1>5, <2>1, StackFacts
      <3> QED
        BY <1>6, <3>1, WithCountZero, EmptyIsStack
    <2>2. CASE here # Empty
      <3>1. PICK c : c = here.count - n
        OBVIOUS
      <3>2. c \in 0 .. MaxCount[here.item]
        BY <1>3, <1>5, <2>2, <3>1, StackFacts
      <3> QED
        BY <1>3, <1>6, <2>2, <3>1, <3>2, WithCountFacts
    <2> QED
      BY <2>1, <2>2
  <1>8. PICK s, a : s = r.stacks /\ a = [s EXCEPT ![ref] = t]
    OBVIOUS
  <1>9. a \in Slots
    BY <1>2, <1>7, <1>8, SlotUpdate
  <1>10. RemoveAt1(r, ref) = [r EXCEPT !.stacks[ref] = t, !.left = r.left - n]
    BY <1>1, <1>4, <1>6 DEF RemoveAt1
  <1>11. PICK q : q = [r EXCEPT !.stacks[ref] = t]
    OBVIOUS
  <1>12. q \in Removing /\ q.left = r.left
    BY <1>8, <1>9, <1>11 DEF Removing
  <1>13. r.left - n \in Nat
    BY <1>2, <1>5
  <1>14. [q EXCEPT !.left = r.left - n] \in Removing
    BY <1>12, <1>13 DEF Removing
  <1> QED
    BY <1>10, <1>11, <1>14

---------------------------------------------------------------------------
\* Clicks

GoodDrag(d) ==
  /\ d \in {NoDrag} \cup [button : 0 .. 2, slots : Seq(ClickSlots)]
  /\ \A k \in DOMAIN d.slots : Resolve(d.slots[k]) # NoRef
Session == stacks \in Slots /\ carried \in Stack /\ GoodDrag(drag)

Conserved(s, c, x) ==
  \A i \in Items : Cardinality(Units(s, i)) + Amount(c, i) + Amount(x, i)
                     = Cardinality(Units(stacks, i)) + Amount(carried, i)

Is(o, s, c, d, x, k) ==
  o = [stacks |-> s, carried |-> c, drag |-> d, dropped |-> x, ok |-> k]

\* What a click may leave: real stacks and a drag over slots that exist; what
\* it was before when the click failed; and, unless it is one of the clicks
\* that create items, as many items as before.
GoodOutcome(o, creates) ==
  \E s, c, d, x, k :
    /\ Is(o, s, c, d, x, k)
    /\ s \in Slots /\ c \in Stack /\ x \in Stack /\ k \in BOOLEAN /\ GoodDrag(d)
    /\ ~k => s = stacks /\ c = carried
    /\ creates => x = Empty
    /\ ~creates => Conserved(s, c, x)

\* Changing one field of an outcome leaves the others.
LEMMA Made ==
  ASSUME NEW s, NEW c, NEW d, NEW x, NEW k, NEW o, Is(o, s, c, d, x, k), NEW v
  PROVE  /\ Is([o EXCEPT !.stacks = v], v, c, d, x, k)
         /\ Is([o EXCEPT !.carried = v], s, v, d, x, k)
         /\ Is([o EXCEPT !.drag = v], s, c, v, x, k)
         /\ Is([o EXCEPT !.dropped = v], s, c, d, v, k)
         /\ Is([o EXCEPT !.ok = v], s, c, d, x, v)
         /\ \A r, w : w = [s EXCEPT ![r] = v] => Is([o EXCEPT !.stacks[r] = v], w, c, d, x, k)
  <1>1. Is([o EXCEPT !.stacks = v], v, c, d, x, k)
    BY DEF Is
  <1>2. Is([o EXCEPT !.carried = v], s, v, d, x, k)
    BY DEF Is
  <1>3. Is([o EXCEPT !.drag = v], s, c, v, x, k)
    BY DEF Is
  <1>4. Is([o EXCEPT !.dropped = v], s, c, d, v, k)
    BY DEF Is
  <1>5. Is([o EXCEPT !.ok = v], s, c, d, x, v)
    BY DEF Is
  <1>6. ASSUME NEW r, NEW w, w = [s EXCEPT ![r] = v]
        PROVE  Is([o EXCEPT !.stacks[r] = v], w, c, d, x, k)
    BY <1>6 DEF Is
  <1> QED
    BY <1>1, <1>2, <1>3, <1>4, <1>5, <1>6

\* The outcomes of a click that changes nothing and of one that fails.
LEMMA KeepIs ==
  /\ Is(Keep, stacks, carried, drag, Empty, TRUE)
  /\ Is(Fail, stacks, carried, drag, Empty, FALSE)
  <1>1. Is(Keep, stacks, carried, drag, Empty, TRUE)
    BY DEF Keep, Is
  <1>2. Is([Keep EXCEPT !.ok = FALSE], stacks, carried, drag, Empty, FALSE)
    BY <1>1, Made
  <1> QED
    BY <1>1, <1>2 DEF Fail

\* The slots hold a number of units of each item.
LEMMA CountsFacts ==
  ASSUME NEW s \in Slots, NEW i \in Items
  PROVE  Cardinality(Units(s, i)) \in Nat
  <1>1. PICK D : D = Refs
    OBVIOUS
  <1>2. IsFiniteSet(D) /\ s \in [D -> Stack]
    BY <1>1, RefFacts DEF Slots
  <1> QED
    BY <1>2, UnitsFinite

\* What is not touched is conserved.
LEMMA Unchanging ==
  ASSUME Session
  PROVE  Conserved(stacks, carried, Empty)
  <1>1. ASSUME NEW i \in Items
        PROVE  Cardinality(Units(stacks, i)) + Amount(carried, i) + Amount(Empty, i)
                 = Cardinality(Units(stacks, i)) + Amount(carried, i)
    <2>1. /\ Cardinality(Units(stacks, i)) \in Nat /\ Amount(carried, i) \in Nat
          /\ Amount(Empty, i) = 0
      BY CountsFacts, StackFacts DEF Session
    <2> QED
      BY <2>1
  <1> QED
    BY <1>1 DEF Conserved

\* A click that changes nothing, or fails at once, is good.
LEMMA KeepGood ==
  ASSUME Session, NEW creates \in BOOLEAN
  PROVE  GoodOutcome(Keep, creates) /\ GoodOutcome(Fail, creates)
  <1>1. /\ stacks \in Slots /\ carried \in Stack /\ GoodDrag(drag) /\ Empty \in Stack
        /\ Conserved(stacks, carried, Empty)
    BY Unchanging, EmptyIsStack DEF Session
  <1> QED
    BY <1>1, KeepIs DEF GoodOutcome

\* Part of a stack is taken off it.
LEMMA SplitFacts ==
  ASSUME NEW s \in Stack, NEW n \in Nat, n <= s.count,
         NEW a, a = WithCount(s, s.count - n), NEW b, b = WithCount(s, n)
  PROVE  /\ a \in Stack /\ b \in Stack
         /\ \A i \in Items : Amount(a, i) + Amount(b, i) = Amount(s, i)
  <1>1. CASE s = Empty
    <2>1. n = 0 /\ s.count - n = 0
      BY <1>1, StackFacts
    <2>2. a = Empty /\ b = Empty
      BY <2>1, WithCountZero
    <2> QED
      BY <1>1, <2>2, EmptyIsStack, StackFacts
  <1>2. CASE s # Empty
    <2>1. s.count \in 1 .. MaxCount[s.item] /\ MaxCount[s.item] \in Nat
      BY <1>2, StackFacts
    <2>2. PICK m : m = s.count - n
      OBVIOUS
    <2>3. m \in 0 .. MaxCount[s.item] /\ n \in 0 .. MaxCount[s.item] /\ m + n = s.count
      BY <2>1, <2>2
    <2>4. /\ a \in Stack /\ \A i \in Items : Amount(a, i) = IF s.item = i THEN m ELSE 0
      BY <1>2, <2>2, <2>3, WithCountFacts
    <2>5. /\ b \in Stack /\ \A i \in Items : Amount(b, i) = IF s.item = i THEN n ELSE 0
      BY <1>2, <2>3, WithCountFacts
    <2> QED
      BY <2>3, <2>4, <2>5 DEF Amount
  <1> QED
    BY <1>1, <1>2

\* Part of one stack is put on another that it merges with.
LEMMA JoinFacts ==
  ASSUME NEW here \in Stack, NEW cur \in Stack, CanMerge(here, cur),
         NEW n \in Nat, n <= cur.count, n <= Room(here),
         NEW a, a = WithCount(here, here.count + n), NEW b, b = WithCount(cur, cur.count - n)
  PROVE  /\ a \in Stack /\ b \in Stack
         /\ \A i \in Items : Amount(a, i) + Amount(b, i) = Amount(here, i) + Amount(cur, i)
  <1>1. here # Empty /\ here.item = cur.item
    BY DEF CanMerge
  <1>2. /\ here.count \in 1 .. MaxCount[here.item] /\ MaxCount[here.item] \in Nat
        /\ Room(here) \in Nat /\ here.count + Room(here) = MaxCount[here.item]
        /\ here.item \in Items
    BY <1>1, StackFacts, RoomFacts
  <1>3. cur # Empty
    BY <1>1, <1>2, StackFacts, ContainersAssumption
  <1>4. cur.count \in 1 .. MaxCount[cur.item]
    BY <1>3, StackFacts
  <1>5. PICK up, down : up = here.count + n /\ down = cur.count - n
    OBVIOUS
  <1>6. /\ up \in 0 .. MaxCount[here.item] /\ down \in 0 .. MaxCount[cur.item]
        /\ up + down = here.count + cur.count
    BY <1>1, <1>2, <1>4, <1>5
  <1>7. a \in Stack /\ \A i \in Items : Amount(a, i) = IF here.item = i THEN up ELSE 0
    BY <1>1, <1>5, <1>6, WithCountFacts
  <1>8. b \in Stack /\ \A i \in Items : Amount(b, i) = IF cur.item = i THEN down ELSE 0
    BY <1>3, <1>5, <1>6, WithCountFacts
  <1> QED
    BY <1>1, <1>6, <1>7, <1>8 DEF Amount

\* A click that replaces the stack of one slot and of the cursor.
LEMMA OneSlot ==
  ASSUME Session, NEW ref \in Usable, NEW t \in Stack, NEW c \in Stack, NEW x \in Stack,
         \A i \in Items : Amount(t, i) + Amount(c, i) + Amount(x, i)
                            = Amount(stacks[ref], i) + Amount(carried, i),
         NEW a, a = [stacks EXCEPT ![ref] = t],
         NEW o, Is(o, a, c, drag, x, TRUE)
  PROVE  GoodOutcome(o, FALSE)
  <1>1. stacks \in Slots /\ carried \in Stack /\ GoodDrag(drag)
    BY DEF Session
  <1>2. PICK s, old : s = stacks /\ old = s[ref]
    OBVIOUS
  <1>3. /\ a \in Slots
        /\ \A i \in Items :
              /\ Cardinality(Units(a, i)) + Amount(old, i)
                   = Cardinality(Units(s, i)) + Amount(t, i)
              /\ Cardinality(Units(a, i)) \in Nat /\ Cardinality(Units(s, i)) \in Nat
              /\ Amount(old, i) \in Nat /\ Amount(t, i) \in Nat
    <2>1. PICK b : b = [s EXCEPT ![ref] = t]
      OBVIOUS
    <2>2. s \in Slots /\ a = b
      BY <1>1, <1>2, <2>1
    <2>3. b \in Slots /\ Weighs(s, b, old, t)
      BY <1>2, <2>1, <2>2, SlotWeighs
    <2> QED
      BY <2>2, <2>3 DEF Weighs
  <1>4. ASSUME NEW i \in Items
        PROVE  Cardinality(Units(a, i)) + Amount(c, i) + Amount(x, i)
                 = Cardinality(Units(s, i)) + Amount(carried, i)
    <2>1. Amount(c, i) \in Nat /\ Amount(x, i) \in Nat /\ Amount(carried, i) \in Nat
      BY <1>1, StackFacts
    <2>2. Amount(t, i) + Amount(c, i) + Amount(x, i) = Amount(old, i) + Amount(carried, i)
      BY <1>2
    <2>3. /\ Cardinality(Units(a, i)) + Amount(old, i) = Cardinality(Units(s, i)) + Amount(t, i)
          /\ Cardinality(Units(a, i)) \in Nat /\ Cardinality(Units(s, i)) \in Nat
          /\ Amount(old, i) \in Nat /\ Amount(t, i) \in Nat
      BY <1>3
    <2> QED
      BY <2>1, <2>2, <2>3
  <1>5. Conserved(a, c, x)
    BY <1>2, <1>4 DEF Conserved
  <1> QED
    BY <1>1, <1>3, <1>5 DEF GoodOutcome

\* A slot that exists holds a stack.
LEMMA SlotStack ==
  ASSUME Session, NEW ref \in Usable
  PROVE  stacks[ref] \in Stack
  BY RefFacts DEF Session, Slots, Usable

\* Picking up, putting down, exchanging or dropping the stack on the cursor.
LEMMA PickupGood ==
  ASSUME Session, NEW slot \in Int, NEW button \in Int
  PROVE  GoodOutcome(Pickup(slot, button), FALSE)
  <1> DEFINE ref  == Resolve(slot)
             half == IF button = 0 THEN stacks[ref].count ELSE (stacks[ref].count + 1) \div 2
             put  == IF button = 0 THEN carried.count ELSE Least(1, carried.count)
             fits == Least(put, Room(stacks[ref]))
  <1>1. PICK rf, here, h, p, f :
          rf = ref /\ here = stacks[ref] /\ h = half /\ p = put /\ f = fits
    OBVIOUS
  <1> DEFINE S == [stacks EXCEPT ![rf] = WithCount(here, here.count - h)]
  <1>2. carried \in Stack /\ carried.count \in Nat /\ stacks \in Slots /\ GoodDrag(drag)
    BY StackFacts DEF Session
  <1>3. p \in Nat /\ p <= carried.count
    <2>1. PICK cc : cc = carried.count
      OBVIOUS
    <2>2. Least(1, cc) \in Nat /\ Least(1, cc) <= cc
      BY <1>2, <2>1, LeastFacts
    <2> QED
      BY <1>1, <1>2, <2>1, <2>2
  <1>4. CASE button \notin {0, 1}
    BY <1>4, KeepGood DEF Pickup
  <1>5. CASE button \in {0, 1} /\ slot = Outside
    <2>1. PICK a, b : a = WithCount(carried, carried.count - p) /\ b = WithCount(carried, p)
      OBVIOUS
    <2>2. /\ a \in Stack /\ b \in Stack
          /\ \A i \in Items : Amount(a, i) + Amount(b, i) = Amount(carried, i)
      BY <1>2, <1>3, <2>1, SplitFacts
    <2>3. Pickup(slot, button) = [Keep EXCEPT !.carried = a, !.dropped = b]
      BY <1>1, <1>5, <2>1 DEF Pickup
    <2>4. PICK q : q = [Keep EXCEPT !.carried = a]
      OBVIOUS
    <2>5. Is(q, stacks, a, drag, Empty, TRUE)
      BY <2>4, KeepIs, Made
    <2>6. Is([q EXCEPT !.dropped = b], stacks, a, drag, b, TRUE)
      BY <2>5, Made
    <2>7. Is(Pickup(slot, button), stacks, a, drag, b, TRUE)
      BY <2>3, <2>4, <2>6
    <2>8. ASSUME NEW i \in Items
          PROVE  Cardinality(Units(stacks, i)) + Amount(a, i) + Amount(b, i)
                   = Cardinality(Units(stacks, i)) + Amount(carried, i)
      <3>1. /\ Cardinality(Units(stacks, i)) \in Nat /\ Amount(a, i) \in Nat
            /\ Amount(b, i) \in Nat /\ Amount(carried, i) \in Nat
        BY <1>2, <2>2, CountsFacts, StackFacts
      <3> QED
        BY <2>2, <3>1
    <2>9. Conserved(stacks, a, b)
      BY <2>8 DEF Conserved
    <2> QED
      BY <1>2, <2>2, <2>7, <2>9 DEF GoodOutcome
  <1>6. CASE button \in {0, 1} /\ slot # Outside /\ ref = NoRef
    BY <1>6, KeepGood DEF Pickup
  <1>7. CASE button \in {0, 1} /\ slot # Outside /\ ref # NoRef
    <2>1. rf \in Usable /\ here \in Stack /\ here = stacks[rf]
      BY <1>1, <1>7, ResolveFacts, SlotStack
    <2>2. here.count \in Nat /\ Amount(here, here.item) = here.count
      BY <2>1, StackFacts DEF Amount
    <2>3. CASE carried = Empty
      <3>1. h \in Nat /\ h <= here.count
        BY <1>1, <1>7, <2>2
      <3>2. PICK a, b : a = WithCount(here, here.count - h) /\ b = WithCount(here, h)
        OBVIOUS
      <3>3. /\ a \in Stack /\ b \in Stack
            /\ \A i \in Items : Amount(a, i) + Amount(b, i) = Amount(here, i)
        BY <2>1, <3>1, <3>2, SplitFacts
      <3>4. Pickup(slot, button) = [Keep EXCEPT !.stacks[rf] = a, !.carried = b]
        BY <1>1, <1>7, <2>3, <3>2 DEF Pickup
      <3>5. PICK s, q : s = [stacks EXCEPT ![rf] = a] /\ q = [Keep EXCEPT !.stacks[rf] = a]
        OBVIOUS
      <3>6. Is(q, s, carried, drag, Empty, TRUE)
        BY <3>5, KeepIs, Made
      <3>7. Is([q EXCEPT !.carried = b], s, b, drag, Empty, TRUE)
        BY <3>6, Made
      <3>8. Is(Pickup(slot, button), s, b, drag, Empty, TRUE)
        BY <3>4, <3>5, <3>7
      <3>9. ASSUME NEW i \in Items
            PROVE  Amount(a, i) + Amount(b, i) + Amount(Empty, i)
                     = Amount(stacks[rf], i) + Amount(carried, i)
        <4>1. Amount(a, i) \in Nat /\ Amount(b, i) \in Nat /\ Amount(Empty, i) = 0
          BY <3>3, StackFacts
        <4> QED
          BY <2>1, <2>3, <3>3, <4>1
      <3> QED
        BY <2>1, <3>3, <3>5, <3>8, <3>9, EmptyIsStack, OneSlot
    <2>4. CASE carried # Empty /\ here = Empty
      <3>1. PICK a, b : a = WithCount(carried, p) /\ b = WithCount(carried, carried.count - p)
        OBVIOUS
      <3>2. /\ a \in Stack /\ b \in Stack
            /\ \A i \in Items : Amount(b, i) + Amount(a, i) = Amount(carried, i)
        BY <1>2, <1>3, <3>1, SplitFacts
      <3>3. Pickup(slot, button) = [Keep EXCEPT !.stacks[rf] = a, !.carried = b]
        BY <1>1, <1>7, <2>4, <3>1 DEF Pickup, CanMerge
      <3>4. PICK s, q : s = [stacks EXCEPT ![rf] = a] /\ q = [Keep EXCEPT !.stacks[rf] = a]
        OBVIOUS
      <3>5. Is(q, s, carried, drag, Empty, TRUE)
        BY <3>4, KeepIs, Made
      <3>6. Is([q EXCEPT !.carried = b], s, b, drag, Empty, TRUE)
        BY <3>5, Made
      <3>7. Is(Pickup(slot, button), s, b, drag, Empty, TRUE)
        BY <3>3, <3>4, <3>6
      <3>8. ASSUME NEW i \in Items
            PROVE  Amount(a, i) + Amount(b, i) + Amount(Empty, i)
                     = Amount(stacks[rf], i) + Amount(carried, i)
        <4>1. Amount(a, i) \in Nat /\ Amount(b, i) \in Nat /\ Amount(Empty, i) = 0
          BY <3>2, StackFacts
        <4> QED
          BY <2>1, <2>4, <3>2, <4>1
      <3> QED
        BY <2>1, <3>2, <3>4, <3>7, <3>8, EmptyIsStack, OneSlot
    <2>5. CASE carried # Empty /\ CanMerge(here, carried) /\ Room(here) > 0
      <3>1. f \in Nat /\ f <= p /\ f <= Room(here)
        <4>1. PICK rm : rm = Room(here)
          OBVIOUS
        <4>2. rm \in Nat
          BY <2>1, <2>5, <4>1, RoomFacts DEF CanMerge
        <4>3. Least(p, rm) \in Nat /\ Least(p, rm) <= p /\ Least(p, rm) <= rm
          BY <1>3, <4>2, LeastFacts
        <4> QED
          BY <1>1, <4>1, <4>3
      <3>2. f <= carried.count
        BY <1>2, <1>3, <3>1
      <3>3. PICK a, b : a = WithCount(here, here.count + f)
                        /\ b = WithCount(carried, carried.count - f)
        OBVIOUS
      <3>4. /\ a \in Stack /\ b \in Stack
            /\ \A i \in Items : Amount(a, i) + Amount(b, i) = Amount(here, i) + Amount(carried, i)
        BY <1>2, <2>1, <2>5, <3>1, <3>2, <3>3, JoinFacts
      <3>5. Pickup(slot, button) = [Keep EXCEPT !.stacks[rf] = a, !.carried = b]
        BY <1>1, <1>7, <2>5, <3>3 DEF Pickup, CanMerge
      <3>6. PICK s, q : s = [stacks EXCEPT ![rf] = a] /\ q = [Keep EXCEPT !.stacks[rf] = a]
        OBVIOUS
      <3>7. Is(q, s, carried, drag, Empty, TRUE)
        BY <3>6, KeepIs, Made
      <3>8. Is([q EXCEPT !.carried = b], s, b, drag, Empty, TRUE)
        BY <3>7, Made
      <3>9. Is(Pickup(slot, button), s, b, drag, Empty, TRUE)
        BY <3>5, <3>6, <3>8
      <3>10. ASSUME NEW i \in Items
             PROVE  Amount(a, i) + Amount(b, i) + Amount(Empty, i)
                      = Amount(stacks[rf], i) + Amount(carried, i)
        <4>1. Amount(a, i) \in Nat /\ Amount(b, i) \in Nat /\ Amount(Empty, i) = 0
          BY <3>4, StackFacts
        <4> QED
          BY <2>1, <3>4, <4>1
      <3> QED
        BY <2>1, <3>4, <3>6, <3>9, <3>10, EmptyIsStack, OneSlot
    <2>6. CASE carried # Empty /\ here # Empty /\ ~(CanMerge(here, carried) /\ Room(here) > 0)
      <3>1. Pickup(slot, button) = [Keep EXCEPT !.stacks[rf] = carried, !.carried = here]
        BY <1>1, <1>7, <2>6 DEF Pickup
      <3>2. PICK s, q : s = [stacks EXCEPT ![rf] = carried]
                        /\ q = [Keep EXCEPT !.stacks[rf] = carried]
        OBVIOUS
      <3>3. Is(q, s, carried, drag, Empty, TRUE)
        BY <3>2, KeepIs, Made
      <3>4. Is([q EXCEPT !.carried = here], s, here, drag, Empty, TRUE)
        BY <3>3, Made
      <3>5. Is(Pickup(slot, button), s, here, drag, Empty, TRUE)
        BY <3>1, <3>2, <3>4
      <3>6. ASSUME NEW i \in Items
            PROVE  Amount(carried, i) + Amount(here, i) + Amount(Empty, i)
                     = Amount(stacks[rf], i) + Amount(carried, i)
        <4>1. Amount(carried, i) \in Nat /\ Amount(here, i) \in Nat /\ Amount(Empty, i) = 0
          BY <1>2, <2>1, StackFacts
        <4> QED
          BY <2>1, <4>1
      <3> QED
        BY <1>2, <2>1, <3>2, <3>5, <3>6, EmptyIsStack, OneSlot
    <2> QED
      BY <2>3, <2>4, <2>5, <2>6 DEF CanMerge
  <1> QED
    BY <1>4, <1>5, <1>6, <1>7

\* What a quick move may fill: cells of its own, of slots that exist, and
\* never the slot that is moved.
LEMMA TargetFacts ==
  ASSUME NEW ref \in Usable
  PROVE  /\ \E n \in Nat : DOMAIN QuickMoveTarget(ref) = 1 .. n
         /\ ToSet(QuickMoveTarget(ref)) \subseteq Usable /\ ref \notin ToSet(QuickMoveTarget(ref))
  <1>1. /\ \E n \in Nat : DOMAIN Storage = 1 .. n
        /\ \E n \in Nat : DOMAIN Main = 1 .. n
        /\ \E n \in Nat : DOMAIN Hotbar = 1 .. n
        /\ \E n \in Nat : DOMAIN ChestCells = 1 .. n
    BY CellsFacts, ChestFacts, Sizes
  <1>2. /\ ToSet(Storage) \subseteq PlayerRefs /\ ToSet(Main) \subseteq PlayerRefs
        /\ ToSet(Hotbar) \subseteq PlayerRefs /\ ToSet(ChestCells) = Chest
        /\ ToSet(Storage) = ToSet(Main) \cup ToSet(Hotbar)
    BY CellsFacts, ChestFacts
  <1>3. ToSet(Main) \cap ToSet(Hotbar) = {}
    <2>1. \A k \in MainStart .. (HotbarStart - 1) : k \notin HotbarStart .. HotbarEnd
      BY Sizes
    <2> QED
      BY <2>1, CellsFacts
  <1>4. /\ PlayerRefs \subseteq Usable /\ PlayerRefs \cap Chest = {} /\ Refs = PlayerRefs \cup Chest
        /\ \A x \in PlayerRefs : x[1] = "player"
        /\ \A x \in Chest : x[1] = "external"
    BY RefFacts DEF Usable, Chest
  <1>5. CASE ref \in Chest
    <2>1. open # 0 /\ ref[1] = "external"
      BY <1>4, <1>5 DEF Usable
    <2>2. QuickMoveTarget(ref) = Storage
      BY <2>1 DEF QuickMoveTarget
    <2> QED
      BY <1>1, <1>2, <1>4, <1>5, <2>2
  <1>6. CASE ref \in PlayerRefs /\ open # 0
    <2>1. QuickMoveTarget(ref) = ChestCells
      BY <1>4, <1>6 DEF QuickMoveTarget
    <2>2. Chest \subseteq Usable /\ ref \notin Chest
      BY <1>4, <1>6 DEF Usable
    <2> QED
      BY <1>1, <1>2, <2>1, <2>2
  <1>7. CASE ref \in PlayerRefs /\ open = 0
    <2>1. ref[1] = "player"
      BY <1>4, <1>7
    <2>2. CASE ref \in ToSet(Main)
      <3>1. QuickMoveTarget(ref) = Hotbar
        BY <1>3, <1>7, <2>1, <2>2 DEF QuickMoveTarget
      <3> QED
        BY <1>1, <1>2, <1>3, <1>4, <2>2, <3>1
    <2>3. CASE ref \in ToSet(Hotbar)
      <3>1. QuickMoveTarget(ref) = Main
        BY <1>3, <1>7, <2>1, <2>3 DEF QuickMoveTarget
      <3> QED
        BY <1>1, <1>2, <1>3, <1>4, <2>3, <3>1
    <2>4. CASE ref \notin ToSet(Main) /\ ref \notin ToSet(Hotbar)
      <3>1. QuickMoveTarget(ref) = Storage
        BY <1>7, <2>1, <2>4 DEF QuickMoveTarget
      <3> QED
        BY <1>1, <1>2, <1>4, <2>4, <3>1
    <2> QED
      BY <2>2, <2>3, <2>4
  <1> QED
    BY <1>4, <1>5, <1>6, <1>7 DEF Usable

\* Moving a stack to the other part of the view.
LEMMA QuickMoveGood ==
  ASSUME Session, NEW slot \in Int
  PROVE  GoodOutcome(QuickMove(slot), FALSE)
  <1>1. PICK ref : ref = Resolve(slot)
    OBVIOUS
  <1>2. CASE ref = NoRef
    BY <1>1, <1>2, KeepGood DEF QuickMove
  <1>3. CASE ref # NoRef /\ stacks[ref] = Empty
    BY <1>1, <1>3, KeepGood DEF QuickMove
  <1>4. CASE ref # NoRef /\ stacks[ref] # Empty
    <2>1. PICK into, here : into = stacks /\ here = into[ref]
      OBVIOUS
    <2>2. ref \in Usable /\ here \in Stack /\ into \in Slots /\ carried \in Stack /\ GoodDrag(drag)
      BY <1>1, <1>4, <2>1, ResolveFacts, SlotStack DEF Session
    <2>3. PICK cells : cells = QuickMoveTarget(ref)
      OBVIOUS
    <2>4. PICK n \in Nat : DOMAIN cells = 1 .. n
      BY <2>2, <2>3, TargetFacts
    <2>5. ToSet(cells) \subseteq Usable /\ ref \notin ToSet(cells)
      BY <2>2, <2>3, TargetFacts
    <2>6. PICK moved : moved = Insert(into, here, cells)
      OBVIOUS
    <2>7. moved \in Insertion(into, here, cells)
      BY <2>2, <2>4, <2>5, <2>6, InsertFacts
    <2>8. PICK m, rest : m = moved.stacks /\ rest = moved.rest
      OBVIOUS
    <2>9. /\ m \in Slots /\ rest \in Stack /\ moved.changed \subseteq ToSet(cells)
          /\ \A x \in Refs \ moved.changed : m[x] = into[x]
          /\ \A i \in Items : Cardinality(Units(m, i)) + Amount(rest, i)
                                = Cardinality(Units(into, i)) + Amount(here, i)
      BY <2>7, <2>8 DEF Insertion
    <2>10. m[ref] = here
      BY <2>1, <2>2, <2>5, <2>9, RefFacts DEF Usable
    <2>11. PICK s : s = [m EXCEPT ![ref] = rest]
      OBVIOUS
    <2>12. s \in Slots /\ Weighs(m, s, here, rest)
      BY <2>2, <2>9, <2>10, <2>11, SlotWeighs
    <2>13. QuickMove(slot) = [Keep EXCEPT !.stacks = s]
      BY <1>1, <1>4, <2>1, <2>3, <2>6, <2>8, <2>11 DEF QuickMove
    <2>14. Is([Keep EXCEPT !.stacks = s], s, carried, drag, Empty, TRUE)
      BY KeepIs, Made
    <2>15. ASSUME NEW i \in Items
           PROVE  Cardinality(Units(s, i)) + Amount(carried, i) + Amount(Empty, i)
                    = Cardinality(Units(into, i)) + Amount(carried, i)
      <3>1. /\ Amount(carried, i) \in Nat /\ Amount(rest, i) \in Nat /\ Amount(here, i) \in Nat
            /\ Amount(Empty, i) = 0
        BY <2>2, <2>9, StackFacts
      <3>2. Cardinality(Units(into, i)) \in Nat
        BY <2>2, CountsFacts
      <3>3. Cardinality(Units(m, i)) + Amount(rest, i)
              = Cardinality(Units(into, i)) + Amount(here, i)
        BY <2>9
      <3>4. /\ Cardinality(Units(s, i)) + Amount(here, i)
                 = Cardinality(Units(m, i)) + Amount(rest, i)
            /\ Cardinality(Units(s, i)) \in Nat /\ Cardinality(Units(m, i)) \in Nat
        BY <2>12 DEF Weighs
      <3> QED
        BY <3>1, <3>2, <3>3, <3>4
    <2>16. Conserved(s, carried, Empty)
      BY <2>1, <2>15 DEF Conserved
    <2> QED
      BY <2>2, <2>12, <2>13, <2>14, <2>16, EmptyIsStack DEF GoodOutcome
  <1> QED
    BY <1>2, <1>3, <1>4

SameCounts(s, t) == \A i \in Items : Cardinality(Units(t, i)) = Cardinality(Units(s, i))

\* Two slots exchange their stacks.
LEMMA ExchangeFacts ==
  ASSUME NEW s \in Slots, NEW p \in Usable, NEW q \in Usable,
         NEW a, a = s[p], NEW b, b = s[q],
         NEW m, m = [s EXCEPT ![p] = b], NEW after, after = [m EXCEPT ![q] = a]
  PROVE  after \in Slots /\ SameCounts(s, after)
  <1>3. a \in Stack /\ b \in Stack /\ s \in [Refs -> Stack] /\ p \in Refs /\ q \in Refs
    BY RefFacts DEF Slots, Usable
  <1>4. m \in Slots /\ Weighs(s, m, a, b)
    BY <1>3, SlotWeighs
  <1>6. m[q] = b
    BY <1>3
  <1>7. after \in Slots /\ Weighs(m, after, b, a)
    BY <1>3, <1>4, <1>6, SlotWeighs
  <1>8. ASSUME NEW i \in Items PROVE Cardinality(Units(after, i)) = Cardinality(Units(s, i))
    <2>1. /\ Cardinality(Units(m, i)) + Amount(a, i) = Cardinality(Units(s, i)) + Amount(b, i)
          /\ Cardinality(Units(m, i)) \in Nat /\ Cardinality(Units(s, i)) \in Nat
          /\ Amount(a, i) \in Nat /\ Amount(b, i) \in Nat
      BY <1>4 DEF Weighs
    <2>2. /\ Cardinality(Units(after, i)) + Amount(b, i) = Cardinality(Units(m, i)) + Amount(a, i)
          /\ Cardinality(Units(after, i)) \in Nat
      BY <1>7 DEF Weighs
    <2>3. PICK x, y, z, u, v : /\ x = Cardinality(Units(after, i)) /\ y = Cardinality(Units(m, i))
                               /\ z = Cardinality(Units(s, i))
                               /\ u = Amount(a, i) /\ v = Amount(b, i)
      OBVIOUS
    <2>4. x = z
      BY <2>1, <2>2, <2>3
    <2> QED
      BY <2>3, <2>4
  <1> QED
    BY <1>7, <1>8 DEF SameCounts

\* Exchanging a slot with one of the hotbar or the offhand.
LEMMA SwapGood ==
  ASSUME Session, NEW slot \in Int, NEW button \in Int
  PROVE  GoodOutcome(Swap(slot, button), FALSE)
  <1> DEFINE k == IF button = 40 THEN OffhandSlot ELSE HotbarStart + button
  <1>1. PICK ref, other : ref = Resolve(slot) /\ other = <<"player", k>>
    OBVIOUS
  <1>2. CASE ref = NoRef \/ button \notin SwapButtons
    BY <1>1, <1>2, KeepGood DEF Swap
  <1>3. CASE ref # NoRef /\ button \in SwapButtons
    <2>1. k \in 0 .. OffhandSlot
      BY <1>3, Sizes DEF SwapButtons
    <2>2. ref \in Usable /\ other \in Usable
      BY <1>1, <1>3, <2>1, ResolveFacts, RefFacts DEF Usable
    <2> HIDE DEF k
    <2>3. PICK s, a, b, m, f : /\ s = stacks /\ a = s[ref] /\ b = s[other]
                               /\ m = [s EXCEPT ![ref] = b] /\ f = [m EXCEPT ![other] = a]
      OBVIOUS
    <2>4. s \in Slots /\ carried \in Stack /\ GoodDrag(drag)
      BY <2>3 DEF Session
    <2>5. f \in Slots /\ SameCounts(s, f)
      BY <2>2, <2>3, <2>4, ExchangeFacts
    <2>6. Swap(slot, button) = [Keep EXCEPT !.stacks = f]
      BY <1>1, <1>3, <2>3 DEF Swap, k
    <2>7. Is([Keep EXCEPT !.stacks = f], f, carried, drag, Empty, TRUE)
      BY KeepIs, Made
    <2>8. Conserved(s, carried, Empty)
      BY <2>3, Unchanging
    <2>9. Conserved(f, carried, Empty)
      BY <2>5, <2>8 DEF Conserved, SameCounts
    <2> QED
      BY <2>4, <2>5, <2>6, <2>7, <2>9, EmptyIsStack DEF GoodOutcome
  <1> QED
    BY <1>2, <1>3

\* Copying a stack in creative mode.
LEMMA CloneGood ==
  ASSUME Session, NEW slot \in Int
  PROVE  GoodOutcome(CloneStack(slot), TRUE)
  <1>1. PICK ref, here : ref = Resolve(slot) /\ here = stacks[ref]
    OBVIOUS
  <1>2. CASE ~creative \/ ref = NoRef
    BY <1>1, <1>2, KeepGood DEF CloneStack
  <1>3. CASE ~(~creative \/ ref = NoRef)
    <2>1. PICK c : c = IF here = Empty THEN Empty ELSE WithCount(here, MaxCount[here.item])
      OBVIOUS
    <2>2. CloneStack(slot) = [Keep EXCEPT !.carried = c]
      BY <1>1, <1>3, <2>1 DEF CloneStack
    <2>3. here \in Stack
      BY <1>1, <1>3, ResolveFacts, SlotStack
    <2>4. c \in Stack
      <3>1. CASE here = Empty
        BY <2>1, <3>1, EmptyIsStack
      <3>2. CASE here # Empty
        <4>1. PICK n : n = MaxCount[here.item]
          OBVIOUS
        <4>2. n \in 0 .. MaxCount[here.item]
          BY <2>3, <3>2, <4>1, StackFacts
        <4> QED
          BY <2>1, <2>3, <3>2, <4>1, <4>2, WithCountFacts
      <3> QED
        BY <3>1, <3>2
    <2>5. Is([Keep EXCEPT !.carried = c], stacks, c, drag, Empty, TRUE)
      BY KeepIs, Made
    <2> QED
      BY <2>2, <2>4, <2>5, EmptyIsStack DEF GoodOutcome, Session
  <1> QED
    BY <1>2, <1>3

\* Dropping one item or all of a slot.
LEMMA ThrowGood ==
  ASSUME Session, NEW slot \in Int, NEW button \in Int
  PROVE  GoodOutcome(Throw(slot, button), FALSE)
  <1>1. PICK ref, here : ref = Resolve(slot) /\ here = stacks[ref]
    OBVIOUS
  <1>2. CASE button \notin {0, 1} \/ ref = NoRef
    BY <1>1, <1>2, KeepGood DEF Throw
  <1>3. CASE ~(button \notin {0, 1} \/ ref = NoRef)
    <2>1. ref \in Usable /\ here \in Stack /\ carried \in Stack
      BY <1>1, <1>3, ResolveFacts, SlotStack DEF Session
    <2>2. PICK n : n = IF button = 1 THEN here.count ELSE Least(1, here.count)
      OBVIOUS
    <2>3. n \in Nat /\ n <= here.count
      <3>1. PICK h : h = here.count
        OBVIOUS
      <3>2. h \in Nat
        BY <2>1, <3>1, StackFacts
      <3>3. Least(1, h) \in Nat /\ Least(1, h) <= h
        BY <3>2, LeastFacts
      <3> QED
        BY <2>2, <3>1, <3>2, <3>3
    <2>4. PICK a, b : a = WithCount(here, here.count - n) /\ b = WithCount(here, n)
      OBVIOUS
    <2>5. /\ a \in Stack /\ b \in Stack
          /\ \A i \in Items : Amount(a, i) + Amount(b, i) = Amount(here, i)
      BY <2>1, <2>3, <2>4, SplitFacts
    <2>6. Throw(slot, button) = [Keep EXCEPT !.stacks[ref] = a, !.dropped = b]
      BY <1>1, <1>3, <2>2, <2>4 DEF Throw
    <2>7. PICK s, q : s = [stacks EXCEPT ![ref] = a] /\ q = [Keep EXCEPT !.stacks[ref] = a]
      OBVIOUS
    <2>8. Is(q, s, carried, drag, Empty, TRUE)
      BY <2>7, KeepIs, Made
    <2>9. Is([q EXCEPT !.dropped = b], s, carried, drag, b, TRUE)
      BY <2>8, Made
    <2>10. Is(Throw(slot, button), s, carried, drag, b, TRUE)
      BY <2>6, <2>7, <2>9
    <2>11. ASSUME NEW i \in Items
           PROVE  Amount(a, i) + Amount(carried, i) + Amount(b, i)
                    = Amount(stacks[ref], i) + Amount(carried, i)
      <3>1. Amount(a, i) \in Nat /\ Amount(b, i) \in Nat /\ Amount(carried, i) \in Nat
        BY <2>1, <2>5, StackFacts
      <3> QED
        BY <1>1, <2>5, <3>1
    <2> QED
      BY <2>1, <2>5, <2>7, <2>10, <2>11, OneSlot
  <1> QED
    BY <1>2, <1>3

\* The visible slots are slots that exist.
LEMMA ViewFacts ==
  \E n \in Nat : DOMAIN View = 1 .. n /\ \A k \in 1 .. n : View[k] \in Usable
  <1>1. PICK whole, rest : whole = PlayerCells(0, OffhandSlot)
                           /\ rest = PlayerCells(MainStart, OffhandSlot)
    OBVIOUS
  <1>2. OffhandSlot \in Nat /\ OffhandSlot - 0 + 1 \in Nat /\ MainStart <= OffhandSlot
        /\ OffhandSlot - MainStart + 1 \in Nat
    BY Sizes
  <1>3. /\ DOMAIN whole = 1 .. (OffhandSlot - 0 + 1)
        /\ \A k \in 1 .. (OffhandSlot - 0 + 1) :
              whole[k] \in {<<"player", m>> : m \in 0 .. OffhandSlot}
    <2>1. PICK z : z = 0
      OBVIOUS
    <2>2. z \in Nat /\ z <= OffhandSlot /\ OffhandSlot \in Nat
      BY <1>2, <2>1
    <2>3. /\ DOMAIN PlayerCells(z, OffhandSlot) = 1 .. (OffhandSlot - z + 1)
          /\ \A k \in 1 .. (OffhandSlot - z + 1) :
               PlayerCells(z, OffhandSlot)[k] \in {<<"player", m>> : m \in z .. OffhandSlot}
      BY <2>2, RangeFacts
    <2> QED
      BY <1>1, <2>1, <2>3
  <1>4. /\ DOMAIN rest = 1 .. (OffhandSlot - MainStart + 1)
        /\ \A k \in 1 .. (OffhandSlot - MainStart + 1) :
              rest[k] \in {<<"player", m>> : m \in MainStart .. OffhandSlot}
    BY <1>1, <1>2, Sizes, RangeFacts
  <1>5. CASE open = 0
    <2>1. View = whole
      BY <1>1, <1>5 DEF View
    <2> QED
      BY <1>2, <1>3, <1>5, <2>1, RefFacts DEF Usable
  <1>6. CASE open # 0
    <2>1. View = ChestCells \o rest /\ Usable = Refs
      BY <1>1, <1>6 DEF View, Usable
    <2>2. PICK n : n = OffhandSlot - MainStart + 1
      OBVIOUS
    <2>3. rest = [k \in 1 .. n |-> <<"player", MainStart + k - 1>>]
      BY <1>1, <2>2 DEF PlayerCells
    <2>4. \A k \in 1 .. n : rest[k] \in Refs
      <3>1. \A m \in MainStart .. OffhandSlot : m \in 0 .. OffhandSlot
        BY Sizes
      <3> QED
        BY <1>4, <2>2, <3>1, RefFacts
    <2>5. n \in Nat /\ rest \in [1 .. n -> Refs]
      BY <1>2, <2>2, <2>3, <2>4
    <2>6. ChestSlots \in Nat /\ ChestCells \in [1 .. ChestSlots -> Refs]
      BY Sizes, ChestFacts, RefFacts DEF ChestCells
    <2>7. rest \in Seq(Refs) /\ Len(rest) = n
      BY <2>5, SeqDef, LenProperties
    <2>8. ChestCells \in Seq(Refs) /\ Len(ChestCells) = ChestSlots
      BY <2>6, SeqDef, LenProperties
    <2>9. PICK v, a : v = View /\ a = ChestCells
      OBVIOUS
    <2>10. v = a \o rest /\ a \in Seq(Refs)
      BY <2>1, <2>8, <2>9
    <2>11. v \in Seq(Refs)
      BY <2>7, <2>10, ConcatProperties
    <2>12. Len(v) \in Nat /\ DOMAIN v = 1 .. Len(v) /\ \A k \in 1 .. Len(v) : v[k] \in Refs
      BY <2>11
    <2> QED
      BY <2>1, <2>9, <2>12
  <1> QED
    BY <1>5, <1>6

\* Gathering all stacks of the item on the cursor.
LEMMA PickupAllGood ==
  ASSUME Session
  PROVE  GoodOutcome(PickupAll, FALSE)
  <1>1. CASE carried = Empty
    BY <1>1, KeepGood DEF PickupAll
  <1>2. CASE carried # Empty
    <2>1. PICK R, base : R = Gathering /\ base = [stacks |-> stacks, carried |-> carried]
      OBVIOUS
    <2>2. base \in R
      BY <1>2, <2>1 DEF Gathering, Session
    <2>3. PICK cells : cells = View
      OBVIOUS
    <2>4. PICK n \in Nat : DOMAIN cells = 1 .. n /\ \A k \in 1 .. n : cells[k] \in Usable
      BY <2>3, ViewFacts
    <2>5. \A r \in R, k \in 1 .. n : GatherAt(r, cells[k]) \in R
      BY <2>1, <2>4, GatherKeeps
    <2>6. PICK all : all = FoldLeft(GatherAt, base, cells)
      OBVIOUS
    <2>7. all \in R
      BY <2>2, <2>4, <2>5, <2>6, GatherFold
    <2>8. PICK s, c : s = all.stacks /\ c = all.carried
      OBVIOUS
    <2>9. /\ s \in Slots /\ c \in Stack
          /\ \A i \in Items : Cardinality(Units(s, i)) + Amount(c, i)
                                = Cardinality(Units(stacks, i)) + Amount(carried, i)
      BY <2>1, <2>7, <2>8 DEF Gathering
    <2>10. PickupAll = [Keep EXCEPT !.stacks = s, !.carried = c]
      BY <1>2, <2>1, <2>3, <2>6, <2>8 DEF PickupAll
    <2>11. PICK q : q = [Keep EXCEPT !.stacks = s]
      OBVIOUS
    <2>12. Is(q, s, carried, drag, Empty, TRUE)
      BY <2>11, KeepIs, Made
    <2>13. Is([q EXCEPT !.carried = c], s, c, drag, Empty, TRUE)
      BY <2>12, Made
    <2>14. Is(PickupAll, s, c, drag, Empty, TRUE)
      BY <2>10, <2>11, <2>13
    <2>15. ASSUME NEW i \in Items
           PROVE  Cardinality(Units(s, i)) + Amount(c, i) + Amount(Empty, i)
                    = Cardinality(Units(stacks, i)) + Amount(carried, i)
      <3>1. Cardinality(Units(s, i)) \in Nat /\ Amount(c, i) \in Nat /\ Amount(Empty, i) = 0
        BY <2>9, CountsFacts, StackFacts
      <3> QED
        BY <2>9, <3>1
    <2>16. Conserved(s, c, Empty)
      BY <2>15 DEF Conserved
    <2> QED
      BY <2>9, <2>14, <2>16, EmptyIsStack DEF GoodOutcome, Session
  <1> QED
    BY <1>1, <1>2

\* No drag names no slot.
LEMMA NoDragIsGood == GoodDrag(NoDrag)
  <1>1. NoDrag.slots = <<>>
    BY DEF NoDrag
  <1>2. DOMAIN NoDrag.slots = {}
    BY <1>1
  <1> QED
    BY <1>2 DEF GoodDrag

\* Ending a drag cannot fail half-way: each of its slots resolves.
LEMMA FinishGood ==
  ASSUME Session
  PROVE  GoodOutcome(FinishQuickCraft, drag.button = 2)
  <1>1. stacks \in Slots /\ carried \in Stack /\ GoodDrag(drag) /\ GoodDrag(NoDrag)
    BY NoDragIsGood DEF Session
  <1>2. PICK done, fail : /\ done = [Keep EXCEPT !.drag = NoDrag]
                          /\ fail = [done EXCEPT !.ok = FALSE]
    OBVIOUS
  <1>3. Is(done, stacks, carried, NoDrag, Empty, TRUE)
    BY <1>2, KeepIs, Made
  <1>4. Is(fail, stacks, carried, NoDrag, Empty, FALSE)
    BY <1>2, <1>3, Made
  <1>5. Conserved(stacks, carried, Empty)
    BY Unchanging
  <1>6. CASE carried = Empty \/ drag.slots = <<>>
    <2>1. FinishQuickCraft = done
      BY <1>2, <1>6 DEF FinishQuickCraft
    <2> QED
      BY <1>1, <1>3, <1>5, <2>1, EmptyIsStack DEF GoodOutcome
  <1>7. CASE carried # Empty /\ drag.slots # <<>>
    <2>1. PICK slots, n, count : slots = drag.slots /\ n = Len(slots) /\ count = carried.count
      OBVIOUS
    <2>2. drag \in [button : 0 .. 2, slots : Seq(ClickSlots)]
      BY <1>1, <1>7 DEF GoodDrag, NoDrag
    <2>3. /\ slots \in Seq(ClickSlots) /\ slots # <<>> /\ drag.button \in 0 .. 2
          /\ \A k \in DOMAIN slots : Resolve(slots[k]) # NoRef
      BY <1>1, <1>7, <2>1, <2>2 DEF GoodDrag
    <2>4. n \in Nat \ {0} /\ DOMAIN slots = 1 .. n
      BY <2>1, <2>3
    <2>5. \A k \in 1 .. n : slots[k] \in Int /\ Resolve(slots[k]) # NoRef
      <3>1. ClickSlots \subseteq Int
        BY Sizes DEF ClickSlots, Outside
      <3>2. ASSUME NEW k \in 1 .. n PROVE slots[k] \in ClickSlots /\ Resolve(slots[k]) # NoRef
        BY <2>3, <2>4
      <3> QED
        BY <3>1, <3>2
    <2>6. count \in Nat
      BY <1>1, <2>1, StackFacts
    <2>7. PICK each : each = IF drag.button = 1 THEN 1
                             ELSE IF count \div n > 1 THEN count \div n ELSE 1
      OBVIOUS
    <2>8. each \in Nat
      <3>1. count \div n \in Int
        BY <2>4, <2>6
      <3> QED
        BY <2>7, <3>1
    <2>9. PICK start : start = [stacks |-> stacks, left |-> count, ok |-> TRUE, each |-> each]
      OBVIOUS
    <2>10. CASE drag.button = 2
      <3>1. PICK R, stamp : R = Stamping /\ stamp = FoldLeft(StampAt, start, slots)
        OBVIOUS
      <3>2. start \in R
        BY <1>1, <2>1, <2>8, <2>9, <3>1 DEF Stamping
      <3>3. \A r \in R, k \in 1 .. n : StampAt(r, slots[k]) \in R
        BY <1>1, <1>7, <2>5, <3>1, StampKeeps
      <3>4. stamp \in R
        BY <2>4, <3>1, <3>2, <3>3, StampFold
      <3>5. PICK s : s = stamp.stacks
        OBVIOUS
      <3>6. s \in Slots /\ stamp.ok = TRUE
        BY <3>1, <3>4, <3>5 DEF Stamping
      <3>7. CASE creative
        <4>1. FinishQuickCraft = [done EXCEPT !.stacks = s, !.ok = TRUE]
          BY <1>2, <1>7, <2>1, <2>7, <2>9, <2>10, <3>1, <3>5, <3>6, <3>7 DEF FinishQuickCraft
        <4>2. PICK q : q = [done EXCEPT !.stacks = s]
          OBVIOUS
        <4>3. Is(q, s, carried, NoDrag, Empty, TRUE)
          BY <1>3, <4>2, Made
        <4>4. Is([q EXCEPT !.ok = TRUE], s, carried, NoDrag, Empty, TRUE)
          BY <4>3, Made
        <4>5. Is(FinishQuickCraft, s, carried, NoDrag, Empty, TRUE)
          BY <4>1, <4>2, <4>4
        <4> QED
          BY <1>1, <2>10, <3>6, <4>5, EmptyIsStack DEF GoodOutcome
      <3>8. CASE ~creative
        <4>1. FinishQuickCraft = fail
          BY <1>2, <1>7, <2>10, <3>8 DEF FinishQuickCraft
        <4> QED
          BY <1>1, <1>4, <1>5, <4>1, EmptyIsStack DEF GoodOutcome
      <3> QED
        BY <3>7, <3>8
    <2>11. CASE drag.button # 2
      <3>1. PICK R, spread : R = Spreading /\ spread = FoldLeft(SpreadAt, start, slots)
        OBVIOUS
      <3>2. start \in R
        <4>1. count \in 0 .. carried.count
          BY <2>1, <2>6
        <4>2. \A i \in Items : Cardinality(Units(stacks, i))
                                + (IF carried.item = i THEN count ELSE 0)
                                 = Cardinality(Units(stacks, i)) + Amount(carried, i)
          BY <2>1 DEF Amount
        <4> QED
          BY <1>1, <2>8, <2>9, <3>1, <4>1, <4>2 DEF Spreading
      <3>3. \A r \in R, k \in 1 .. n : SpreadAt(r, slots[k]) \in R
        BY <1>1, <1>7, <2>5, <3>1, SpreadKeeps
      <3>4. spread \in R
        BY <2>4, <3>1, <3>2, <3>3, SpreadFold
      <3>5. PICK s, left, c : /\ s = spread.stacks /\ left = spread.left
                              /\ c = WithCount(carried, left)
        OBVIOUS
      <3>6. /\ s \in Slots /\ spread.ok = TRUE /\ left \in 0 .. carried.count
            /\ \A i \in Items : Cardinality(Units(s, i)) + (IF carried.item = i THEN left ELSE 0)
                                  = Cardinality(Units(stacks, i)) + Amount(carried, i)
        BY <3>1, <3>4, <3>5 DEF Spreading
      <3>7. /\ left \in 0 .. MaxCount[carried.item]
        BY <1>1, <1>7, <3>6, StackFacts
      <3>8. c \in Stack /\ \A i \in Items : Amount(c, i) = IF carried.item = i THEN left ELSE 0
        BY <1>1, <1>7, <3>5, <3>7, WithCountFacts
      <3>9. FinishQuickCraft = [done EXCEPT !.stacks = s, !.ok = TRUE, !.carried = c]
        BY <1>2, <1>7, <2>1, <2>7, <2>9, <2>11, <3>1, <3>5, <3>6 DEF FinishQuickCraft
      <3>10. PICK q, w : q = [done EXCEPT !.stacks = s] /\ w = [q EXCEPT !.ok = TRUE]
        OBVIOUS
      <3>11. Is(q, s, carried, NoDrag, Empty, TRUE)
        BY <1>3, <3>10, Made
      <3>12. Is(w, s, carried, NoDrag, Empty, TRUE)
        BY <3>10, <3>11, Made
      <3>13. Is([w EXCEPT !.carried = c], s, c, NoDrag, Empty, TRUE)
        BY <3>12, Made
      <3>14. Is(FinishQuickCraft, s, c, NoDrag, Empty, TRUE)
        BY <3>9, <3>10, <3>13
      <3>15. ASSUME NEW i \in Items
             PROVE  Cardinality(Units(s, i)) + Amount(c, i) + Amount(Empty, i)
                      = Cardinality(Units(stacks, i)) + Amount(carried, i)
        <4>1. Cardinality(Units(s, i)) \in Nat /\ Amount(c, i) \in Nat /\ Amount(Empty, i) = 0
          BY <3>6, <3>8, CountsFacts, StackFacts
        <4> QED
          BY <3>6, <3>8, <4>1
      <3>16. Conserved(s, c, Empty)
        BY <3>15 DEF Conserved
      <3> QED
        BY <1>1, <2>11, <3>6, <3>8, <3>14, <3>16, EmptyIsStack DEF GoodOutcome
    <2> QED
      BY <2>10, <2>11
  <1> QED
    BY <1>6, <1>7

\* Beginning a drag, adding a slot that resolves to it, and ending it.
LEMMA QuickCraftGood ==
  ASSUME Session, NEW slot \in ClickSlots, NEW button \in Int
  PROVE  GoodOutcome(QuickCraft(slot, button), drag.button = 2)
  <1>1. PICK stage, kind : stage = button % 4 /\ kind = button \div 4
    OBVIOUS
  <1>2. stage \in 0 .. 3 /\ kind \in Int /\ (button >= 0 => kind >= 0)
    BY <1>1
  <1>3. stacks \in Slots /\ carried \in Stack /\ GoodDrag(drag) /\ GoodDrag(NoDrag)
        /\ Conserved(stacks, carried, Empty) /\ Empty \in Stack
    BY NoDragIsGood, Unchanging, EmptyIsStack DEF Session
  <1>4. GoodOutcome(Keep, drag.button = 2) /\ GoodOutcome(Fail, drag.button = 2)
    <2>1. (drag.button = 2) \in BOOLEAN
      OBVIOUS
    <2> QED
      BY <2>1, KeepGood
  <1>5. CASE button < 0 \/ stage = 3
    BY <1>1, <1>4, <1>5 DEF QuickCraft
  <1>6. CASE button >= 0 /\ stage = 0
    <2>1. CASE carried = Empty \/ kind > 2 \/ (kind = 2 /\ ~creative)
      <3>1. QuickCraft(slot, button) = [Fail EXCEPT !.drag = NoDrag]
        BY <1>1, <1>6, <2>1 DEF QuickCraft
      <3>2. Is([Fail EXCEPT !.drag = NoDrag], stacks, carried, NoDrag, Empty, FALSE)
        BY KeepIs, Made
      <3> QED
        BY <1>3, <3>1, <3>2 DEF GoodOutcome
    <2>2. CASE ~(carried = Empty \/ kind > 2 \/ (kind = 2 /\ ~creative))
      <3>1. PICK d : d = [button |-> kind, slots |-> <<>>]
        OBVIOUS
      <3>2. QuickCraft(slot, button) = [Keep EXCEPT !.drag = d]
        BY <1>1, <1>6, <2>2, <3>1 DEF QuickCraft
      <3>3. Is([Keep EXCEPT !.drag = d], stacks, carried, d, Empty, TRUE)
        BY KeepIs, Made
      <3>4. GoodDrag(d)
        <4>1. kind \in 0 .. 2
          BY <1>2, <1>6, <2>2
        <4>2. d.slots = <<>> /\ DOMAIN d.slots = {}
          BY <3>1
        <4>3. d \in [button : 0 .. 2, slots : Seq(ClickSlots)]
          BY <3>1, <4>1
        <4> QED
          BY <4>2, <4>3 DEF GoodDrag
      <3> QED
        BY <1>3, <3>2, <3>3, <3>4 DEF GoodOutcome
    <2> QED
      BY <2>1, <2>2
  <1>7. CASE button >= 0 /\ stage = 1
    <2>1. CASE Resolve(slot) = NoRef \/ drag = NoDrag
      BY <1>1, <1>4, <1>7, <2>1 DEF QuickCraft
    <2>2. CASE ~(Resolve(slot) = NoRef \/ drag = NoDrag)
      <3>1. PICK d, slots, v : /\ d = drag /\ slots = d.slots
                               /\ v = IF Contains(slots, slot) THEN slots ELSE Append(slots, slot)
        OBVIOUS
      <3>2. d \in [button : 0 .. 2, slots : Seq(ClickSlots)]
        BY <1>3, <2>2, <3>1 DEF GoodDrag
      <3>3. PICK e : e = [d EXCEPT !.slots = v]
        OBVIOUS
      <3>4. slots \in Seq(ClickSlots) /\ v \in Seq(ClickSlots)
        BY <3>1, <3>2
      <3>5. e \in [button : 0 .. 2, slots : Seq(ClickSlots)] /\ e.slots = v
        BY <3>2, <3>3, <3>4
      <3>6. \A k \in DOMAIN v : Resolve(v[k]) # NoRef
        <4>1. \A k \in DOMAIN slots : Resolve(slots[k]) # NoRef
          BY <1>3, <3>1 DEF GoodDrag
        <4>2. CASE v = slots
          BY <4>1, <4>2
        <4>3. CASE v = Append(slots, slot)
          <5>1. ASSUME NEW k \in DOMAIN v PROVE Resolve(v[k]) # NoRef
            <6>1. (k \in DOMAIN slots /\ v[k] = slots[k]) \/ v[k] = slot
              BY <3>4, <4>3
            <6> QED
              BY <2>2, <4>1, <6>1
          <5> QED
            BY <5>1
        <4> QED
          BY <3>1, <4>2, <4>3
      <3>7. GoodDrag(e)
        BY <3>5, <3>6 DEF GoodDrag
      <3>8. QuickCraft(slot, button) = [Keep EXCEPT !.drag.slots = v]
        <4>1. Keep.drag = d
          BY <3>1 DEF Keep
        <4> QED
          BY <1>1, <1>7, <2>2, <3>1, <4>1 DEF QuickCraft
      <3>9. [Keep EXCEPT !.drag.slots = v] = [Keep EXCEPT !.drag = e]
        <4>1. Keep.drag = d
          BY <3>1 DEF Keep
        <4> QED
          BY <3>3, <4>1
      <3>10. Is([Keep EXCEPT !.drag = e], stacks, carried, e, Empty, TRUE)
        BY KeepIs, Made
      <3>11. Is(QuickCraft(slot, button), stacks, carried, e, Empty, TRUE)
        BY <3>8, <3>9, <3>10
      <3> QED
        BY <1>3, <3>7, <3>11 DEF GoodOutcome
    <2> QED
      BY <2>1, <2>2
  <1>8. CASE button >= 0 /\ stage = 2
    <2>1. CASE drag = NoDrag
      BY <1>1, <1>4, <1>8, <2>1 DEF QuickCraft
    <2>2. CASE drag # NoDrag
      <3>1. QuickCraft(slot, button) = FinishQuickCraft
        BY <1>1, <1>8, <2>2 DEF QuickCraft
      <3> QED
        BY <3>1, FinishGood
    <2> QED
      BY <2>1, <2>2
  <1> QED
    BY <1>2, <1>5, <1>6, <1>7, <1>8

\* Every click names a slot, a button and a kind that has an outcome.
LEMMA ClickTypes ==
  ASSUME NEW click \in Clicks
  PROVE  /\ click.slot \in ClickSlots /\ click.slot \in Int /\ click.button \in Int
         /\ click.kind \in {"Pickup", "QuickMove", "Swap", "Clone", "Throw", "QuickCraft",
                           "PickupAll"}
  <1>1. ClickSlots \subseteq Int /\ 0 \in ClickSlots /\ SwapButtons \subseteq Int
    BY Sizes DEF ClickSlots, Outside, SwapButtons
  <1>2. \/ click \in [kind : {"Pickup", "Throw"}, slot : ClickSlots, button : {0, 1}]
        \/ click \in [kind : {"Swap"}, slot : ClickSlots, button : SwapButtons]
        \/ click \in [kind : {"QuickMove", "Clone"}, slot : ClickSlots, button : {0}]
        \/ click \in [kind : {"QuickCraft"}, slot : ClickSlots, button : {1}]
        \/ click \in [kind : {"QuickCraft"}, slot : {0}, button : {-1, 0, 2, 3, 4, 8, 12}]
        \/ click \in [kind : {"PickupAll"}, slot : {0}, button : {0}]
        \/ click \in [kind : {"Pickup", "Swap", "Throw"}, slot : {0}, button : {41}]
    BY DEF Clicks
  <1>3. /\ click.slot \in ClickSlots /\ click.button \in Int
        /\ click.kind \in {"Pickup", "QuickMove", "Swap", "Clone", "Throw", "QuickCraft",
                          "PickupAll"}
    <2>1. CASE click \in [kind : {"Pickup", "Throw"}, slot : ClickSlots, button : {0, 1}]
      BY <2>1
    <2>2. CASE click \in [kind : {"Swap"}, slot : ClickSlots, button : SwapButtons]
      BY <1>1, <2>2
    <2>3. CASE click \in [kind : {"QuickMove", "Clone"}, slot : ClickSlots, button : {0}]
      BY <2>3
    <2>4. CASE click \in [kind : {"QuickCraft"}, slot : ClickSlots, button : {1}]
      BY <2>4
    <2>5. CASE click \in [kind : {"QuickCraft"}, slot : {0}, button : {-1, 0, 2, 3, 4, 8, 12}]
      BY <1>1, <2>5
    <2>6. CASE click \in [kind : {"PickupAll"}, slot : {0}, button : {0}]
      BY <1>1, <2>6
    <2>7. CASE click \in [kind : {"Pickup", "Swap", "Throw"}, slot : {0}, button : {41}]
      BY <1>1, <2>7
    <2> QED
      BY <1>2, <2>1, <2>2, <2>3, <2>4, <2>5, <2>6, <2>7
  <1> QED
    BY <1>1, <1>3

\* Every click leaves a good outcome, whatever the slots hold.
LEMMA OutcomeGood ==
  ASSUME Session, NEW click \in Clicks
  PROVE  GoodOutcome(Outcome(click), CreativeClick(click))
  <1>1. PICK kind, slot, button : kind = click.kind /\ slot = click.slot /\ button = click.button
    OBVIOUS
  <1>2. /\ slot \in ClickSlots /\ slot \in Int /\ button \in Int
        /\ kind \in {"Pickup", "QuickMove", "Swap", "Clone", "Throw", "QuickCraft", "PickupAll"}
    BY <1>1, ClickTypes
  <1>3. PICK creates : creates = CreativeClick(click)
    OBVIOUS
  <1>4. /\ kind = "QuickCraft" => creates = (drag.button = 2)
        /\ kind = "Clone" => creates = TRUE
        /\ kind \notin {"QuickCraft", "Clone"} => creates = FALSE
    BY <1>1, <1>3 DEF CreativeClick
  <1>5. CASE kind = "Pickup"
    <2>1. Outcome(click) = Pickup(slot, button)
      BY <1>1, <1>5 DEF Outcome
    <2> QED
      BY <1>2, <1>3, <1>4, <1>5, <2>1, PickupGood
  <1>6. CASE kind = "QuickMove"
    <2>1. Outcome(click) = QuickMove(slot)
      BY <1>1, <1>6 DEF Outcome
    <2> QED
      BY <1>2, <1>3, <1>4, <1>6, <2>1, QuickMoveGood
  <1>7. CASE kind = "Swap"
    <2>1. Outcome(click) = Swap(slot, button)
      BY <1>1, <1>7 DEF Outcome
    <2> QED
      BY <1>2, <1>3, <1>4, <1>7, <2>1, SwapGood
  <1>8. CASE kind = "Clone"
    <2>1. Outcome(click) = CloneStack(slot)
      BY <1>1, <1>8 DEF Outcome
    <2> QED
      BY <1>2, <1>3, <1>4, <1>8, <2>1, CloneGood
  <1>9. CASE kind = "Throw"
    <2>1. Outcome(click) = Throw(slot, button)
      BY <1>1, <1>9 DEF Outcome
    <2> QED
      BY <1>2, <1>3, <1>4, <1>9, <2>1, ThrowGood
  <1>10. CASE kind = "QuickCraft"
    <2>1. Outcome(click) = QuickCraft(slot, button)
      BY <1>1, <1>10 DEF Outcome
    <2>2. GoodOutcome(QuickCraft(slot, button), drag.button = 2)
      BY <1>2, QuickCraftGood
    <2> QED
      BY <1>3, <1>4, <1>10, <2>1, <2>2
  <1>11. CASE kind = "PickupAll"
    <2>1. Outcome(click) = PickupAll
      BY <1>1, <1>11 DEF Outcome
    <2> QED
      BY <1>3, <1>4, <1>11, <2>1, PickupAllGood
  <1> QED
    BY <1>2, <1>5, <1>6, <1>7, <1>8, <1>9, <1>10, <1>11

---------------------------------------------------------------------------
\* Steps

ContainersInvariant == TypeOK /\ DragSlotsResolve /\ EventsTellAll

\* A step that the ledger allows.
LedgerStep == Ledger!Next

\* The invariant has what the clicks rest on.
LEMMA SessionHolds ==
  ASSUME TypeOK, DragSlotsResolve
  PROVE  Session
  <1>1. stacks \in Slots
    <2>1. ASSUME NEW ref \in Refs \ Usable PROVE stacks[ref] = Empty
      <3>1. open = 0 /\ ref \in Chest
        BY RefFacts DEF Usable
      <3> QED
        BY <3>1, ChestFacts DEF TypeOK
    <2> QED
      BY <2>1 DEF TypeOK, Slots
  <1> QED
    BY <1>1 DEF TypeOK, DragSlotsResolve, Session, GoodDrag

\* What a slot set means once the container may have changed.
LEMMA SlotsTyped ==
  ASSUME NEW s \in Slots
  PROVE  s \in [Refs -> Stack] /\ (open = 0 => \A ref \in ToSet(ChestCells) : s[ref] = Empty)
  <1>1. open = 0 => \A ref \in ToSet(ChestCells) : ref \in Refs \ Usable
    BY ChestFacts, RefFacts DEF Usable
  <1> QED
    BY <1>1 DEF Slots

\* What is owned of an item lies in the slots and on the cursor.
LEMMA CountInFacts ==
  ASSUME NEW D, IsFiniteSet(D), NEW s \in [D -> Stack], NEW c \in Stack, NEW i \in Items
  PROVE  /\ CountIn(s, c)[i] = Cardinality(Units(s, i)) + Amount(c, i)
         /\ CountIn(s, c)[i] \in Nat /\ Cardinality(Units(s, i)) \in Nat /\ Amount(c, i) \in Nat
  <1>1. CountIn(s, c)[i] = Cardinality(Units(s, i)) + Amount(c, i)
    BY DEF CountIn, Amount
  <1>2. Cardinality(Units(s, i)) \in Nat /\ Amount(c, i) \in Nat
    BY UnitsFinite, StackFacts
  <1> QED
    BY <1>1, <1>2

\* A single stack on the ground counts for what it is.
LEMMA CountOfOne ==
  ASSUME NEW x \in Stack, NEW i \in Items
  PROVE  CountIn([d \in {0} |-> x], Empty)[i] = Amount(x, i)
  <1>1. PICK f, D : f = [d \in {0} |-> x] /\ D = {0}
    OBVIOUS
  <1>2. IsFiniteSet(D) /\ f \in [D -> Stack] /\ 0 \in D /\ f[0] = x /\ DOMAIN f = {0}
    BY <1>1, FS_Singleton
  <1>3. Cardinality(UnitsAt(f, 0, i)) = Amount(x, i)
    BY <1>2, UnitsOfCell
  <1>4. UnitsAt(f, 0, i) = Units(f, i)
    BY <1>2 DEF UnitsAt, Units
  <1>5. CountIn(f, Empty)[i] = Cardinality(Units(f, i)) + Amount(Empty, i)
    BY <1>2, EmptyIsStack, CountInFacts
  <1>6. Amount(Empty, i) = 0 /\ Amount(x, i) \in Nat
    BY StackFacts
  <1> QED
    BY <1>1, <1>3, <1>4, <1>5, <1>6

\* Announcing the slots that changed, the cursor and the state number keeps
\* the client's picture of the inventory complete.
LEMMA AnnouncedAll ==
  ASSUME EventsTellAll, NEW slots, AnnounceSlots(slots, carried', stateId'),
         \A ref \in PlayerRefs \ slots : stacks'[ref] = stacks[ref]
  PROVE  EventsTellAll'
  <1>1. \A ref \in PlayerRefs : announced.slots[ref] = stacks[ref]
    BY DEF EventsTellAll
  <1>2. [ref \in PlayerRefs |-> IF ref \in slots THEN stacks'[ref] ELSE announced.slots[ref]]
          = [ref \in PlayerRefs |-> stacks'[ref]]
    BY <1>1
  <1>3. announced' = [slots |-> [ref \in PlayerRefs |-> stacks'[ref]],
                      carried |-> carried', stateId |-> stateId']
    BY <1>2 DEF AnnounceSlots
  <1> QED
    BY <1>3 DEF EventsTellAll

\* So does announcing exactly the slots that differ.
LEMMA ChangesAnnounced ==
  ASSUME EventsTellAll, AnnounceSlots(ChangedSlots, carried', stateId')
  PROVE  EventsTellAll'
  <1>1. \A ref \in PlayerRefs \ ChangedSlots : stacks'[ref] = stacks[ref]
    BY DEF ChangedSlots
  <1>2. PICK slots : slots = ChangedSlots
    OBVIOUS
  <1> QED
    BY <1>1, <1>2, AnnouncedAll

\* A drag keeps naming slots while the open container stays.
LEMMA DragKept ==
  ASSUME DragSlotsResolve, UNCHANGED <<open, drag>>
  PROVE  DragSlotsResolve'
  BY DEF DragSlotsResolve, Resolve

\* A drag that is over names no slots.
LEMMA DragEnded ==
  ASSUME drag' = NoDrag
  PROVE  DragSlotsResolve'
  <1>1. drag'.slots = <<>>
    BY DEF NoDrag
  <1>2. DOMAIN drag'.slots = {}
    BY <1>1
  <1> QED
    BY <1>2 DEF DragSlotsResolve

\* The next state number is a state number, also where it wraps.
LEMMA Bumped ==
  ASSUME TypeOK, BumpState
  PROVE  stateId' \in 0 .. (StateIdLimit - 1)
  <1>1. stateId \in Nat /\ StateIdLimit \in Nat /\ StateIdLimit > 0
    BY ContainersAssumption DEF TypeOK
  <1> QED
    BY <1>1 DEF BumpState

\* The books are kept, or nothing but drops changed the count.
Booked ==
  \/ Settle
  \/ /\ UNCHANGED supply
     /\ \A i \in Items : CountIn(stacks', carried')[i] + ground'[i]
                            = CountIn(stacks, carried)[i] + ground[i]

\* What every step has to show.
LEMMA StepKeeps ==
  ASSUME ContainersInvariant,
         stacks' \in [Refs -> Stack], carried' \in Stack, open' \in ContainerIds \cup {0},
         open' = 0 => \A ref \in ToSet(ChestCells) : stacks'[ref] = Empty,
         drag' \in {NoDrag} \cup [button : 0 .. 2, slots : Seq(ClickSlots)],
         stateId' \in 0 .. (StateIdLimit - 1), creative' \in BOOLEAN,
         ground' \in [Items -> Nat], \A i \in Items : ground'[i] >= ground[i],
         Booked
  PROVE  TypeOK' /\ LedgerStep
  <1>1. PICK D : D = Refs
    OBVIOUS
  <1>2. IsFiniteSet(D) /\ stacks \in [D -> Stack] /\ stacks' \in [D -> Stack] /\ carried \in Stack
        /\ ground \in [Items -> Nat] /\ supply \in [Items -> Nat]
    BY <1>1, RefFacts DEF ContainersInvariant, TypeOK
  <1>3. \A i \in Items : /\ CountIn(stacks', carried')[i] \in Nat
                         /\ CountIn(stacks, carried)[i] \in Nat
    BY <1>2, CountInFacts
  <1>4. supply' \in [Items -> Nat]
    <2>1. CASE Settle
      <3>1. supply' = [i \in Items |-> CountIn(stacks', carried')[i] + ground'[i]]
        BY <2>1 DEF Settle
      <3> QED
        BY <1>3, <3>1
    <2>2. CASE UNCHANGED supply
      BY <1>2, <2>2
    <2> QED
      BY <2>1, <2>2 DEF Booked
  <1>5. TypeOK'
    BY <1>4 DEF TypeOK
  <1>6. LedgerStep
    <2>1. CASE Settle
      <3>1. supply' = [i \in Items |-> CountIn(stacks', carried')[i] + ground'[i]]
        BY <2>1 DEF Settle
      <3>2. Ledger!Settle
        BY <3>1 DEF Ledger!Settle, Held
      <3> QED
        BY <3>2 DEF LedgerStep, Ledger!Next
    <2>2. CASE UNCHANGED supply /\ \A i \in Items :
                 CountIn(stacks', carried')[i] + ground'[i]
                   = CountIn(stacks, carried)[i] + ground[i]
      <3>1. ASSUME NEW i \in Items
            PROVE  CountIn(stacks', carried')[i]
                     = CountIn(stacks, carried)[i] - (ground'[i] - ground[i])
        <4>1. PICK a, b, c, d : /\ a = CountIn(stacks', carried')[i] /\ b = ground'[i]
                                /\ c = CountIn(stacks, carried)[i] /\ d = ground[i]
          OBVIOUS
        <4>2. a \in Nat /\ b \in Nat /\ c \in Nat /\ d \in Nat /\ a + b = c + d
          BY <1>2, <1>3, <2>2, <4>1
        <4>3. a = c - (b - d)
          BY <4>2
        <4> QED
          BY <4>1, <4>3
      <3>2. Ledger!Drop
        BY <2>2, <3>1 DEF Ledger!Drop, Held
      <3> QED
        BY <3>2 DEF LedgerStep, Ledger!Next
    <2> QED
      BY <2>1, <2>2 DEF Booked
  <1> QED
    BY <1>5, <1>6

StepGood == TypeOK' /\ DragSlotsResolve' /\ EventsTellAll' /\ LedgerStep

\* A step that leaves everything but the announcement as it was.
LEMMA NothingHappens ==
  ASSUME ContainersInvariant, AnnounceSlots({}, carried, stateId),
         UNCHANGED <<stacks, carried, open, drag, stateId, creative, ground, supply>>
  PROVE  StepGood
  <1>1. EventsTellAll'
    BY AnnouncedAll DEF ContainersInvariant
  <1>2. DragSlotsResolve'
    BY DragKept DEF ContainersInvariant
  <1>3. TypeOK'
    BY DEF ContainersInvariant, TypeOK
  <1>4. LedgerStep
    <2>1. ground \in [Items -> Nat]
      BY DEF ContainersInvariant, TypeOK
    <2>2. IsFiniteSet(Refs) /\ stacks \in [Refs -> Stack] /\ carried \in Stack
      BY RefFacts DEF ContainersInvariant, TypeOK
    <2>3. PICK D : D = Refs
      OBVIOUS
    <2>4. \A i \in Items : CountIn(stacks, carried)[i] \in Nat
      BY <2>2, <2>3, CountInFacts
    <2>5. Ledger!Drop
      BY <2>1, <2>4 DEF Ledger!Drop, Held
    <2> QED
      BY <2>5 DEF LedgerStep, Ledger!Next
  <1> QED
    BY <1>1, <1>2, <1>3, <1>4 DEF StepGood

\* What is dropped is added to the ground.
LEMMA Dropped ==
  ASSUME ground \in [Items -> Nat], NEW x \in Stack, DropToGround([d \in {0} |-> x])
  PROVE  /\ ground' \in [Items -> Nat] /\ \A i \in Items : ground'[i] = ground[i] + Amount(x, i)
         /\ \A i \in Items : ground'[i] >= ground[i]
  <1>1. ground' = [i \in Items |-> ground[i] + CountIn([d \in {0} |-> x], Empty)[i]]
    BY DEF DropToGround
  <1>2. \A i \in Items : CountIn([d \in {0} |-> x], Empty)[i] = Amount(x, i) /\ Amount(x, i) \in Nat
    BY CountOfOne, StackFacts
  <1>3. \A i \in Items : ground'[i] = ground[i] + Amount(x, i)
    BY <1>1, <1>2
  <1>4. ASSUME NEW i \in Items PROVE ground'[i] \in Nat /\ ground'[i] >= ground[i]
    BY <1>2, <1>3
  <1> QED
    BY <1>1, <1>3, <1>4

\* A click of a current state.
LEMMA ClickStep ==
  ASSUME ContainersInvariant, NEW click \in Clicks, PerformClick(click)
  PROVE  StepGood
  <1>1. TypeOK /\ DragSlotsResolve /\ EventsTellAll
    BY DEF ContainersInvariant
  <1>2. Session
    BY <1>1, SessionHolds
  <1>3. PICK o : o = Outcome(click)
    OBVIOUS
  <1>4. PICK s, c, d, x, k :
          /\ Is(o, s, c, d, x, k)
          /\ s \in Slots /\ c \in Stack /\ x \in Stack /\ k \in BOOLEAN /\ GoodDrag(d)
          /\ ~k => s = stacks /\ c = carried
          /\ CreativeClick(click) => x = Empty
          /\ ~CreativeClick(click) => Conserved(s, c, x)
    BY <1>2, <1>3, OutcomeGood DEF GoodOutcome
  <1>5. o.stacks = s /\ o.carried = c /\ o.drag = d /\ o.dropped = x /\ o.ok = k
    BY <1>4 DEF Is
  <1>6. stacks' = s /\ carried' = c /\ drag' = d /\ open' = open /\ creative' = creative
    BY <1>3, <1>5 DEF PerformClick
  <1>7. /\ s \in [Refs -> Stack]
        /\ open = 0 => \A ref \in ToSet(ChestCells) : s[ref] = Empty
    BY <1>4, SlotsTyped
  <1>8. DragSlotsResolve'
    <2>1. \A n \in DOMAIN d.slots : Resolve(d.slots[n]) # NoRef
      BY <1>4 DEF GoodDrag
    <2>2. \A n \in DOMAIN d.slots : Resolve(d.slots[n])' = Resolve(d.slots[n])
      BY <1>6 DEF Resolve
    <2> QED
      BY <1>6, <2>1, <2>2 DEF DragSlotsResolve
  <1>9. PICK D : D = Refs
    OBVIOUS
  <1>10. IsFiniteSet(D) /\ stacks \in [D -> Stack] /\ s \in [D -> Stack] /\ carried \in Stack
         /\ ground \in [Items -> Nat]
    BY <1>1, <1>7, <1>9, RefFacts DEF TypeOK
  <1>11. ASSUME NEW i \in Items, ~CreativeClick(click)
         PROVE  CountIn(s, c)[i] + Amount(x, i) = CountIn(stacks, carried)[i]
    <2>1. Cardinality(Units(s, i)) + Amount(c, i) + Amount(x, i)
            = Cardinality(Units(stacks, i)) + Amount(carried, i)
      BY <1>4, <1>11 DEF Conserved
    <2>2. CountIn(s, c)[i] = Cardinality(Units(s, i)) + Amount(c, i)
      BY <1>4, <1>10, CountInFacts
    <2>3. CountIn(stacks, carried)[i] = Cardinality(Units(stacks, i)) + Amount(carried, i)
      BY <1>10, CountInFacts
    <2> QED
      BY <2>1, <2>2, <2>3
  <1>12. CASE k
    <2>1. BumpState /\ AnnounceSlots(ChangedSlots, carried', stateId')
          /\ DropToGround([u \in {0} |-> x])
      BY <1>3, <1>5, <1>12 DEF PerformClick
    <2>2. EventsTellAll'
      BY <1>1, <2>1, ChangesAnnounced
    <2>3. /\ ground' \in [Items -> Nat] /\ \A i \in Items : ground'[i] = ground[i] + Amount(x, i)
          /\ \A i \in Items : ground'[i] >= ground[i]
      BY <1>4, <1>10, <2>1, Dropped
    <2>4. Booked
      <3>1. CASE CreativeClick(click)
        <4>1. Settle
          BY <1>3, <1>5, <1>12, <3>1 DEF PerformClick
        <4> QED
          BY <4>1 DEF Booked
      <3>2. CASE ~CreativeClick(click)
        <4>1. UNCHANGED supply
          BY <1>3, <1>5, <1>12, <3>2 DEF PerformClick
        <4>2. ASSUME NEW i \in Items
              PROVE  CountIn(s, c)[i] + ground'[i] = CountIn(stacks, carried)[i] + ground[i]
          <5>1. CountIn(s, c)[i] \in Nat /\ Amount(x, i) \in Nat /\ ground[i] \in Nat
                /\ CountIn(stacks, carried)[i] \in Nat
            BY <1>4, <1>10, CountInFacts, StackFacts
          <5>2. CountIn(s, c)[i] + Amount(x, i) = CountIn(stacks, carried)[i]
            BY <1>11, <3>2
          <5>3. ground'[i] = ground[i] + Amount(x, i)
            BY <2>3
          <5>4. PICK a, b, e, f, g : /\ a = CountIn(s, c)[i] /\ b = Amount(x, i) /\ e = ground[i]
                                     /\ f = CountIn(stacks, carried)[i] /\ g = ground'[i]
            OBVIOUS
          <5>5. a + g = f + e
            BY <5>1, <5>2, <5>3, <5>4
          <5> QED
            BY <5>4, <5>5
        <4> QED
          BY <1>6, <4>1, <4>2 DEF Booked
      <3> QED
        BY <3>1, <3>2
    <2>5. stateId' \in 0 .. (StateIdLimit - 1)
      BY <1>1, <2>1, Bumped
    <2>6. /\ stacks' \in [Refs -> Stack] /\ carried' \in Stack /\ open' \in ContainerIds \cup {0}
          /\ open' = 0 => \A ref \in ToSet(ChestCells) : stacks'[ref] = Empty
          /\ drag' \in {NoDrag} \cup [button : 0 .. 2, slots : Seq(ClickSlots)]
          /\ creative' \in BOOLEAN
      BY <1>1, <1>4, <1>6, <1>7 DEF TypeOK, GoodDrag
    <2>7. TypeOK' /\ LedgerStep
      BY <2>3, <2>4, <2>5, <2>6, StepKeeps
    <2> QED
      BY <1>8, <2>2, <2>7 DEF StepGood
  <1>13. CASE ~k
    <2>1. AnnounceSlots({}, carried', stateId) /\ UNCHANGED <<stateId, ground>> /\ UNCHANGED supply
      BY <1>3, <1>5, <1>13 DEF PerformClick
    <2>2. stacks' = stacks /\ carried' = carried
      BY <1>4, <1>6, <1>13
    <2>3. EventsTellAll'
      BY <1>1, <2>1, <2>2, AnnouncedAll
    <2>4. Booked
      BY <2>1, <2>2 DEF Booked
    <2>5. /\ stacks' \in [Refs -> Stack] /\ carried' \in Stack /\ open' \in ContainerIds \cup {0}
          /\ open' = 0 => \A ref \in ToSet(ChestCells) : stacks'[ref] = Empty
          /\ drag' \in {NoDrag} \cup [button : 0 .. 2, slots : Seq(ClickSlots)]
          /\ creative' \in BOOLEAN /\ stateId' \in 0 .. (StateIdLimit - 1)
      BY <1>1, <1>4, <1>6, <1>7, <2>1 DEF TypeOK, GoodDrag
    <2>6. ground' \in [Items -> Nat] /\ \A i \in Items : ground'[i] >= ground[i]
      BY <1>10, <2>1
    <2>7. TypeOK' /\ LedgerStep
      BY <2>4, <2>5, <2>6, StepKeeps
    <2> QED
      BY <1>8, <2>3, <2>7 DEF StepGood
  <1> QED
    BY <1>4, <1>12, <1>13

\* Operations that end the session's drag, or leave it with the open container.
LEMMA SettledStep ==
  ASSUME ContainersInvariant,
         stacks' \in [Refs -> Stack], carried' \in Stack, open' \in ContainerIds \cup {0},
         open' = 0 => \A ref \in ToSet(ChestCells) : stacks'[ref] = Empty,
         drag' = NoDrag \/ UNCHANGED <<open, drag>>,
         stateId' \in 0 .. (StateIdLimit - 1), creative' \in BOOLEAN,
         ground' \in [Items -> Nat], \A i \in Items : ground'[i] >= ground[i],
         Booked, EventsTellAll'
  PROVE  StepGood
  <1>1. DragSlotsResolve'
    BY DragKept, DragEnded DEF ContainersInvariant
  <1>2. drag' \in {NoDrag} \cup [button : 0 .. 2, slots : Seq(ClickSlots)]
    BY DEF ContainersInvariant, TypeOK
  <1>3. TypeOK' /\ LedgerStep
    BY <1>2, StepKeeps
  <1> QED
    BY <1>1, <1>3 DEF StepGood

\* Closing: the cursor is put back, the rest dropped, the container forgotten.
LEMMA CloseStep ==
  ASSUME ContainersInvariant, CloseContainer
  PROVE  StepGood
  <1>1. TypeOK /\ DragSlotsResolve /\ EventsTellAll
    BY DEF ContainersInvariant
  <1>2. PICK into, cells, r : into = stacks /\ cells = Storage /\ r = Insert(into, carried, cells)
    OBVIOUS
  <1>3. into \in Slots /\ carried \in Stack
    BY <1>1, <1>2, SessionHolds DEF Session
  <1>4. PICK n : n = HotbarEnd - MainStart + 1
    OBVIOUS
  <1>5. n \in Nat /\ DOMAIN cells = 1 .. n /\ ToSet(cells) \subseteq PlayerRefs
    BY <1>2, <1>4, CellsFacts
  <1>6. ToSet(cells) \subseteq Usable
    BY <1>5, RefFacts DEF Usable
  <1>7. r \in Insertion(into, carried, cells)
    BY <1>2, <1>3, <1>5, <1>6, InsertFacts
  <1>8. PICK m, rest : m = r.stacks /\ rest = r.rest
    OBVIOUS
  <1>9. /\ m \in Slots /\ rest \in Stack /\ r.changed \subseteq PlayerRefs
        /\ \A ref \in Refs \ r.changed : m[ref] = into[ref]
        /\ \A i \in Items : Cardinality(Units(m, i)) + Amount(rest, i)
                              = Cardinality(Units(into, i)) + Amount(carried, i)
    BY <1>5, <1>7, <1>8 DEF Insertion
  <1>10. m \in [Refs -> Stack]
    BY <1>9, SlotsTyped
  <1>11. /\ stacks' = [ref \in Refs |-> IF ref \in PlayerRefs THEN m[ref] ELSE Empty]
         /\ carried' = Empty /\ open' = 0 /\ drag' = NoDrag /\ BumpState
         /\ AnnounceSlots(ChangedSlots, Empty, stateId')
         /\ DropToGround([d \in {0} |-> rest])
         /\ (IF \E ref \in ToSet(ChestCells) : stacks[ref] # Empty THEN Settle
              ELSE UNCHANGED supply)
         /\ creative' = creative
    BY <1>2, <1>8 DEF CloseContainer, EndDrag
  <1>12. EventsTellAll'
    BY <1>1, <1>11, ChangesAnnounced
  <1>13. ground \in [Items -> Nat]
    BY <1>1 DEF TypeOK
  <1>14. /\ ground' \in [Items -> Nat] /\ \A i \in Items : ground'[i] = ground[i] + Amount(rest, i)
         /\ \A i \in Items : ground'[i] >= ground[i]
    BY <1>9, <1>11, <1>13, Dropped
  <1>15. Booked
    <2>1. CASE \E ref \in ToSet(ChestCells) : stacks[ref] # Empty
      BY <1>11, <2>1 DEF Booked
    <2>2. CASE ~\E ref \in ToSet(ChestCells) : stacks[ref] # Empty
      <3>1. stacks' = m
        <4>1. \A ref \in Refs : ref \notin PlayerRefs => m[ref] = Empty
          BY <1>2, <1>9, <2>2, RefFacts, ChestFacts
        <4>2. m = [ref \in Refs |-> m[ref]]
          BY <1>10
        <4>3. [ref \in Refs |-> IF ref \in PlayerRefs THEN m[ref] ELSE Empty]
                = [ref \in Refs |-> m[ref]]
          BY <4>1
        <4> QED
          BY <1>11, <4>2, <4>3
      <3>2. PICK D : D = Refs
        OBVIOUS
      <3>3. IsFiniteSet(D) /\ into \in [D -> Stack] /\ m \in [D -> Stack] /\ Empty \in Stack
        BY <1>1, <1>2, <1>10, <3>2, RefFacts, EmptyIsStack DEF TypeOK
      <3>4. ASSUME NEW i \in Items
            PROVE  CountIn(m, Empty)[i] + ground'[i] = CountIn(into, carried)[i] + ground[i]
        <4>1. /\ CountIn(m, Empty)[i] = Cardinality(Units(m, i)) + Amount(Empty, i)
              /\ Cardinality(Units(m, i)) \in Nat
          BY <3>3, CountInFacts
        <4>2. /\ CountIn(into, carried)[i] = Cardinality(Units(into, i)) + Amount(carried, i)
              /\ Cardinality(Units(into, i)) \in Nat
          BY <1>3, <3>3, CountInFacts
        <4>3. /\ Amount(Empty, i) = 0 /\ Amount(rest, i) \in Nat /\ Amount(carried, i) \in Nat
              /\ ground[i] \in Nat /\ ground'[i] = ground[i] + Amount(rest, i)
          BY <1>3, <1>9, <1>13, <1>14, StackFacts
        <4>4. Cardinality(Units(m, i)) + Amount(rest, i)
                = Cardinality(Units(into, i)) + Amount(carried, i)
          BY <1>9
        <4>5. PICK a, b, c, e, g, h :
                /\ a = Cardinality(Units(m, i)) /\ b = Amount(rest, i)
                /\ c = Cardinality(Units(into, i)) /\ e = Amount(carried, i)
                /\ g = ground[i] /\ h = ground'[i]
          OBVIOUS
        <4>6. (a + 0) + h = (c + e) + g
          BY <4>1, <4>2, <4>3, <4>4, <4>5
        <4> QED
          BY <4>1, <4>2, <4>3, <4>5, <4>6
      <3>5. UNCHANGED supply
        BY <1>11, <2>2
      <3> QED
        BY <1>2, <1>11, <3>1, <3>4, <3>5 DEF Booked
    <2> QED
      BY <2>1, <2>2
  <1>16. /\ stacks' \in [Refs -> Stack]
         /\ \A ref \in ToSet(ChestCells) : stacks'[ref] = Empty
    <2>1. \A ref \in ToSet(ChestCells) : ref \in Refs /\ ref \notin PlayerRefs
      BY RefFacts, ChestFacts
    <2> QED
      BY <1>10, <1>11, <2>1, EmptyIsStack
  <1>17. /\ carried' \in Stack /\ open' \in ContainerIds \cup {0}
         /\ stateId' \in 0 .. (StateIdLimit - 1) /\ creative' \in BOOLEAN
    BY <1>1, <1>11, EmptyIsStack, Bumped DEF TypeOK
  <1> QED
    BY <1>11, <1>12, <1>14, <1>15, <1>16, <1>17, SettledStep

\* Items of the slots that an operation puts into a new function.
LEMMA PlayerSlots ==
  ASSUME TypeOK, NEW s, s = [ref \in Refs |-> IF ref \in PlayerRefs THEN stacks[ref] ELSE Empty]
  PROVE  s \in [Refs -> Stack] /\ \A ref \in ToSet(ChestCells) : s[ref] = Empty
  <1>1. stacks \in [Refs -> Stack]
    BY DEF TypeOK
  <1>2. \A ref \in ToSet(ChestCells) : ref \in Refs /\ ref \notin PlayerRefs
    BY RefFacts, ChestFacts
  <1> QED
    BY <1>1, <1>2, EmptyIsStack

\* A click of an old state or of another container.
LEMMA RejectStep ==
  ASSUME ContainersInvariant, NEW container, NEW id, RejectClick(container, id)
  PROVE  StepGood
  BY NothingHappens DEF RejectClick

\* Opening a container.
LEMMA OpenStep ==
  ASSUME ContainersInvariant, OpenContainer
  PROVE  StepGood
  <1>1. TypeOK /\ EventsTellAll
    BY DEF ContainersInvariant
  <1>2. PICK id \in ContainerIds, contents \in [ToSet(ChestCells) -> Stack] :
          /\ stacks' = [ref \in Refs |-> IF ref \in PlayerRefs THEN stacks[ref] ELSE contents[ref]]
          /\ open' = id
          /\ EndDrag
          /\ BumpState
          /\ AnnounceSlots({}, carried, stateId')
          /\ UNCHANGED <<carried, creative, ground>>
          /\ Settle
    BY DEF OpenContainer
  <1>3. stacks \in [Refs -> Stack] /\ ground \in [Items -> Nat] /\ carried \in Stack
        /\ creative \in BOOLEAN
    BY <1>1 DEF TypeOK
  <1>4. \A ref \in Refs : ref \notin PlayerRefs => ref \in ToSet(ChestCells)
    BY RefFacts, ChestFacts
  <1>5. stacks' \in [Refs -> Stack]
    <2>1. \A ref \in Refs : (IF ref \in PlayerRefs THEN stacks[ref] ELSE contents[ref]) \in Stack
      BY <1>3, <1>4
    <2> QED
      BY <1>2, <2>1
  <1>6. \A ref \in PlayerRefs : stacks'[ref] = stacks[ref]
    BY <1>2, RefFacts
  <1>7. EventsTellAll'
    <2>1. AnnounceSlots({}, carried', stateId')
      BY <1>2
    <2> QED
      BY <1>1, <1>6, <2>1, AnnouncedAll
  <1>8. open' \in ContainerIds \cup {0} /\ open' # 0
    BY <1>2, ContainersAssumption
  <1>9. drag' = NoDrag /\ Booked
    BY <1>2 DEF EndDrag, Booked
  <1>10. stateId' \in 0 .. (StateIdLimit - 1)
    BY <1>1, <1>2, Bumped
  <1>11. ground' \in [Items -> Nat] /\ \A i \in Items : ground'[i] >= ground[i]
    BY <1>2, <1>3
  <1> QED
    BY <1>2, <1>3, <1>5, <1>7, <1>8, <1>9, <1>10, <1>11, SettledStep

\* Operations on the slots alone, which keep those of the container.
LEMMA SlotsStep ==
  ASSUME ContainersInvariant, stacks' \in [Refs -> Stack],
         open = 0 => \A ref \in ToSet(ChestCells) : stacks'[ref] = Empty,
         EventsTellAll', UNCHANGED <<carried, open, drag, creative>>,
         stateId' \in 0 .. (StateIdLimit - 1),
         ground' \in [Items -> Nat], \A i \in Items : ground'[i] >= ground[i],
         Booked
  PROVE  StepGood
  <1>1. carried' \in Stack /\ open' \in ContainerIds \cup {0} /\ creative' \in BOOLEAN
    BY DEF ContainersInvariant, TypeOK
  <1> QED
    BY <1>1, SettledStep

\* Setting a slot in creative mode, and being refused it.
LEMMA SetCreativeStep ==
  ASSUME ContainersInvariant, SetCreativeSlot
  PROVE  StepGood
  <1>1. TypeOK /\ DragSlotsResolve /\ EventsTellAll
    BY DEF ContainersInvariant
  <1>2. PICK slot \in 0 .. (OffhandSlot + 1), stack \in Stack :
          IF creative /\ slot <= OffhandSlot
          THEN /\ stacks' = [stacks EXCEPT ![<<"player", slot>>] = stack]
               /\ BumpState
               /\ AnnounceSlots(ChangedSlots, carried, stateId')
               /\ UNCHANGED <<carried, open, drag, creative, ground>>
               /\ Settle
          ELSE /\ AnnounceSlots({}, carried, stateId)
               /\ UNCHANGED <<stacks, carried, open, drag, stateId, creative, ground, supply>>
    BY DEF SetCreativeSlot
  <1>3. CASE creative /\ slot <= OffhandSlot
    <2>1. PICK ref : ref = <<"player", slot>>
      OBVIOUS
    <2>2. ref \in Usable
      <3>1. slot \in 0 .. OffhandSlot
        BY <1>3, Sizes
      <3> QED
        BY <2>1, <3>1, RefFacts DEF Usable
    <2>3. stacks \in Slots
      BY <1>1, SessionHolds DEF Session
    <2>4. stacks' = [stacks EXCEPT ![ref] = stack]
      BY <1>2, <1>3, <2>1
    <2>5. PICK s : s = stacks'
      OBVIOUS
    <2>6. PICK t : t = stacks
      OBVIOUS
    <2>7. t \in Slots /\ s = [t EXCEPT ![ref] = stack]
      BY <2>3, <2>4, <2>5, <2>6
    <2>8. s \in Slots
      BY <2>2, <2>7, SlotUpdate
    <2>9. stacks' \in [Refs -> Stack]
          /\ (open = 0 => \A x \in ToSet(ChestCells) : stacks'[x] = Empty)
      BY <2>5, <2>8, SlotsTyped
    <2>10. EventsTellAll'
      <3>1. AnnounceSlots(ChangedSlots, carried', stateId')
        BY <1>2, <1>3
      <3> QED
        BY <1>1, <3>1, ChangesAnnounced
    <2>11. stateId' \in 0 .. (StateIdLimit - 1)
      BY <1>1, <1>2, <1>3, Bumped
    <2>12. /\ ground' \in [Items -> Nat] /\ \A i \in Items : ground'[i] >= ground[i]
           /\ UNCHANGED <<carried, open, drag, creative>> /\ Booked
      BY <1>1, <1>2, <1>3 DEF TypeOK, Booked
    <2> QED
      BY <2>9, <2>10, <2>11, <2>12, SlotsStep
  <1>4. CASE ~(creative /\ slot <= OffhandSlot)
    BY <1>2, <1>4, NothingHappens
  <1> QED
    BY <1>3, <1>4

\* The give command.
LEMMA GiveStep ==
  ASSUME ContainersInvariant, Give
  PROVE  StepGood
  <1>1. TypeOK /\ DragSlotsResolve /\ EventsTellAll
    BY DEF ContainersInvariant
  <1>2. PICK item \in Items, count \in GiveCounts :
          LET r == FoldLeft(GiveBatch, [stacks |-> stacks, rest |-> Empty, changed |-> {}],
                            Batches(item, count))
          IN /\ stacks' = r.stacks
             /\ AnnounceSlots(r.changed, announced.carried, announced.stateId)
             /\ UNCHANGED <<carried, open, drag, stateId, creative, ground>>
             /\ Settle
    BY DEF Give
  <1>3. count \in Nat
    BY ContainersAssumption
  <1>4. PICK cells, base, r : /\ cells = Batches(item, count)
                              /\ base = [stacks |-> stacks, rest |-> Empty, changed |-> {}]
                              /\ r = FoldLeft(GiveBatch, base, cells)
    OBVIOUS
  <1>5. PICK n \in Nat : DOMAIN cells = 1 .. n /\ \A k \in 1 .. n : cells[k] \in Stack
    BY <1>3, <1>4, BatchesFacts
  <1>6. base \in Giving
    <2>1. stacks \in Slots
      BY <1>1, SessionHolds DEF Session
    <2>2. base \in [stacks : Slots, rest : Stack, changed : SUBSET PlayerRefs]
          /\ base.stacks = stacks
      BY <1>4, <2>1, EmptyIsStack
    <2> QED
      BY <2>2 DEF Giving
  <1>7. \A q \in Giving, k \in 1 .. n : GiveBatch(q, cells[k]) \in Giving
    BY <1>5, GiveKeeps
  <1>8. r \in Giving
    <2>1. PICK R : R = Giving
      OBVIOUS
    <2>2. base \in R /\ \A q \in R, k \in 1 .. n : GiveBatch(q, cells[k]) \in R
      BY <1>6, <1>7, <2>1
    <2>3. r \in R
      BY <1>4, <1>5, <2>2, GiveFold
    <2> QED
      BY <2>1, <2>3
  <1>9. PICK s, c : s = r.stacks /\ c = r.changed
    OBVIOUS
  <1>10. s \in Slots /\ c \subseteq PlayerRefs /\ \A ref \in Refs \ c : s[ref] = stacks[ref]
    BY <1>8, <1>9 DEF Giving
  <1>11. /\ stacks' = s /\ AnnounceSlots(c, announced.carried, announced.stateId)
         /\ UNCHANGED <<carried, open, drag, stateId, creative, ground>> /\ Settle
    BY <1>2, <1>4, <1>9
  <1>12. announced.carried = carried' /\ announced.stateId = stateId'
    BY <1>1, <1>11 DEF EventsTellAll
  <1>13. EventsTellAll'
    <2>1. AnnounceSlots(c, carried', stateId')
      BY <1>11, <1>12
    <2>2. \A ref \in PlayerRefs \ c : stacks'[ref] = stacks[ref]
      BY <1>10, <1>11, RefFacts
    <2> QED
      BY <1>1, <2>1, <2>2, AnnouncedAll
  <1>14. stacks' \in [Refs -> Stack]
         /\ (open = 0 => \A x \in ToSet(ChestCells) : stacks'[x] = Empty)
    BY <1>10, <1>11, SlotsTyped
  <1>15. /\ ground' \in [Items -> Nat] /\ \A i \in Items : ground'[i] >= ground[i]
         /\ stateId' \in 0 .. (StateIdLimit - 1) /\ Booked
    BY <1>1, <1>11 DEF TypeOK, Booked
  <1> QED
    BY <1>11, <1>13, <1>14, <1>15, SlotsStep

\* The events of an operation on the slots alone are the slots that differ.
LEMMA OnSlotsTells ==
  ASSUME ContainersInvariant, OnSlots
  PROVE  /\ EventsTellAll' /\ UNCHANGED <<carried, open, drag, stateId, creative, ground>>
         /\ stateId' \in 0 .. (StateIdLimit - 1)
         /\ ground' \in [Items -> Nat] /\ \A i \in Items : ground'[i] >= ground[i]
  <1>1. TypeOK /\ EventsTellAll
    BY DEF ContainersInvariant
  <1>2. UNCHANGED <<carried, open, drag, stateId, creative, ground>>
    BY DEF OnSlots
  <1>3. AnnounceSlots(ChangedSlots, carried', stateId')
    BY <1>2 DEF OnSlots
  <1>4. EventsTellAll'
    BY <1>1, <1>3, ChangesAnnounced
  <1>5. stateId' \in 0 .. (StateIdLimit - 1)
         /\ ground' \in [Items -> Nat] /\ \A i \in Items : ground'[i] >= ground[i]
    BY <1>1, <1>2 DEF TypeOK
  <1> QED
    BY <1>2, <1>4, <1>5

\* The player's slots are emptied, the container's stay.
LEMMA Emptied ==
  ASSUME ContainersInvariant,
         stacks' = [ref \in Refs |-> IF ref \in PlayerRefs THEN Empty ELSE stacks[ref]]
  PROVE  stacks' \in [Refs -> Stack]
         /\ (open = 0 => \A ref \in ToSet(ChestCells) : stacks'[ref] = Empty)
  <1>1. stacks \in [Refs -> Stack]
        /\ (open = 0 => \A ref \in ToSet(ChestCells) : stacks[ref] = Empty)
    BY DEF ContainersInvariant, TypeOK
  <1>2. \A ref \in ToSet(ChestCells) : ref \in Refs /\ ref \notin PlayerRefs
    BY RefFacts, ChestFacts
  <1> QED
    BY <1>1, <1>2, EmptyIsStack

\* The clear command.
LEMMA ClearStep ==
  ASSUME ContainersInvariant, ClearInventory
  PROVE  StepGood
  <1>1. OnSlots /\ Booked
        /\ stacks' = [ref \in Refs |-> IF ref \in PlayerRefs THEN Empty ELSE stacks[ref]]
    BY DEF ClearInventory, Booked
  <1> QED
    BY <1>1, OnSlotsTells, Emptied, SlotsStep

\* Exchanging two slots.
LEMMA SwapSlotsStep ==
  ASSUME ContainersInvariant, SwapInventorySlots
  PROVE  StepGood
  <1>1. TypeOK /\ DragSlotsResolve
    BY DEF ContainersInvariant
  <1>2. PICK i \in 0 .. OffhandSlot, j \in 0 .. OffhandSlot :
          /\ stacks' = [stacks EXCEPT ![<<"player", i>>] = stacks[<<"player", j>>],
                                      ![<<"player", j>>] = stacks[<<"player", i>>]]
          /\ OnSlots
          /\ UNCHANGED supply
    BY DEF SwapInventorySlots
  <1>3. PICK s, p, q : s = stacks /\ p = <<"player", i>> /\ q = <<"player", j>>
    OBVIOUS
  <1>4. s \in Slots /\ p \in Usable /\ q \in Usable
    BY <1>1, <1>3, SessionHolds, RefFacts DEF Session, Usable
  <1>5. PICK a, b : a = s[p] /\ b = s[q]
    OBVIOUS
  <1>6. PICK m : m = [s EXCEPT ![p] = b]
    OBVIOUS
  <1>7. PICK after : after = [m EXCEPT ![q] = a]
    OBVIOUS
  <1>8. after \in Slots /\ SameCounts(s, after)
    BY <1>4, <1>5, <1>6, <1>7, ExchangeFacts
  <1>9. stacks' = after
    <2>1. stacks' = [[s EXCEPT ![p] = b] EXCEPT ![q] = a]
      BY <1>2, <1>3, <1>5
    <2> QED
      BY <1>6, <1>7, <2>1
  <1>10. stacks' \in [Refs -> Stack]
         /\ (open = 0 => \A ref \in ToSet(ChestCells) : stacks'[ref] = Empty)
    BY <1>8, <1>9, SlotsTyped
  <1>11. Booked
    <2>1. UNCHANGED <<carried, ground>>
      BY <1>2 DEF OnSlots
    <2>2. PICK D : D = Refs
      OBVIOUS
    <2>3. IsFiniteSet(D) /\ s \in [D -> Stack] /\ after \in [D -> Stack] /\ carried \in Stack
      BY <1>1, <1>3, <1>9, <1>10, <2>2, RefFacts DEF TypeOK
    <2>4. ASSUME NEW x \in Items PROVE CountIn(after, carried)[x] = CountIn(s, carried)[x]
      <3>1. CountIn(after, carried)[x] = Cardinality(Units(after, x)) + Amount(carried, x)
        BY <2>3, CountInFacts
      <3>2. CountIn(s, carried)[x] = Cardinality(Units(s, x)) + Amount(carried, x)
        BY <2>3, CountInFacts
      <3>3. Cardinality(Units(after, x)) = Cardinality(Units(s, x))
        BY <1>8 DEF SameCounts
      <3> QED
        BY <3>1, <3>2, <3>3
    <2>5. \A x \in Items :
            CountIn(stacks', carried')[x] + ground'[x] = CountIn(stacks, carried)[x] + ground[x]
      BY <1>3, <1>9, <2>1, <2>4
    <2> QED
      BY <1>2, <2>5 DEF Booked
  <1> QED
    BY <1>2, <1>10, <1>11, OnSlotsTells, SlotsStep

\* Removing items by a command.
LEMMA RemoveStep ==
  ASSUME ContainersInvariant, RemoveInventoryItem
  PROVE  StepGood
  <1>1. TypeOK /\ DragSlotsResolve
    BY DEF ContainersInvariant
  <1>2. PICK item \in Items, count \in GiveCounts :
          /\ stacks' = FoldLeft(RemoveAt1, [stacks |-> stacks, left |-> count, item |-> item],
                                PlayerCells(0, OffhandSlot)).stacks
          /\ OnSlots
          /\ Settle
    BY DEF RemoveInventoryItem
  <1>3. PICK cells, base, r : /\ cells = PlayerCells(0, OffhandSlot)
                              /\ base = [stacks |-> stacks, left |-> count, item |-> item]
                              /\ r = FoldLeft(RemoveAt1, base, cells)
    OBVIOUS
  <1>4. PICK n : n = OffhandSlot - 0 + 1
    OBVIOUS
  <1>5. n \in Nat /\ DOMAIN cells = 1 .. n /\ \A k \in 1 .. n : cells[k] \in PlayerRefs
    <2>1. PICK z : z = 0
      OBVIOUS
    <2>2. z \in Nat /\ z <= OffhandSlot /\ OffhandSlot \in Nat
      BY <2>1, Sizes
    <2>3. /\ DOMAIN PlayerCells(z, OffhandSlot) = 1 .. (OffhandSlot - z + 1)
          /\ \A k \in 1 .. (OffhandSlot - z + 1) :
               PlayerCells(z, OffhandSlot)[k] \in {<<"player", m>> : m \in z .. OffhandSlot}
      BY <2>2, RangeFacts
    <2> QED
      BY <1>3, <1>4, <2>1, <2>2, <2>3, RefFacts
  <1>6. base \in Removing
    BY <1>1, <1>3, ContainersAssumption, SessionHolds DEF Removing, Session
  <1>7. \A q \in Removing, k \in 1 .. n : RemoveAt1(q, cells[k]) \in Removing
    BY <1>5, RemoveKeeps
  <1>8. r \in Removing
    <2>1. PICK R : R = Removing
      OBVIOUS
    <2>2. base \in R /\ \A q \in R, k \in 1 .. n : RemoveAt1(q, cells[k]) \in R
      BY <1>6, <1>7, <2>1
    <2>3. r \in R
      BY <1>3, <1>5, <2>2, RemoveFold
    <2> QED
      BY <2>1, <2>3
  <1>9. PICK s : s = r.stacks
    OBVIOUS
  <1>10. s \in Slots /\ stacks' = s
    BY <1>2, <1>3, <1>8, <1>9 DEF Removing
  <1>11. stacks' \in [Refs -> Stack]
         /\ (open = 0 => \A ref \in ToSet(ChestCells) : stacks'[ref] = Empty)
    BY <1>10, SlotsTyped
  <1>12. Booked
    BY <1>2 DEF Booked
  <1> QED
    BY <1>2, <1>11, <1>12, OnSlotsTells, SlotsStep

\* What lies in the player's slots and in those of the container.
LEMMA SplitCount ==
  ASSUME NEW s \in [Refs -> Stack], NEW i \in Items,
         NEW mine, mine = [ref \in PlayerRefs |-> s[ref]],
         NEW rest, rest = [ref \in Refs |-> IF ref \in PlayerRefs THEN Empty ELSE s[ref]]
  PROVE  Cardinality(Units(s, i)) = Cardinality(Units(mine, i)) + Cardinality(Units(rest, i))
  <1>1. PICK D, P : D = Refs /\ P = PlayerRefs
    OBVIOUS
  <1>2. IsFiniteSet(D) /\ IsFiniteSet(P) /\ P \subseteq D
    BY <1>1, RefFacts
  <1>3. s \in [D -> Stack] /\ mine \in [P -> Stack] /\ rest \in [D -> Stack]
    BY <1>1, <1>2, EmptyIsStack
  <1>4. IsFiniteSet(Units(mine, i)) /\ IsFiniteSet(Units(rest, i))
    BY <1>2, <1>3, UnitsFinite
  <1>5. Units(s, i) = Units(mine, i) \cup Units(rest, i)
    <2>1. \A ref \in D : ref \in P => mine[ref] = s[ref] /\ rest[ref].item # i
      <3>1. Empty.item # i
        BY ContainersAssumption DEF Empty
      <3> QED
        BY <1>1, <3>1
    <2>2. \A ref \in D : ref \notin P => rest[ref] = s[ref]
      BY <1>1
    <2>3. DOMAIN s = D /\ DOMAIN mine = P /\ DOMAIN rest = D
      BY <1>3
    <2> QED
      BY <1>2, <2>1, <2>2, <2>3 DEF Units
  <1>6. Units(mine, i) \cap Units(rest, i) = {}
    <2>1. \A ref \in P : rest[ref].item # i
      BY <1>1, <1>2, ContainersAssumption DEF Empty
    <2>2. DOMAIN mine = P
      BY <1>3
    <2> QED
      BY <2>1, <2>2 DEF Units
  <1>7. PICK A, B, C : A = Units(mine, i) /\ B = Units(rest, i) /\ C = Units(s, i)
    OBVIOUS
  <1>8. C = A \cup B /\ A \cap B = {} /\ IsFiniteSet(A) /\ IsFiniteSet(B)
    BY <1>4, <1>5, <1>6, <1>7
  <1>9. Cardinality(A \cup B) = Cardinality(A) + Cardinality(B) - Cardinality(A \cap B)
    BY <1>8, FS_Union
  <1>10. Cardinality(A \cap B) = 0 /\ Cardinality(A) \in Nat /\ Cardinality(B) \in Nat
    BY <1>8, FS_EmptySet, FS_CardinalityType
  <1>11. Cardinality(C) = Cardinality(A) + Cardinality(B)
    BY <1>8, <1>9, <1>10
  <1> QED
    BY <1>7, <1>11

\* Death drops the player's slots and nothing else.
LEMMA DeathStep ==
  ASSUME ContainersInvariant, PlayerDeath
  PROVE  StepGood
  <1>1. TypeOK /\ EventsTellAll
    BY DEF ContainersInvariant
  <1>2. PICK s, rest, mine : /\ s = stacks /\ rest = stacks'
                             /\ mine = [ref \in PlayerRefs |-> stacks[ref]]
    OBVIOUS
  <1>3. /\ stacks' = [ref \in Refs |-> IF ref \in PlayerRefs THEN Empty ELSE stacks[ref]]
        /\ DropToGround(mine)
        /\ AnnounceSlots(ChangedSlots, carried, stateId)
        /\ UNCHANGED <<carried, open, drag, stateId, creative, supply>>
    BY <1>2 DEF PlayerDeath
  <1>4. s \in [Refs -> Stack] /\ ground \in [Items -> Nat] /\ carried \in Stack
    BY <1>1, <1>2 DEF TypeOK
  <1>5. /\ mine = [ref \in PlayerRefs |-> s[ref]]
        /\ rest = [ref \in Refs |-> IF ref \in PlayerRefs THEN Empty ELSE s[ref]]
    BY <1>2, <1>3
  <1>6. PICK D, P : D = Refs /\ P = PlayerRefs
    OBVIOUS
  <1>7. /\ IsFiniteSet(D) /\ IsFiniteSet(P) /\ s \in [D -> Stack]
        /\ mine \in [P -> Stack] /\ rest \in [D -> Stack] /\ Empty \in Stack
    BY <1>4, <1>5, <1>6, RefFacts, EmptyIsStack
  <1>8. ASSUME NEW i \in Items
        PROVE  /\ ground'[i] = ground[i] + Cardinality(Units(mine, i))
               /\ Cardinality(Units(mine, i)) \in Nat /\ ground[i] \in Nat
    <2>1. ground'[i] = ground[i] + CountIn(mine, Empty)[i]
      BY <1>3 DEF DropToGround
    <2>2. /\ CountIn(mine, Empty)[i] = Cardinality(Units(mine, i)) + Amount(Empty, i)
          /\ Cardinality(Units(mine, i)) \in Nat
      BY <1>7, CountInFacts
    <2>3. Amount(Empty, i) = 0
      BY <1>7, StackFacts
    <2> QED
      BY <1>4, <2>1, <2>2, <2>3
  <1>9. /\ ground' \in [Items -> Nat] /\ \A i \in Items : ground'[i] >= ground[i]
    <2>1. ground' = [i \in Items |-> ground[i] + CountIn(mine, Empty)[i]]
      BY <1>3 DEF DropToGround
    <2>2. ASSUME NEW i \in Items PROVE ground'[i] \in Nat /\ ground'[i] >= ground[i]
      BY <1>8
    <2> QED
      BY <2>1, <2>2
  <1>10. Booked
    <2>1. ASSUME NEW i \in Items
          PROVE  CountIn(rest, carried)[i] + ground'[i] = CountIn(s, carried)[i] + ground[i]
      <3>1. /\ CountIn(rest, carried)[i] = Cardinality(Units(rest, i)) + Amount(carried, i)
            /\ CountIn(s, carried)[i] = Cardinality(Units(s, i)) + Amount(carried, i)
            /\ Cardinality(Units(rest, i)) \in Nat /\ Amount(carried, i) \in Nat
            /\ Cardinality(Units(s, i)) \in Nat
        BY <1>4, <1>7, CountInFacts
      <3>2. Cardinality(Units(s, i)) = Cardinality(Units(mine, i)) + Cardinality(Units(rest, i))
        BY <1>4, <1>5, SplitCount
      <3>3. PICK a, b, c, d, g, h :
              /\ a = Cardinality(Units(rest, i)) /\ b = Amount(carried, i)
              /\ c = Cardinality(Units(s, i)) /\ d = Cardinality(Units(mine, i))
              /\ g = ground[i] /\ h = ground'[i]
        OBVIOUS
      <3>4. (a + b) + h = (c + b) + g
        BY <1>8, <3>1, <3>2, <3>3
      <3> QED
        BY <3>1, <3>3, <3>4
    <2> QED
      BY <1>2, <1>3, <2>1 DEF Booked
  <1>11. EventsTellAll'
    <2>1. AnnounceSlots(ChangedSlots, carried', stateId')
      BY <1>3
    <2> QED
      BY <1>1, <2>1, ChangesAnnounced
  <1>12. stateId' \in 0 .. (StateIdLimit - 1) /\ UNCHANGED <<carried, open, drag, creative>>
    BY <1>1, <1>3 DEF TypeOK
  <1>13. stacks' \in [Refs -> Stack]
         /\ (open = 0 => \A ref \in ToSet(ChestCells) : stacks'[ref] = Empty)
    BY <1>3, Emptied
  <1> QED
    BY <1>9, <1>10, <1>11, <1>12, <1>13, SlotsStep

\* The game mode is no part of the inventory.
LEMMA ToggleStep ==
  ASSUME ContainersInvariant, ToggleCreative
  PROVE  StepGood
  <1>1. UNCHANGED <<stacks, carried, open, drag, stateId, announced, ground, supply>>
        /\ creative' \in BOOLEAN
    BY DEF ToggleCreative
  <1>2. TypeOK' /\ EventsTellAll' /\ DragSlotsResolve'
    BY <1>1, DragKept DEF ContainersInvariant, TypeOK, EventsTellAll
  <1>3. Booked
    BY <1>1 DEF Booked
  <1>4. LedgerStep
    <2>1. stacks' \in [Refs -> Stack] /\ ground' \in [Items -> Nat]
          /\ \A i \in Items : ground'[i] >= ground[i]
      BY <1>1 DEF ContainersInvariant, TypeOK
    <2> QED
      BY <1>2, <1>3, <2>1, StepKeeps DEF TypeOK
  <1> QED
    BY <1>2, <1>4 DEF StepGood

\* A session that ends or begins.
LEMMA ResetStep ==
  ASSUME ContainersInvariant, ResetSession
  PROVE  StepGood
  <1>1. TypeOK
    BY DEF ContainersInvariant
  <1>2. /\ stacks' = [ref \in Refs |-> IF ref \in PlayerRefs THEN stacks[ref] ELSE Empty]
        /\ carried' = Empty /\ open' = 0 /\ drag' = NoDrag /\ stateId' = 0
        /\ announced' = [slots |-> [ref \in PlayerRefs |-> stacks[ref]],
                         carried |-> Empty, stateId |-> 0]
        /\ UNCHANGED <<creative, ground>> /\ Booked
    BY DEF ResetSession, EndDrag, Booked
  <1>3. stacks' \in [Refs -> Stack] /\ \A ref \in ToSet(ChestCells) : stacks'[ref] = Empty
    BY <1>1, <1>2, PlayerSlots
  <1>4. EventsTellAll'
    <2>1. [ref \in PlayerRefs |-> stacks[ref]] = [ref \in PlayerRefs |-> stacks'[ref]]
      <3>1. \A ref \in PlayerRefs : stacks'[ref] = stacks[ref]
        BY <1>2, RefFacts
      <3> QED
        BY <3>1
    <2> QED
      BY <1>2, <2>1 DEF EventsTellAll
  <1>5. /\ carried' \in Stack /\ open' \in ContainerIds \cup {0} /\ creative' \in BOOLEAN
        /\ stateId' \in 0 .. (StateIdLimit - 1)
        /\ ground' \in [Items -> Nat] /\ \A i \in Items : ground'[i] >= ground[i]
    <2>1. 0 \in 0 .. (StateIdLimit - 1)
      BY ContainersAssumption
    <2> QED
      BY <1>1, <1>2, <2>1, EmptyIsStack DEF TypeOK
  <1> QED
    BY <1>2, <1>3, <1>4, <1>5, SettledStep

---------------------------------------------------------------------------
\* Theorems

\* Every operation keeps the invariant and is a step of the ledger.
LEMMA ContainersSteps ==
  ASSUME ContainersInvariant, ContainersNext
  PROVE  StepGood
  <1>1. CASE ClickContainer
    BY <1>1, RejectStep, ClickStep DEF ClickContainer
  <1>2. CASE CloseContainer
    BY <1>2, CloseStep
  <1>3. CASE OpenContainer
    BY <1>3, OpenStep
  <1>4. CASE SetCreativeSlot
    BY <1>4, SetCreativeStep
  <1>5. CASE Give
    BY <1>5, GiveStep
  <1>6. CASE ClearInventory
    BY <1>6, ClearStep
  <1>7. CASE SwapInventorySlots
    BY <1>7, SwapSlotsStep
  <1>8. CASE RemoveInventoryItem
    BY <1>8, RemoveStep
  <1>9. CASE PlayerDeath
    BY <1>9, DeathStep
  <1>10. CASE ToggleCreative
    BY <1>10, ToggleStep
  <1>11. CASE ResetSession
    BY <1>11, ResetStep
  <1> QED
    BY <1>1, <1>2, <1>3, <1>4, <1>5, <1>6, <1>7, <1>8, <1>9, <1>10, <1>11 DEF ContainersNext

\* A step of nobody changes nothing.
LEMMA ContainersStutter ==
  ASSUME ContainersInvariant, UNCHANGED containerVars
  PROVE  ContainersInvariant' /\ UNCHANGED Ledger!ledgerVars
  <1>1. UNCHANGED <<stacks, carried, open, drag, stateId, creative, announced, ground, supply>>
    BY DEF containerVars
  <1>2. TypeOK' /\ EventsTellAll' /\ DragSlotsResolve'
    BY <1>1, DragKept DEF ContainersInvariant, TypeOK, EventsTellAll
  <1>3. Held' = Held
    BY <1>1 DEF Held, CountIn, Units
  <1> QED
    BY <1>1, <1>2, <1>3 DEF ContainersInvariant, Ledger!ledgerVars

\* An inventory begins empty.
LEMMA ContainersBegin ==
  ASSUME ContainersInit
  PROVE  ContainersInvariant /\ Ledger!Init
  <1>1. stacks \in [Refs -> Stack] /\ carried \in Stack
    BY EmptyIsStack DEF ContainersInit
  <1>2. \A ref \in Refs : stacks[ref] = Empty
    BY DEF ContainersInit
  <1>3. TypeOK
    <2>1. 0 \in 0 .. (StateIdLimit - 1)
      BY ContainersAssumption
    <2>2. \A ref \in ToSet(ChestCells) : stacks[ref] = Empty
      BY <1>2, RefFacts, ChestFacts
    <2> QED
      BY <1>1, <2>1, <2>2 DEF ContainersInit, TypeOK
  <1>4. DragSlotsResolve
    <2>1. drag.slots = <<>> /\ DOMAIN <<>> = {}
      BY DEF ContainersInit, NoDrag
    <2> QED
      BY <2>1 DEF DragSlotsResolve
  <1>5. EventsTellAll
    <2>1. [ref \in PlayerRefs |-> stacks[ref]] = [ref \in PlayerRefs |-> Empty]
      BY <1>2, RefFacts
    <2> QED
      BY <2>1 DEF ContainersInit, EventsTellAll
  <1>6. Ledger!Init
    <2>1. ASSUME NEW i \in Items PROVE Held[i] = 0
      <3>1. Units(stacks, i) = {}
        <4>1. Empty.item # i
          BY ContainersAssumption DEF Empty
        <4>2. DOMAIN stacks = Refs
          BY <1>1
        <4> QED
          BY <1>2, <4>1, <4>2 DEF Units
      <3>2. Cardinality(Units(stacks, i)) = 0
        BY <3>1, FS_EmptySet
      <3>3. carried.item # i
        BY ContainersAssumption DEF ContainersInit, Empty
      <3> QED
        BY <3>2, <3>3 DEF Held, CountIn
    <2>2. Held = [i \in Items |-> Held[i]]
      BY DEF Held, CountIn
    <2>3. Held = [i \in Items |-> 0]
      BY <2>1, <2>2
    <2> QED
      BY <2>3 DEF ContainersInit, Ledger!Init
  <1> QED
    BY <1>3, <1>4, <1>5 , <1>6 DEF ContainersInvariant

\* The invariant holds always.
LEMMA ContainersInvariance == ContainersSpec => []ContainersInvariant
  <1>1. ContainersInit => ContainersInvariant
    BY ContainersBegin
  <1>2. ContainersInvariant /\ [ContainersNext]_containerVars => ContainersInvariant'
    BY ContainersSteps, ContainersStutter DEF StepGood, ContainersInvariant
  <1> QED
    BY <1>1, <1>2, PTL DEF ContainersSpec

\* Whatever is clicked, given, dropped or taken, every slot and the cursor
\* hold a real stack - an item of the game, at least one and at most a full
\* stack of it - and a closed container holds nothing.
THEOREM ContainersTypeCorrect == ContainersSpec => []TypeOK
  <1>1. ContainersInvariant => TypeOK
    BY DEF ContainersInvariant
  <1> QED
    BY <1>1, ContainersInvariance, PTL

\* The slots of a drag name slots for as long as the drag lasts, so finishing
\* one never fails half-way (finish_quick_craft), for any layout of slots.
THEOREM DragSlotsAlwaysResolve == ContainersSpec => []DragSlotsResolve
  <1>1. ContainersInvariant => DragSlotsResolve
    BY DEF ContainersInvariant
  <1> QED
    BY <1>1, ContainersInvariance, PTL

\* Whoever applies the published events knows the inventory: no operation
\* changes a slot, the cursor or the state number without telling.
THEOREM EventsTellTheInventory == ContainersSpec => []EventsTellAll
  <1>1. ContainersInvariant => EventsTellAll
    BY DEF ContainersInvariant
  <1> QED
    BY <1>1, ContainersInvariance, PTL

\* The inventory implements the ledger: clicks, swaps and death only rearrange
\* or drop items, whatever the slots hold, and the other operations keep the
\* books.
THEOREM InventoryKeepsTheLedger == ContainersSpec => LedgerSpec
  <1>1. ContainersInit => Ledger!Init
    BY ContainersBegin
  <1>2. ContainersInvariant /\ [ContainersNext]_containerVars
          => [Ledger!Next]_(Ledger!ledgerVars)
    BY ContainersSteps, ContainersStutter DEF StepGood, LedgerStep
  <1> QED
    BY <1>1, <1>2, ContainersInvariance, PTL DEF ContainersSpec, LedgerSpec, Ledger!Spec
===========================================================================
