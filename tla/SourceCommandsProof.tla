------------------------- MODULE SourceCommandsProof -------------------------
(***************************************************************************)
(* Proofs about SourceCommands for every set of strings, structs and       *)
(* commands, any size of the ring and any number of sessions and calls:    *)
(* what a source's engine is told is what JavaScript asked of that         *)
(* session, string for string as far as the encoding allows it.            *)
(***************************************************************************)
EXTENDS SourceCommands, SequenceTheorems, TLAPS

Values == Cells \cup Fresh \cup {NUL}
Bytes == Seq(Cells \cup {NUL})
Buffers == [1 .. BufLen -> Values]
Names == StringCommands \cup ValueCommands \cup PlainCommands

LEMMA SizeFacts == Field \in Nat /\ Field > 0 /\ BufLen \in Nat /\ BufLen = Field + 2
BY CommandsAssumption DEF BufLen

\* Strings and structs are not empty and fit a token's field.
LEMMA DataFacts ==
  ASSUME NEW str \in Strings \cup Structs
  PROVE  /\ str \in Seq(Cells) /\ str \in Bytes /\ Len(str) \in Nat
         /\ Len(str) > 0 /\ Len(str) <= Field
         /\ DOMAIN str = 1 .. Len(str)
<1>1. str \in Seq(Cells) /\ str # <<>> /\ Len(str) <= Field
  BY CommandsAssumption
<1>2. Len(str) \in Nat /\ DOMAIN str = 1 .. Len(str) /\ Len(str) > 0
  BY <1>1
<1>3. str \in Bytes
  BY <1>1 DEF Bytes
<1> QED BY <1>1, <1>2, <1>3

LEMMA StringFacts ==
  ASSUME NEW str \in Strings
  PROVE  /\ str \in Seq(Cells) /\ Len(str) \in Nat
         /\ Len(str) > 0 /\ Len(str) <= Field
         /\ DOMAIN str = 1 .. Len(str)
         /\ \A i \in 1 .. Len(str) : str[i] \in Cells /\ str[i] # NUL
<1>1. str \in Seq(Cells) /\ Len(str) \in Nat /\ DOMAIN str = 1 .. Len(str)
  BY DataFacts
<1>2. \A i \in 1 .. Len(str) : str[i] \in Cells
  BY <1>1
<1>3. \A i \in 1 .. Len(str) : str[i] # NUL
  BY <1>1, CommandsAssumption
<1> QED BY <1>1, <1>2, <1>3, DataFacts

\* A command has the name and the string or struct of its kind.
LEMMA CommandFacts ==
  ASSUME NEW c \in Commands
  PROVE  /\ c.cmd \in Names
         /\ c.cmd \in StringCommands => c.arg \in Strings
         /\ c.cmd \in ValueCommands => c.arg \in Structs
         /\ c.cmd \in PlainCommands => c.arg = <<>>
         /\ c.arg \in Bytes /\ Len(c.arg) \in Nat /\ Len(c.arg) <= Field
<1>1. CASE c \in [cmd : StringCommands, arg : Strings]
  <2>1. c.cmd \in StringCommands /\ c.arg \in Strings
    BY <1>1
  <2>2. c.cmd \notin ValueCommands \cup PlainCommands
    BY <2>1 DEF StringCommands, ValueCommands, PlainCommands
  <2> QED BY <2>1, <2>2, DataFacts DEF Names
<1>2. CASE c \in [cmd : ValueCommands, arg : Structs]
  <2>1. c.cmd \in ValueCommands /\ c.arg \in Structs
    BY <1>2
  <2>2. c.cmd \notin StringCommands \cup PlainCommands
    BY <2>1 DEF StringCommands, ValueCommands, PlainCommands
  <2> QED BY <2>1, <2>2, DataFacts DEF Names
<1>3. CASE c \in [cmd : PlainCommands, arg : {<<>>}]
  <2>1. c.cmd \in PlainCommands /\ c.arg = <<>>
    BY <1>3
  <2>2. c.cmd \notin StringCommands \cup ValueCommands
    BY <2>1 DEF StringCommands, ValueCommands, PlainCommands
  <2> QED BY <2>1, <2>2, SizeFacts DEF Names, Bytes
<1> QED BY <1>1, <1>2, <1>3 DEF Commands

LEMMA PaddedType ==
  ASSUME NEW str \in Strings, NEW n \in Nat
  PROVE  /\ Padded(str, n) \in Bytes
         /\ Len(Padded(str, n)) = n
         /\ \A i \in 1 .. n :
              Padded(str, n)[i] = IF i <= Len(str) THEN str[i] ELSE NUL
<1>1. Padded(str, n) \in [1 .. n -> Cells \cup {NUL}]
  BY StringFacts DEF Padded
<1> QED BY <1>1 DEF Padded, Bytes

\* The bytes of each kind of command.
LEMMA PayloadFacts ==
  ASSUME NEW c \in Commands
  PROVE  /\ Payload(c) \in Bytes
         /\ c.cmd = "JOIN" =>
              /\ Len(Payload(c)) = Field + 2
              /\ \A i \in 1 .. Field :
                   Payload(c)[i] = IF i <= Len(c.arg) THEN c.arg[i] ELSE NUL
         /\ c.cmd = "SET_PARAMETER" =>
              /\ Len(Payload(c)) = Field + 1
              /\ \A i \in 1 .. Field + 1 :
                   Payload(c)[i] = IF i <= Len(c.arg) THEN c.arg[i] ELSE NUL
         /\ c.cmd \notin {"JOIN", "SET_PARAMETER"} => Payload(c) = c.arg
<1>1. CASE c.cmd = "JOIN"
  <2> DEFINE field == Padded(c.arg, Field)
             rest == <<c.arg[1], NUL>>
  <2>1. c.arg \in Strings
    BY <1>1, CommandFacts DEF StringCommands
  <2>2. /\ field \in Bytes /\ Len(field) = Field
        /\ \A i \in 1 .. Field : field[i] = IF i <= Len(c.arg) THEN c.arg[i] ELSE NUL
    BY <2>1, PaddedType, SizeFacts
  <2>3. rest \in Bytes /\ Len(rest) = 2
    BY <2>1, StringFacts DEF Bytes
  <2>4. Payload(c) = field \o rest
    BY <1>1 DEF Payload
  <2> HIDE DEF field, rest
  <2>5. /\ field \o rest \in Bytes /\ Len(field \o rest) = Field + 2
        /\ \A i \in 1 .. Field : (field \o rest)[i] = field[i]
    <3>1. field \o rest \in Bytes
      BY <2>2, <2>3, ConcatProperties DEF Bytes
    <3>2. Len(field \o rest) = Len(field) + Len(rest)
      BY <2>2, <2>3, ConcatProperties DEF Bytes
    <3>3. \A i \in 1 .. Len(field) : (field \o rest)[i] = field[i]
      BY <2>2, <2>3, SizeFacts DEF Bytes
    <3> QED BY <3>1, <3>2, <3>3, <2>2, <2>3
  <2> QED BY <1>1, <2>2, <2>4, <2>5
<1>2. CASE c.cmd = "SET_PARAMETER"
  <2>1. c.arg \in Strings
    BY <1>2, CommandFacts DEF StringCommands
  <2>2. Payload(c) = Padded(c.arg, Field + 1)
    BY <1>2 DEF Payload
  <2>3. Field + 1 \in Nat
    BY SizeFacts
  <2>4. /\ Payload(c) \in Bytes /\ Len(Payload(c)) = Field + 1
        /\ \A i \in 1 .. Field + 1 :
             Payload(c)[i] = IF i <= Len(c.arg) THEN c.arg[i] ELSE NUL
    <3> DEFINE n == Field + 1
               str == c.arg
    <3>1. n \in Nat /\ str \in Strings /\ Payload(c) = Padded(str, n)
      BY <2>1, <2>2, <2>3
    <3> HIDE DEF n, str
    <3>2. /\ Payload(c) \in Bytes /\ Len(Payload(c)) = n
          /\ \A i \in 1 .. n : Payload(c)[i] = IF i <= Len(str) THEN str[i] ELSE NUL
      BY <3>1, PaddedType
    <3> QED BY <3>2 DEF n, str
  <2> QED BY <1>2, <2>4
<1>3. CASE c.cmd \notin {"JOIN", "SET_PARAMETER"}
  <2>1. Payload(c) = c.arg
    BY <1>3 DEF Payload
  <2> QED BY <1>3, <2>1, CommandFacts
<1> QED BY <1>1, <1>2, <1>3

LEMMA ReceivedFacts ==
  ASSUME NEW b \in Buffers, NEW data \in Bytes
  PROVE  /\ Received(b, data) \in Buffers
         /\ \A i \in 1 .. BufLen :
              Received(b, data)[i] = IF i <= Len(data) THEN data[i] ELSE b[i]
BY SizeFacts DEF Received, Buffers, Values, Bytes

\* A buffer with a string and its end starts with this string.
LEMMA StringAtFacts ==
  ASSUME NEW b \in Buffers, NEW str \in Strings,
         \A i \in 1 .. Len(str) : b[i] = str[i], b[Len(str) + 1] = NUL
  PROVE  StringAt(b) = str
<1> DEFINE End(k) == /\ \A i \in 1 .. k : b[i] # NUL
                     /\ k = Len(b) \/ b[k + 1] = NUL
           n == CHOOSE k \in 0 .. Len(b) : End(k)
<1>1. b \in Seq(Values) /\ Len(b) = BufLen
  BY SizeFacts DEF Buffers
<1>2. Len(str) \in Nat /\ Len(str) + 1 <= BufLen
  BY StringFacts, SizeFacts
<1>3. End(Len(str))
  BY StringFacts
<1>4. Len(str) \in 0 .. Len(b)
  BY <1>1, <1>2, SizeFacts
<1>5. n \in 0 .. Len(b) /\ End(n)
  <2>1. \E k \in 0 .. Len(b) : End(k)
    BY <1>3, <1>4
  <2> QED BY <2>1
<1> HIDE DEF n
<1>6. n = Len(str)
  <2>1. ~(n < Len(str))
    <3>1. ASSUME n < Len(str) PROVE FALSE
      <4>1. n + 1 \in 1 .. Len(str) /\ n # Len(b)
        BY <1>1, <1>2, <1>5, <3>1
      <4>2. b[n + 1] = NUL
        BY <1>5, <4>1
      <4> QED BY <4>1, <4>2, <1>3
    <3> QED BY <3>1
  <2>2. ~(Len(str) < n)
    <3>1. ASSUME Len(str) < n PROVE FALSE
      <4>1. Len(str) + 1 \in 1 .. n
        BY <1>2, <1>5, <3>1
      <4> QED BY <4>1, <1>5
    <3> QED BY <3>1
  <2> QED BY <2>1, <2>2, <1>2, <1>5, <1>1, SizeFacts
<1>7. StringAt(b) = SubSeq(b, 1, n)
  BY DEF StringAt, n
<1>8. SubSeq(b, 1, n) \in Seq(Values) /\ Len(SubSeq(b, 1, n)) = n
      /\ \A i \in 1 .. n : SubSeq(b, 1, n)[i] = b[i]
  BY <1>1, <1>2, <1>5, <1>6, SizeFacts
<1>9. str \in Seq(Values)
  BY StringFacts DEF Values
<1> QED BY <1>6, <1>7, <1>8, <1>9, SeqEqual

-----------------------------------------------------------------------------
(* Types *)

Events == {"SOURCE_READY", "JOIN_SUCCESS", "LEAVE_CHANNEL"}

\* What onMessage can make of a message and a buffer.
Calls == {EngineCall(m, b) : m \in Message, b \in Buffers}

TypeInv == CommandsTypeOK /\ engine \in [Sessions -> Seq(Calls)]

\* Nothing happens in a session before initialize starts it, and what is being
\* sent is the last command.
Begun ==
  /\ session = 0 => pc = "idle" /\ ~initialized
  /\ pc = "sending" => asked[session] # <<>>
  /\ \A s \in Sessions : s > session =>
       /\ src[s] = "none" /\ mon[s] = "off"
       /\ asked[s] = <<>> /\ engine[s] = <<>>
       /\ cmd[s] = <<>> /\ evt[s] = <<>> /\ chan[s] = "out"

LEMMA SessionFacts == MaxSessions \in Nat /\ Sessions = 1 .. MaxSessions /\ 1 \in Sessions
BY CommandsAssumption DEF Sessions

LEMMA RingFacts == RingSize \in Nat /\ RingSize > 0
BY CommandsAssumption

\* Who acts, acts in a session that has begun.
LEMMA ActsIn ==
  ASSUME TypeInv, Begun
  PROVE  /\ session \in Nat
         /\ pc # "idle" \/ initialized => session \in Sessions
         /\ \A s \in Sessions : mon[s] # "off" => s <= session /\ session \in Sessions
         /\ \A s \in Sessions : open[s] => s = session
BY SessionFacts DEF TypeInv, CommandsTypeOK, Begun

LEMMA MessageFacts ==
  /\ \A c \in Commands : MessageOf(c) \in Message
  /\ \A m \in Message : m.cmd \in Names /\ m.data \in Bytes
  /\ Bye \in Message
<1>1. \A c \in Commands : MessageOf(c) \in Message
  BY DEF Message
<1>2. \A m \in Message : m.cmd \in Names /\ m.data \in Bytes
  BY CommandFacts, PayloadFacts DEF Message, MessageOf
<1>3. Bye \in Message
  <2> DEFINE c == [cmd |-> "DISCONNECT", arg |-> <<>>]
  <2>1. c \in Commands
    BY DEF Commands, PlainCommands
  <2>2. MessageOf(c) = Bye
    BY <2>1, PayloadFacts DEF MessageOf, Bye
  <2> QED BY <1>1, <2>1, <2>2
<1> QED BY <1>1, <1>2, <1>3

\* The command that is being sent is a message.
LEMMA SentMessage ==
  ASSUME TypeInv, Begun, pc = "sending"
  PROVE  /\ session \in Sessions /\ asked[session] \in Seq(Commands)
         /\ Len(asked[session]) \in Nat /\ Len(asked[session]) > 0
         /\ asked[session][Len(asked[session])] \in Commands
         /\ MessageOf(asked[session][Len(asked[session])]) \in Message
<1>1. session \in Sessions /\ asked[session] \in Seq(Commands) /\ asked[session] # <<>>
  BY ActsIn DEF TypeInv, CommandsTypeOK, Begun
<1>2. Len(asked[session]) \in Nat /\ Len(asked[session]) > 0
  BY <1>1
<1>3. asked[session][Len(asked[session])] \in Commands
  BY <1>1, <1>2
<1> QED BY <1>1, <1>2, <1>3, MessageFacts

LEMMA StoresFacts ==
  ASSUME TypeInv, session \in Sessions, NEW m \in Message, Stores(m)
  PROVE  /\ cmd' \in [Sessions -> Seq(Message)]
         /\ \A s \in Sessions : Len(cmd'[s]) <= RingSize
         /\ cmd'[session] = Append(cmd[session], m)
         /\ \A s \in Sessions \ {session} : cmd'[s] = cmd[s]
         /\ open[session] /\ cmdLock' = cmdLock
<1>1. /\ cmd \in [Sessions -> Seq(Message)]
      /\ \A s \in Sessions : Len(cmd[s]) <= RingSize
      /\ cmd' = [cmd EXCEPT ![session] = Append(@, m)]
      /\ ~Full /\ open[session] /\ cmdLock' = cmdLock
  BY DEF TypeInv, CommandsTypeOK, Stores
<1>2. cmd[session] \in Seq(Message)
  BY <1>1
<1>3. Append(cmd[session], m) \in Seq(Message)
      /\ Len(Append(cmd[session], m)) = Len(cmd[session]) + 1
  BY <1>2
<1>4. Len(cmd[session]) + 1 <= RingSize
  BY <1>1, <1>2, RingFacts DEF Full
<1>5. /\ cmd'[session] = Append(cmd[session], m)
      /\ \A s \in Sessions \ {session} : cmd'[s] = cmd[s]
  BY <1>1
<1>6. cmd' \in [Sessions -> Seq(Message)]
  BY <1>1, <1>3
<1>7. \A s \in Sessions : Len(cmd'[s]) <= RingSize
  BY <1>1, <1>3, <1>4, <1>5
<1> QED BY <1>1, <1>5, <1>6, <1>7

\* DISCONNECT is behind the commands, or was not sent.
LEMMA SendsByeFacts ==
  ASSUME TypeInv, session \in Sessions, SendsBye
  PROVE  /\ cmd' \in [Sessions -> Seq(Message)]
         /\ \A s \in Sessions : Len(cmd'[s]) <= RingSize
         /\ cmd'[session] = cmd[session] \/ cmd'[session] = Append(cmd[session], Bye)
         /\ \A s \in Sessions \ {session} : cmd'[s] = cmd[s]
         /\ cmdLock' = cmdLock
<1>1. CASE Stores(Bye)
  BY <1>1, StoresFacts, MessageFacts
<1>2. CASE ~Stores(Bye)
  BY <1>2 DEF SendsBye, TypeInv, CommandsTypeOK
<1> QED BY <1>1, <1>2

LEMMA SpinsType ==
  ASSUME TypeInv, Spins
  PROVE  cmdLock' \in [Sessions -> {"free", "lost", "drawn"}]
BY DEF TypeInv, CommandsTypeOK, Spins

LEMMA ClosesType ==
  ASSUME TypeInv, session \in Sessions, Closes
  PROVE  /\ open' = [s \in Sessions |-> FALSE]
         /\ evt' \in [Sessions -> Seq(Events)] /\ \A s \in Sessions : evt'[s] = <<>>
         /\ evtLock' \in [Sessions -> {"free", "lost", "kept"}]
<1>1. EvtLocks \subseteq {"free", "lost", "kept"}
  BY DEF TypeInv, CommandsTypeOK, EvtLocks
<1>2. evtLock' \in [Sessions -> {"free", "lost", "kept"}]
  BY <1>1 DEF Closes, TypeInv, CommandsTypeOK
<1>3. evt' = [s \in Sessions |-> <<>>] /\ open' = [s \in Sessions |-> FALSE]
  BY DEF Closes
<1> QED BY <1>2, <1>3

\* A dropped command leaves the front of the ring.
LEMMA DroppedFacts ==
  ASSUME TypeInv, session \in Sessions, CommandDropped
  PROVE  /\ cmd' \in [Sessions -> Seq(Message)]
         /\ \A s \in Sessions : Len(cmd'[s]) <= RingSize
         /\ \A s \in Sessions : Len(cmd'[s]) <= Len(cmd[s])
         /\ \A s \in Sessions : \A i \in 1 .. Len(cmd'[s]) : cmd'[s][i] = cmd[s][i]
         /\ \A s \in Sessions \ {session} : cmd'[s] = cmd[s]
<1>1. /\ cmd \in [Sessions -> Seq(Message)]
      /\ \A s \in Sessions : Len(cmd[s]) <= RingSize
  BY DEF TypeInv, CommandsTypeOK
<1>2. PICK n \in 0 .. Len(cmd[session]) : cmd' = [cmd EXCEPT ![session] = SubSeq(@, 1, n)]
  BY DEF CommandDropped
<1>3. cmd[session] \in Seq(Message) /\ Len(cmd[session]) \in Nat
  BY <1>1
<1>4. /\ SubSeq(cmd[session], 1, n) \in Seq(Message)
      /\ Len(SubSeq(cmd[session], 1, n)) = n
      /\ \A i \in 1 .. n : SubSeq(cmd[session], 1, n)[i] = cmd[session][i]
  BY <1>3
<1>5. /\ cmd'[session] = SubSeq(cmd[session], 1, n)
      /\ \A s \in Sessions \ {session} : cmd'[s] = cmd[s]
  BY <1>1, <1>2
<1>6. cmd' \in [Sessions -> Seq(Message)]
  BY <1>1, <1>2, <1>4
<1>7. \A s \in Sessions : Len(cmd[s]) \in Nat
  BY <1>1
<1>8. ASSUME NEW s \in Sessions
      PROVE  /\ Len(cmd'[s]) <= RingSize /\ Len(cmd'[s]) <= Len(cmd[s])
             /\ \A i \in 1 .. Len(cmd'[s]) : cmd'[s][i] = cmd[s][i]
  <2>1. CASE s = session
    BY <1>1, <1>3, <1>4, <1>5, <2>1, RingFacts
  <2>2. CASE s # session
    BY <1>1, <1>5, <1>7, <2>2
  <2> QED BY <2>1, <2>2
<1> QED BY <1>5, <1>6, <1>8

\* What a source takes out of its ring.
LEMMA HeadMessage ==
  ASSUME TypeInv, NEW s \in Sessions, NEW m, SourceRead(s, m)
  PROVE  /\ m \in Message /\ cmd[s] # <<>> /\ m = cmd[s][1]
         /\ Tail(cmd[s]) \in Seq(Message)
         /\ Len(cmd[s]) \in Nat /\ Len(cmd[s]) > 0
         /\ Len(Tail(cmd[s])) = Len(cmd[s]) - 1
         /\ \A i \in 1 .. Len(cmd[s]) - 1 : Tail(cmd[s])[i] = cmd[s][i + 1]
         /\ cmd' = [cmd EXCEPT ![s] = Tail(@)] /\ cmd' \in [Sessions -> Seq(Message)]
         /\ \A t \in Sessions : Len(cmd'[t]) <= RingSize
         /\ Received(buf[s], m.data) \in Buffers
<1>1. cmd[s] \in Seq(Message) /\ cmd[s] # <<>> /\ m = Head(cmd[s])
  BY DEF TypeInv, CommandsTypeOK, SourceRead
<1>2. m \in Message /\ m = cmd[s][1]
  BY <1>1
<1>3. buf[s] \in Buffers
  BY DEF TypeInv, CommandsTypeOK, Buffers, Values
<1>4. Received(buf[s], m.data) \in Buffers
  BY <1>2, <1>3, MessageFacts, ReceivedFacts
<1>5. /\ cmd \in [Sessions -> Seq(Message)] /\ cmd' = [cmd EXCEPT ![s] = Tail(@)]
      /\ \A t \in Sessions : Len(cmd[t]) <= RingSize
  BY DEF TypeInv, CommandsTypeOK, SourceRead
<1>6. /\ Tail(cmd[s]) \in Seq(Message) /\ Len(cmd[s]) \in Nat /\ Len(cmd[s]) > 0
      /\ Len(Tail(cmd[s])) = Len(cmd[s]) - 1
      /\ \A i \in 1 .. Len(cmd[s]) - 1 : Tail(cmd[s])[i] = cmd[s][i + 1]
  BY <1>1
<1>7. cmd' \in [Sessions -> Seq(Message)]
  BY <1>5, <1>6
<1>8. \A t \in Sessions : Len(cmd'[t]) <= RingSize
  BY <1>5, <1>6, RingFacts
<1> QED BY <1>1, <1>2, <1>4, <1>5, <1>6, <1>7, <1>8

LEMMA AppendType ==
  ASSUME NEW S, NEW f \in [Sessions -> Seq(S)], NEW s, NEW e \in S
  PROVE  [f EXCEPT ![s] = Append(@, e)] \in [Sessions -> Seq(S)]
<1>1. CASE s \in Sessions
  <2>1. Append(f[s], e) \in Seq(S)
    BY <1>1
  <2> QED BY <2>1
<1>2. CASE s \notin Sessions
  BY <1>2
<1> QED BY <1>1, <1>2

LEMMA TailType ==
  ASSUME NEW S, NEW f \in [Sessions -> Seq(S)], NEW s \in Sessions, f[s] # <<>>
  PROVE  [f EXCEPT ![s] = Tail(@)] \in [Sessions -> Seq(S)]
OBVIOUS

LEMMA ToldType ==
  ASSUME TypeInv, NEW s \in Sessions, NEW m \in Events
  PROVE  Told(s, m) \in [Sessions -> Seq(Events)]
<1>1. evt \in [Sessions -> Seq(Events)]
  BY DEF TypeInv, CommandsTypeOK, Events
<1>2. [evt EXCEPT ![s] = Append(@, m)] \in [Sessions -> Seq(Events)]
  BY <1>1, AppendType
<1> QED BY <1>1, <1>2 DEF Told

LEMMA EndsType ==
  ASSUME TypeInv, NEW s \in Sessions, Ends(s)
  PROVE  /\ src' \in [Sessions -> {"none", "starting", "up", "failed", "stuck", "ended"}]
         /\ buf' \in [Sessions -> Buffers]
         /\ chan' \in [Sessions -> {"out", "joining", "in", "leaving"}]
<1>1. [i \in 1 .. BufLen |-> NUL] \in Buffers
  BY DEF Buffers, Values
<1> QED BY <1>1 DEF TypeInv, CommandsTypeOK, Ends, Buffers, Values

LEMMA TypeInit == Init => TypeInv
<1> SUFFICES ASSUME Init PROVE TypeInv
  OBVIOUS
<1> USE DEF Init
<1>1. /\ session \in 0 .. MaxSessions
      /\ {initialized, event, peerJoined} \subseteq BOOLEAN
  <2>1. session \in 0 .. MaxSessions
    BY SessionFacts
  <2>2. peerJoined \in BOOLEAN
    BY CommandsAssumption
  <2> QED BY <2>1, <2>2
<1>2. /\ asked \in [Sessions -> Seq(Commands)] /\ cmd \in [Sessions -> Seq(Message)]
      /\ evt \in [Sessions -> Seq(Events)]
      /\ jsq \in Seq(Sessions)
      /\ engine \in [Sessions -> Seq(Calls)]
  BY DEF Events
<1>3. buf \in [Sessions -> [1 .. BufLen -> Cells \cup Fresh \cup {NUL}]]
  OBVIOUS
<1>4. \A s \in Sessions : Len(cmd[s]) <= RingSize
  BY RingFacts
<1> QED BY <1>1, <1>2, <1>3, <1>4 DEF Events, TypeInv, CommandsTypeOK

LEMMA TypeStep ==
  ASSUME TypeInv, Begun, [Next]_vars
  PROVE  TypeInv'
<1> USE DEF TypeInv, CommandsTypeOK, sinkVars, srcVars, locks
<1> USE SessionFacts
<1>0. /\ pc # "idle" => session \in Sessions
      /\ \A s \in Sessions : mon[s] # "off" => session \in Sessions
  BY ActsIn
<1>1. CASE Initialize
  <2>1. session' \in 0 .. MaxSessions /\ session + 1 \in Sessions
    BY <1>1 DEF Initialize
  <2>2. {s \in 1 .. session : mon[s] \notin {"off", "done"}} \in SUBSET Sessions
    OBVIOUS
  <2>3. late' \in [Sessions -> SUBSET Sessions]
    BY <1>1, <2>1, <2>2 DEF Initialize
  <2>4. open' \in [Sessions -> BOOLEAN] /\ \A s \in Sessions : open'[s] => s = session'
    BY <1>1, <2>1 DEF Initialize
  <2>5. src' \in [Sessions -> {"none", "starting", "up", "failed", "stuck", "ended"}]
    BY <1>1, <2>1 DEF Initialize
  <2> QED BY <1>1, <2>1, <2>3, <2>4, <2>5 DEF Initialize
<1>2. CASE InitClears \/ Release
  <2>1. CASE InitClears
    BY <2>1 DEF InitClears
  <2>2. CASE Release
    BY <2>2 DEF Release
  <2> QED BY <1>2, <2>1, <2>2
<1>3. ASSUME NEW c \in Commands, Command(c)
      PROVE  TypeInv'
  <2>1. c \in Commands
    BY CommandsAssumption
  <2>2. asked' \in [Sessions -> Seq(Commands)]
    BY <1>3, <2>1, AppendType DEF Command
  <2> QED BY <1>3, <2>2 DEF Command
<1>4. CASE InitReady \/ InitDone \/ InitTimeout
  <2>1. CASE InitReady
    BY <2>1 DEF InitReady
  <2>2. CASE InitDone
    BY <2>2 DEF InitDone
  <2>3. CASE InitTimeout
    BY <2>3 DEF InitTimeout
  <2> QED BY <1>4, <2>1, <2>2, <2>3
<1>5. CASE ClearSends
  <2>1. session \in Sessions /\ SendsBye
    BY <1>0, <1>5 DEF ClearSends
  <2>2. /\ cmd' \in [Sessions -> Seq(Message)] /\ cmdLock' = cmdLock
        /\ \A s \in Sessions : Len(cmd'[s]) <= RingSize
    BY <2>1, SendsByeFacts
  <2> QED BY <1>5, <2>2 DEF ClearSends
<1>6. CASE ClearCloses
  <2>1. session \in Sessions /\ Closes
    BY <1>0, <1>6 DEF ClearCloses
  <2>2. /\ open' = [s \in Sessions |-> FALSE]
        /\ evt' \in [Sessions -> Seq(Events)]
        /\ evtLock' \in [Sessions -> {"free", "lost", "kept"}]
    BY <2>1, ClosesType
  <2>3. pc' \in {"stuck", "idle"}
    BY <1>6 DEF ClearCloses
  <2> QED BY <1>6, <2>2, <2>3 DEF ClearCloses, Events
<1>7. CASE CommandSent
  <2>1. MessageOf(asked[session][Len(asked[session])]) \in Message /\ session \in Sessions
    BY <1>7, SentMessage DEF CommandSent
  <2>2. /\ cmd' \in [Sessions -> Seq(Message)] /\ cmdLock' = cmdLock
        /\ \A s \in Sessions : Len(cmd'[s]) <= RingSize
    BY <1>7, <2>1, StoresFacts DEF CommandSent
  <2> QED BY <1>7, <2>2 DEF CommandSent
<1>8. CASE CommandDropped
  <2>1. session \in Sessions
    BY <1>0, <1>8 DEF CommandDropped
  <2>2. /\ cmd' \in [Sessions -> Seq(Message)]
        /\ \A s \in Sessions : Len(cmd'[s]) <= RingSize
    BY <1>8, <2>1, DroppedFacts
  <2> QED BY <1>8, <2>2 DEF CommandDropped
<1>9. CASE JsSpins
  <2>1. cmdLock' \in [Sessions -> {"free", "lost", "drawn"}]
    BY <1>9, SpinsType DEF JsSpins
  <2> QED BY <1>9, <2>1 DEF JsSpins
<1>10. CASE JsEvent
  <2>1. jsq' \in Seq(Sessions)
    BY <1>10 DEF JsEvent
  <2> QED BY <1>10, <2>1 DEF JsEvent
<1>11. CASE MsgStep
  <2>1. PICK m : MsgRead(m)
    BY <1>11 DEF MsgStep, MsgReady, MsgJoined, MsgLeft
  <2>2. session \in Sessions
    BY <2>1 DEF MsgRead
  <2>3. evt' \in [Sessions -> Seq(Events)]
    BY <2>1, <2>2, TailType DEF MsgRead, Events
  <2>4. {event', peerJoined'} \subseteq BOOLEAN
    BY <1>11 DEF MsgStep, MsgReady, MsgJoined, MsgLeft
  <2> QED BY <2>1, <2>3, <2>4 DEF MsgRead, Events
<1>12. ASSUME NEW s \in Sessions, MonitorStep(s) \/ MonitorMisreads(s)
       PROVE  TypeInv'
  <2>0. ASSUME mon[s] # "off"
        PROVE  session \in Sessions
    BY <1>0, <2>0
  <2>1. CASE MonitorFires(s) \/ MonitorMisreads(s)
    <3>1. jsq' \in Seq(Sessions)
      <4>1. jsq' = Append(jsq, s)
        BY <2>1 DEF MonitorFires, MonitorMisreads
      <4> QED BY <4>1
    <3>2. CASE MonitorFires(s)
      BY <3>1, <3>2 DEF MonitorFires
    <3>3. CASE MonitorMisreads(s)
      BY <3>1, <3>3 DEF MonitorMisreads
    <3> QED BY <2>1, <3>2, <3>3
  <2>2. CASE MonitorReleases(s)
    BY <2>2 DEF MonitorReleases
  <2>3. CASE MonitorSends(s)
    <3>1. session \in Sessions /\ SendsBye
      BY <2>0, <2>3 DEF MonitorSends
    <3>2. /\ cmd' \in [Sessions -> Seq(Message)] /\ cmdLock' = cmdLock
          /\ \A t \in Sessions : Len(cmd'[t]) <= RingSize
      BY <3>1, SendsByeFacts
    <3> QED BY <2>3, <3>2 DEF MonitorSends
  <2>4. CASE MonitorCloses(s)
    <3>1. session \in Sessions /\ Closes
      BY <2>0, <2>4 DEF MonitorCloses
    <3>2. /\ open' = [t \in Sessions |-> FALSE]
          /\ evt' \in [Sessions -> Seq(Events)]
          /\ evtLock' \in [Sessions -> {"free", "lost", "kept"}]
      BY <3>1, ClosesType
    <3> QED BY <2>4, <3>2 DEF MonitorCloses, Events
  <2>5. CASE MonitorSpins(s)
    <3>1. cmdLock' \in [Sessions -> {"free", "lost", "drawn"}]
      BY <2>5, SpinsType DEF MonitorSpins
    <3> QED BY <2>5, <3>1 DEF MonitorSpins
  <2> QED BY <1>12, <2>1, <2>2, <2>3, <2>4, <2>5 DEF MonitorStep
<1>13. ASSUME NEW s \in Sessions, SourceStart(s)
       PROVE  TypeInv'
  <2>1. evt' \in [Sessions -> Seq(Events)]
    <3>1. evt' = Told(s, "SOURCE_READY") \/ evt' = evt
      BY <1>13 DEF SourceStart
    <3>2. Told(s, "SOURCE_READY") \in [Sessions -> Seq(Events)]
      BY ToldType DEF Events
    <3> QED BY <3>1, <3>2 DEF Events
  <2>2. CASE Ends(s)
    BY <1>13, <2>1, <2>2, EndsType DEF SourceStart, Buffers, Values, Events
  <2>3. CASE UNCHANGED <<buf, chan>>
    <3>1. src' \in [Sessions -> {"none", "starting", "up", "failed", "stuck", "ended"}]
      <4>1. PICK p \in {"up", "failed", "stuck", "ended"} : src' = [src EXCEPT ![s] = p]
        BY <1>13 DEF SourceStart, Ends
      <4> QED BY <4>1
    <3> QED BY <1>13, <2>1, <2>3, <3>1 DEF SourceStart, Events
  <2> QED BY <1>13, <2>2, <2>3 DEF SourceStart
<1>14. ASSUME NEW s \in Sessions, NEW m \in Waiting(s), SourceRead(s, m), Taken(s, m)
       PROVE  /\ cmd' \in [Sessions -> Seq(Message)]
              /\ \A t \in Sessions : Len(cmd'[t]) <= RingSize
              /\ buf' \in [Sessions -> Buffers]
              /\ EngineCall(m, Received(buf[s], m.data)) \in Calls
  <2>1. /\ m \in Message /\ Received(buf[s], m.data) \in Buffers
        /\ cmd' \in [Sessions -> Seq(Message)]
        /\ \A t \in Sessions : Len(cmd'[t]) <= RingSize
    BY <1>14, HeadMessage
  <2>2. buf \in [Sessions -> Buffers]
    BY DEF Buffers, Values
  <2> QED BY <1>14, <2>1, <2>2 DEF Taken, Calls
<1>15. ASSUME NEW s \in Sessions, SourceObeys(s)
       PROVE  TypeInv'
  <2>1. PICK m \in Waiting(s) :
          /\ SourceRead(s, m) /\ Taken(s, m)
          /\ engine' = [engine EXCEPT
               ![s] = Append(@, EngineCall(m, Received(buf[s], m.data)))]
          /\ chan' = [chan EXCEPT ![s] = Moved(m.cmd, @)]
          /\ UNCHANGED src
    BY <1>15 DEF SourceObeys
  <2>2. engine' \in [Sessions -> Seq(Calls)]
    BY <1>14, <2>1, AppendType
  <2>3. Moved(m.cmd, chan[s]) \in {"out", "joining", "in", "leaving"}
    BY DEF Moved
  <2>4. chan' \in [Sessions -> {"out", "joining", "in", "leaving"}]
    BY <2>1, <2>3
  <2>5. /\ cmd' \in [Sessions -> Seq(Message)] /\ buf' \in [Sessions -> Buffers]
        /\ \A t \in Sessions : Len(cmd'[t]) <= RingSize
    BY <1>14, <2>1
  <2> QED BY <2>1, <2>2, <2>4, <2>5 DEF SourceRead, Buffers, Values
<1>16. ASSUME NEW s \in Sessions, SourceExits(s)
       PROVE  TypeInv'
  <2>1. PICK m \in Waiting(s) : SourceRead(s, m) /\ Ends(s) /\ UNCHANGED engine
    BY <1>16 DEF SourceExits
  <2>2. /\ cmd' \in [Sessions -> Seq(Message)]
        /\ \A t \in Sessions : Len(cmd'[t]) <= RingSize
    BY <2>1, HeadMessage
  <2> QED BY <2>1, <2>2, EndsType DEF SourceRead, Buffers, Values
<1>17. ASSUME NEW s \in Sessions, SourceCrash(s)
       PROVE  TypeInv'
  <2>1. Ends(s) /\ UNCHANGED <<sinkVars, cmd, evt, engine>>
    BY <1>17 DEF SourceCrash
  <2>2. /\ cmdLock' \in [Sessions -> {"free", "lost", "drawn"}]
        /\ evtLock' \in [Sessions -> {"free", "lost", "kept"}]
    <3>1. /\ \E lock \in {cmdLock[s], "lost"} : cmdLock' = [cmdLock EXCEPT ![s] = lock]
          /\ \E lock \in {evtLock[s], "lost"} : evtLock' = [evtLock EXCEPT ![s] = lock]
      BY <1>17 DEF SourceCrash, MayLose
    <3>2. cmdLock' \in [Sessions -> {"free", "lost", "drawn"}]
      BY <3>1
    <3>3. evtLock' \in [Sessions -> {"free", "lost", "kept"}]
      BY <3>1
    <3> QED BY <3>2, <3>3
  <2> QED BY <2>1, <2>2, EndsType DEF Buffers, Values
<1>18. ASSUME NEW s \in Sessions, SourceDrops(s)
       PROVE  TypeInv'
  <2>1. PICK m \in Waiting(s) :
          SourceRead(s, m) /\ Taken(s, m) /\ UNCHANGED <<src, engine, chan>>
    BY <1>18 DEF SourceDrops
  <2> QED BY <1>14, <2>1 DEF SourceRead, Buffers, Values
<1>19. ASSUME NEW s \in Sessions, EngineReports(s)
       PROVE  TypeInv'
  <2>1. evt' \in [Sessions -> Seq(Events)]
    BY <1>19, ToldType DEF EngineReports, Events
  <2> QED BY <1>19, <2>1 DEF EngineReports, Events
<1>20. CASE UNCHANGED vars
  BY <1>20 DEF vars
<1> QED BY <1>1, <1>2, <1>3, <1>4, <1>5, <1>6, <1>7, <1>8, <1>9, <1>10, <1>11, <1>12, <1>13,
           <1>15, <1>16, <1>17, <1>18, <1>19, <1>20 DEF Next, JsStep, SourceStep

LEMMA BegunInit == Init => Begun
BY SessionFacts DEF Init, Begun

\* A source's step is in a session that has begun, and leaves the others alone.
LEMMA SourceFrame ==
  ASSUME TypeInv, Begun, NEW s \in Sessions,
         SourceStep(s) \/ EngineReports(s) \/ SourceCrash(s)
  PROVE  /\ UNCHANGED sinkVars
         /\ src[s] \notin {"none", "ended", "stuck"} /\ s <= session
         /\ \A t \in Sessions \ {s} :
              /\ src'[t] = src[t] /\ cmd'[t] = cmd[t] /\ evt'[t] = evt[t]
              /\ buf'[t] = buf[t] /\ engine'[t] = engine[t] /\ chan'[t] = chan[t]
<1>0. /\ DOMAIN src = Sessions /\ DOMAIN evt = Sessions /\ DOMAIN cmd = Sessions
      /\ DOMAIN engine = Sessions /\ DOMAIN chan = Sessions /\ DOMAIN buf = Sessions
  BY DEF TypeInv, CommandsTypeOK
<1> USE <1>0
<1> USE DEF srcVars
<1>1. UNCHANGED sinkVars
  BY DEF SourceStep, SourceStart, SourceObeys, SourceExits, SourceDrops, SourceRead,
         EngineReports, SourceCrash
<1>2. src[s] \notin {"none", "ended", "stuck"}
  BY DEF SourceStep, SourceStart, SourceObeys, SourceExits, SourceDrops, EngineReports,
         SourceCrash
<1>3. s <= session
  BY <1>2, SessionFacts DEF Begun, TypeInv, CommandsTypeOK
<1>4. \A t \in Sessions \ {s} :
        /\ src'[t] = src[t] /\ cmd'[t] = cmd[t] /\ evt'[t] = evt[t]
        /\ buf'[t] = buf[t] /\ engine'[t] = engine[t] /\ chan'[t] = chan[t]
  <2>1. CASE SourceStart(s)
    BY <2>1 DEF SourceStart, Told, Ends
  <2>2. CASE SourceObeys(s)
    BY <2>2 DEF SourceObeys, SourceRead, Taken
  <2>3. CASE SourceExits(s)
    BY <2>3 DEF SourceExits, SourceRead, Ends
  <2>4. CASE SourceDrops(s)
    BY <2>4 DEF SourceDrops, SourceRead, Taken
  <2>5. CASE EngineReports(s)
    BY <2>5 DEF EngineReports, Told
  <2>6. CASE SourceCrash(s)
    BY <2>6 DEF SourceCrash, Ends
  <2> QED BY <2>1, <2>2, <2>3, <2>4, <2>5, <2>6 DEF SourceStep
<1> QED BY <1>1, <1>2, <1>3, <1>4

LEMMA BegunStep ==
  ASSUME TypeInv, Begun, [Next]_vars
  PROVE  Begun'
<1> USE DEF sinkVars, srcVars, locks
<1> USE SessionFacts
<1>0. /\ session \in Nat /\ (session # 0 => session \in Sessions)
      /\ asked \in [Sessions -> Seq(Commands)] /\ cmd \in [Sessions -> Seq(Message)]
      /\ DOMAIN mon = Sessions /\ DOMAIN src = Sessions /\ DOMAIN evt = Sessions
      /\ \A s \in Sessions : mon[s] # "off" => s <= session /\ session # 0
      /\ pc # "idle" \/ initialized => session # 0
  BY DEF TypeInv, CommandsTypeOK, Begun
<1>1. CASE Initialize
  <2>1. /\ session' = session + 1 /\ pc' = "waiting"
        /\ src' = [src EXCEPT ![session + 1] = "starting"]
        /\ UNCHANGED <<mon, asked, engine, chan, cmd, evt>>
    BY <1>1 DEF Initialize
  <2>2. ASSUME NEW s \in Sessions, s > session'
        PROVE  s > session /\ src'[s] = src[s]
    <3>1. s > session /\ s # session + 1
      BY <2>1, <2>2, <1>0
    <3> QED BY <2>1, <3>1, <1>0
  <2>3. session' # 0
    BY <2>1, <1>0
  <2> QED BY <2>1, <2>2, <2>3 DEF Begun
<1>2. CASE Release \/ InitClears
  <2>1. /\ UNCHANGED <<session, src, mon, asked, engine, cmd, evt, chan>>
        /\ session # 0 /\ pc' = "rest"
    BY <1>2, <1>0 DEF Release, InitClears
  <2> QED BY <2>1 DEF Begun
<1>3. ASSUME NEW c \in Commands, Command(c)
      PROVE  Begun'
  <2>1. session \in Sessions /\ c \in Commands
    BY <1>0, <1>3, CommandsAssumption DEF Command, Accepts, Begun
  <2>2. /\ asked' = [asked EXCEPT ![session] = Append(@, c)]
        /\ UNCHANGED <<session, mon, src, evt, cmd, engine, chan>>
    BY <1>3 DEF Command
  <2>3. asked'[session] # <<>>
    <3>1. asked'[session] = Append(asked[session], c) /\ asked[session] \in Seq(Commands)
      BY <1>0, <2>1, <2>2
    <3>2. Append(asked[session], c) # <<>>
      BY <2>1, <3>1, AppendProperties
    <3> QED BY <3>1, <3>2
  <2>4. \A s \in Sessions : s > session => asked'[s] = asked[s]
    BY <1>0, <2>2
  <2>5. session # 0
    BY <1>0, <1>3 DEF Command, Accepts
  <2>6. \A s \in Sessions : s > session' =>
             /\ src'[s] = "none" /\ mon'[s] = "off"
             /\ asked'[s] = <<>> /\ engine'[s] = <<>>
             /\ cmd'[s] = <<>> /\ evt'[s] = <<>> /\ chan'[s] = "out"
    BY <2>2, <2>4 DEF Begun
  <2> QED BY <2>2, <2>3, <2>5, <2>6 DEF Begun
<1>4. CASE InitReady \/ InitDone \/ InitTimeout
  <2>1. /\ session' = session /\ session # 0 /\ pc' # "sending"
        /\ UNCHANGED <<asked, src, evt, cmd, engine, chan>>
    BY <1>4, <1>0 DEF InitReady, InitDone, InitTimeout
  <2>2. mon' = mon \/ mon' = [mon EXCEPT ![session] = "armed"]
    BY <1>4 DEF InitReady, InitDone, InitTimeout
  <2>3. ASSUME NEW s \in Sessions, s > session
        PROVE  mon'[s] = mon[s]
    <3>1. s # session
      BY <2>3, <1>0
    <3> QED BY <2>2, <3>1, <1>0
  <2> QED BY <2>1, <2>3 DEF Begun
<1>5. ASSUME UNCHANGED <<session, asked, src, engine, chan>>,
             pc' = pc \/ pc' # "sending", session # 0,
             \A s \in Sessions : s > session =>
               mon'[s] = mon[s] /\ cmd'[s] = cmd[s] /\ evt'[s] = <<>>
      PROVE  Begun'
  BY <1>5 DEF Begun
<1>e. \A s \in Sessions : s > session => evt[s] = <<>>
  BY DEF Begun
<1>6. CASE ClearSends \/ CommandSent \/ CommandDropped
  <2>1. /\ UNCHANGED <<session, asked, src, engine, chan, mon, evt>>
        /\ pc' # "sending" /\ session \in Sessions
    BY <1>0, <1>6 DEF ClearSends, CommandSent, CommandDropped
  <2>2. \A s \in Sessions \ {session} : cmd'[s] = cmd[s]
    <3>1. CASE ClearSends
      BY <2>1, <3>1, SendsByeFacts DEF ClearSends
    <3>2. CASE CommandSent
      BY <2>1, <3>2, StoresFacts, SentMessage DEF CommandSent
    <3>3. CASE CommandDropped
      BY <2>1, <3>3, DroppedFacts
    <3> QED BY <1>6, <3>1, <3>2, <3>3
  <2>3. \A s \in Sessions : s > session => s # session
    BY <1>0
  <2> QED BY <1>0, <1>5, <1>e, <2>1, <2>2, <2>3
<1>7. CASE ClearCloses
  <2>1. /\ UNCHANGED <<session, asked, src, engine, chan, mon, cmd>>
        /\ pc' # "sending" /\ session \in Sessions /\ Closes
    BY <1>0, <1>7 DEF ClearCloses
  <2>2. \A s \in Sessions : evt'[s] = <<>>
    BY <2>1, ClosesType
  <2> QED BY <1>0, <1>5, <2>1, <2>2
<1>8. CASE JsSpins \/ JsEvent
  <2>1. CASE JsSpins
    <3>1. session # 0
      BY <1>0, <2>1 DEF JsSpins
    <3>2. UNCHANGED <<session, asked, src, engine, chan, mon, cmd, evt>> /\ pc' = "stuck"
      BY <2>1 DEF JsSpins
    <3> QED BY <1>5, <1>e, <3>1, <3>2
  <2>2. CASE JsEvent
    BY <2>2 DEF JsEvent, Begun
  <2> QED BY <1>8, <2>1, <2>2
<1>9. ASSUME NEW m, MsgRead(m)
      PROVE  Begun'
  BY <1>9, <1>0 DEF MsgRead, Begun
<1>10. ASSUME NEW s \in Sessions, MonitorStep(s) \/ MonitorMisreads(s)
       PROVE  Begun'
  <2>1. /\ UNCHANGED <<session, asked, src, engine, chan, pc>>
        /\ mon[s] # "off" /\ \A t \in Sessions \ {s} : mon'[t] = mon[t]
    <3>1. CASE MonitorFires(s) \/ MonitorMisreads(s)
      BY <1>0, <3>1 DEF MonitorFires, MonitorMisreads
    <3>2. CASE MonitorReleases(s)
      BY <1>0, <3>2 DEF MonitorReleases
    <3>3. CASE MonitorSends(s)
      BY <1>0, <3>3 DEF MonitorSends
    <3>4. CASE MonitorCloses(s)
      BY <1>0, <3>4 DEF MonitorCloses
    <3>5. CASE MonitorSpins(s)
      BY <1>0, <3>5 DEF MonitorSpins
    <3> QED BY <1>10, <3>1, <3>2, <3>3, <3>4, <3>5 DEF MonitorStep
  <2>2. session \in Sessions /\ s <= session
    BY <1>0, <2>1
  <2>3. \A t \in Sessions : t > session => t # s /\ t # session
    BY <1>0, <2>2
  <2>4. ASSUME NEW t \in Sessions, t > session
        PROVE  cmd'[t] = cmd[t] /\ evt'[t] = <<>>
    <3>1. CASE MonitorSends(s)
      BY <1>e, <2>2, <2>3, <2>4, <3>1, SendsByeFacts DEF MonitorSends
    <3>2. CASE MonitorCloses(s)
      BY <2>2, <3>2, ClosesType DEF MonitorCloses
    <3>3. CASE MonitorFires(s) \/ MonitorMisreads(s) \/ MonitorReleases(s) \/ MonitorSpins(s)
      BY <1>e, <2>4, <3>3 DEF MonitorFires, MonitorMisreads, MonitorReleases, MonitorSpins
    <3> QED BY <1>10, <3>1, <3>2, <3>3 DEF MonitorStep
  <2>5. initialized' => initialized
    BY <1>10 DEF MonitorStep, MonitorFires, MonitorMisreads, MonitorReleases, MonitorSends,
                 MonitorCloses, MonitorSpins
  <2> QED BY <1>0, <1>5, <2>1, <2>2, <2>3, <2>4
<1>11. ASSUME NEW s \in Sessions,
              SourceStep(s) \/ EngineReports(s) \/ SourceCrash(s)
       PROVE  Begun'
  <2>1. /\ UNCHANGED sinkVars /\ s <= session
        /\ \A t \in Sessions \ {s} :
             /\ src'[t] = src[t] /\ cmd'[t] = cmd[t] /\ evt'[t] = evt[t]
             /\ engine'[t] = engine[t] /\ chan'[t] = chan[t]
    BY <1>11, SourceFrame
  <2>2. \A t \in Sessions : t > session => t # s
    BY <1>0, <2>1
  <2> QED BY <2>1, <2>2 DEF Begun
<1>12. CASE UNCHANGED vars
  BY <1>12 DEF vars, Begun
<1> QED BY <1>1, <1>2, <1>3, <1>4, <1>6, <1>7, <1>8, <1>9, <1>10, <1>11, <1>12
        DEF Next, JsStep, MsgStep, MsgReady, MsgJoined, MsgLeft

\* The types of SourceCommands' variables, and with them: the sink never keeps
\* an end of an earlier session open, and no ring holds more than its blocks.
THEOREM TypeCorrect == Spec => []CommandsTypeOK
<1>1. Init => TypeInv /\ Begun
  BY TypeInit, BegunInit
<1>2. TypeInv /\ Begun /\ [Next]_vars => (TypeInv /\ Begun)'
  BY TypeStep, BegunStep
<1>3. TypeInv => CommandsTypeOK
  BY DEF TypeInv
<1> QED BY <1>1, <1>2, <1>3, PTL DEF Spec

-----------------------------------------------------------------------------
(* What the engine hears *)

Alive == {"starting", "up"}

\* The calls of the engine are those of the first commands that were asked, and
\* the messages in the ring the ones that follow, up to a DISCONNECT.
HeardInv(s) ==
  /\ Len(engine[s]) <= Len(asked[s])
  /\ \A i \in 1 .. Len(engine[s]) : Hears(engine[s][i], asked[s][i])

ByeBefore(s, i) == \E k \in 1 .. i : cmd[s][k] = Bye

Follows(s, i) ==
  /\ Len(engine[s]) + i <= Len(asked[s])
  /\ cmd[s][i] = MessageOf(asked[s][Len(engine[s]) + i])

WaitingInv(s) ==
  src[s] \in Alive => \A i \in 1 .. Len(cmd[s]) : ByeBefore(s, i) \/ Follows(s, i)

\* As long as the sink has its end open, no command is missing but the one that
\* is being sent.
Pending(s) == IF pc = "sending" /\ s = session THEN 1 ELSE 0

CompleteInv(s) ==
  open[s] /\ src[s] \in Alive /\ pc # "stuck" =>
    \/ ByeBefore(s, Len(cmd[s]))
    \/ Len(engine[s]) + Len(cmd[s]) + Pending(s) = Len(asked[s])

PathInv == \A s \in Sessions : HeardInv(s) /\ WaitingInv(s) /\ CompleteInv(s)

LEMMA LengthFacts ==
  ASSUME TypeInv, NEW s \in Sessions
  PROVE  /\ engine[s] \in Seq(Calls) /\ asked[s] \in Seq(Commands) /\ cmd[s] \in Seq(Message)
         /\ Len(engine[s]) \in Nat /\ Len(asked[s]) \in Nat /\ Len(cmd[s]) \in Nat
<1>1. engine[s] \in Seq(Calls) /\ asked[s] \in Seq(Commands) /\ cmd[s] \in Seq(Message)
  BY DEF TypeInv, CommandsTypeOK
<1> QED BY <1>1

\* What the source makes of a command is what the command says, or nothing for a
\* profile that is out of range: a struct is its bytes, and of the string in a
\* struct, this is what comes before its end.
LEMMA CommandHeard ==
  ASSUME NEW c \in Commands, NEW b \in Buffers
  PROVE  Hears(EngineCall(MessageOf(c), Received(b, Payload(c))), c)
<1> DEFINE r == Received(b, Payload(c))
           struct == SubSeq(r, 1, Len(Payload(c)))
<1>0. MessageOf(c).cmd = c.cmd /\ MessageOf(c).data = Payload(c)
  BY DEF MessageOf
<1>1. /\ r \in Buffers
      /\ \A i \in 1 .. BufLen : r[i] = IF i <= Len(Payload(c)) THEN Payload(c)[i] ELSE b[i]
  BY PayloadFacts, ReceivedFacts
<1>2. EngineCall(MessageOf(c), r) =
        IF c.cmd = "SET_VIDEO_PROFILE" /\ struct \in BadProfiles THEN NoCall
        ELSE [cmd |-> c.cmd,
              arg |-> IF c.cmd \in StringCommands THEN StringAt(r) ELSE struct]
  BY <1>0 DEF EngineCall
<1>3. ASSUME c.cmd \notin StringCommands
      PROVE  struct = c.arg
  <2>1. Payload(c) = c.arg
    BY <1>3, PayloadFacts DEF StringCommands
  <2>2. c.arg \in Seq(Values) /\ Len(c.arg) \in Nat /\ Len(c.arg) <= BufLen
    <3>1. c.arg \in Bytes /\ Len(c.arg) \in Nat /\ Len(c.arg) <= Field
      BY CommandFacts
    <3>2. Len(c.arg) <= BufLen
      BY <3>1, SizeFacts
    <3>3. c.arg \in Seq(Values)
      BY <3>1 DEF Bytes, Values
    <3> QED BY <3>1, <3>2, <3>3
  <2>3. \A i \in 1 .. Len(c.arg) : r[i] = c.arg[i]
    BY <1>1, <2>1, <2>2, SizeFacts
  <2>4. r \in Seq(Values) /\ Len(r) = BufLen
    BY <1>1, SizeFacts DEF Buffers
  <2> HIDE DEF r
  <2>5. SubSeq(r, 1, Len(c.arg)) = c.arg
    <3>1. /\ SubSeq(r, 1, Len(c.arg)) \in Seq(Values)
          /\ Len(SubSeq(r, 1, Len(c.arg))) = Len(c.arg)
          /\ \A i \in 1 .. Len(c.arg) : SubSeq(r, 1, Len(c.arg))[i] = r[i]
      BY <2>2, <2>4, SizeFacts
    <3> QED BY <2>2, <2>3, <3>1, SeqEqual
  <2> QED BY <2>1, <2>5
<1>4. CASE Refused(c)
  <2>1. c.cmd = "SET_VIDEO_PROFILE" /\ c.arg \in BadProfiles
    BY <1>4 DEF Refused
  <2>2. struct = c.arg
    BY <1>3, <2>1 DEF StringCommands
  <2> HIDE DEF struct, r
  <2>3. EngineCall(MessageOf(c), r) = NoCall
    BY <1>2, <2>1, <2>2
  <2> QED BY <1>4, <2>3 DEF Hears, r
<1>5. CASE ~Refused(c)
  <2>1. ~(c.cmd = "SET_VIDEO_PROFILE" /\ struct \in BadProfiles)
    BY <1>3, <1>5 DEF Refused, StringCommands
  <2>2. ASSUME Exact(c), c.cmd \in StringCommands
        PROVE  StringAt(r) = c.arg
    <3>1. /\ c.arg \in Strings /\ Len(c.arg) \in Nat /\ Len(c.arg) <= Field
          /\ c.cmd \in {"JOIN", "SET_PARAMETER"}
          /\ c.cmd = "JOIN" => Len(c.arg) < Field
      BY <2>2, CommandFacts DEF Exact, StringCommands
    <3> HIDE DEF r
    <3>3. /\ \A i \in 1 .. Len(c.arg) : r[i] = c.arg[i]
          /\ r[Len(c.arg) + 1] = NUL
      <4>1. CASE c.cmd = "JOIN"
        <5>1. /\ Len(Payload(c)) = Field + 2
              /\ \A i \in 1 .. Field :
                   Payload(c)[i] = IF i <= Len(c.arg) THEN c.arg[i] ELSE NUL
          BY <4>1, PayloadFacts
        <5> QED BY <3>1, <1>1, <4>1, <5>1, SizeFacts
      <4>2. CASE c.cmd = "SET_PARAMETER"
        <5>1. /\ Len(Payload(c)) = Field + 1
              /\ \A i \in 1 .. Field + 1 :
                   Payload(c)[i] = IF i <= Len(c.arg) THEN c.arg[i] ELSE NUL
          BY <4>2, PayloadFacts
        <5> QED BY <3>1, <1>1, <5>1, SizeFacts
      <4> QED BY <3>1, <4>1, <4>2
    <3> QED BY <3>1, <1>1, <3>3, StringAtFacts
  <2> HIDE DEF struct, r
  <2>3. EngineCall(MessageOf(c), r) =
          [cmd |-> c.cmd, arg |-> IF c.cmd \in StringCommands THEN StringAt(r) ELSE struct]
    BY <1>2, <2>1
  <2>4. Exact(c) => EngineCall(MessageOf(c), r).arg = c.arg
    BY <1>3, <2>2, <2>3
  <2>5. EngineCall(MessageOf(c), r).cmd = c.cmd
    BY <2>3
  <2> QED BY <1>5, <2>4, <2>5 DEF Hears, r
<1> QED BY <1>4, <1>5

LEMMA PathInit == Init => PathInv
BY SessionFacts DEF Init, PathInv, HeardInv, WaitingInv, CompleteInv, Pending

\* Steps that leave commands, messages and calls as they are, and begin no
\* sending.
LEMMA PathKept ==
  ASSUME PathInv, UNCHANGED <<session, engine, asked, cmd, src>>,
         \A s \in Sessions : open'[s] => open[s],
         pc' = "stuck" \/ (pc' = "sending" <=> pc = "sending"), pc = "stuck" => pc' = "stuck"
  PROVE  PathInv'
BY DEF PathInv, HeardInv, WaitingInv, CompleteInv, ByeBefore, Follows, Pending

\* DISCONNECT goes behind the commands.
LEMMA PathBye ==
  ASSUME TypeInv, PathInv, session \in Sessions, SendsBye, pc' # "sending" \/ pc' = pc,
         pc \in {"sending", "stuck"} => pc' = pc,
         UNCHANGED <<session, engine, asked, src, open>>
  PROVE  PathInv'
<1> SUFFICES ASSUME NEW s \in Sessions
             PROVE  (HeardInv(s) /\ WaitingInv(s) /\ CompleteInv(s))'
  BY DEF PathInv
<1>1. cmd'[s] = cmd[s] \/ cmd'[s] = Append(cmd[s], Bye)
  BY SendsByeFacts
<1>2. cmd[s] \in Seq(Message) /\ Len(cmd[s]) \in Nat
  BY LengthFacts
<1>3. HeardInv(s) /\ WaitingInv(s) /\ CompleteInv(s)
  BY DEF PathInv
<1>4. HeardInv(s)'
  BY <1>3 DEF HeardInv
<1>5. CASE cmd'[s] = cmd[s]
  <2>1. Pending(s)' = Pending(s)
    BY DEF Pending
  <2>2. CompleteInv(s)'
    BY <1>3, <1>5, <2>1 DEF CompleteInv, ByeBefore
  <2>3. WaitingInv(s)'
    BY <1>3, <1>5 DEF WaitingInv, ByeBefore, Follows
  <2> QED BY <1>4, <2>2, <2>3
<1>6. CASE cmd'[s] = Append(cmd[s], Bye)
  <2>1. /\ Len(cmd'[s]) = Len(cmd[s]) + 1 /\ cmd'[s][Len(cmd[s]) + 1] = Bye
        /\ \A i \in 1 .. Len(cmd[s]) : cmd'[s][i] = cmd[s][i]
    BY <1>2, <1>6, MessageFacts
  <2>2. ByeBefore(s, Len(cmd[s]))'
    BY <1>2, <2>1 DEF ByeBefore
  <2>3. ASSUME NEW i \in 1 .. Len(cmd'[s]), src[s] \in Alive
        PROVE  (ByeBefore(s, i) \/ Follows(s, i))'
    <3>1. CASE i \in 1 .. Len(cmd[s])
      <4>1. ByeBefore(s, i) \/ Follows(s, i)
        BY <1>3, <2>3, <3>1 DEF WaitingInv
      <4>2. ByeBefore(s, i) => ByeBefore(s, i)'
        BY <1>2, <2>1, <3>1 DEF ByeBefore
      <4>3. Follows(s, i) => Follows(s, i)'
        BY <2>1, <3>1 DEF Follows
      <4> QED BY <4>1, <4>2, <4>3
    <3>2. CASE i = Len(cmd[s]) + 1
      BY <2>1, <2>2, <3>2
    <3> QED BY <1>2, <2>1, <3>1, <3>2
  <2>4. WaitingInv(s)'
    BY <2>3 DEF WaitingInv
  <2> QED BY <1>4, <2>2, <2>4 DEF CompleteInv
<1> QED BY <1>1, <1>5, <1>6

\* A command that is not refused: it is to be sent if the ring is open.
LEMMA PathCommand ==
  ASSUME TypeInv, Begun, PathInv, NEW c \in Commands, Command(c)
  PROVE  PathInv'
<1> SUFFICES ASSUME NEW s \in Sessions
             PROVE  (HeardInv(s) /\ WaitingInv(s) /\ CompleteInv(s))'
  BY DEF PathInv
<1>1. HeardInv(s) /\ WaitingInv(s) /\ CompleteInv(s)
  BY DEF PathInv
<1>2. /\ Len(engine[s]) \in Nat /\ Len(asked[s]) \in Nat /\ Len(cmd[s]) \in Nat
      /\ asked[s] \in Seq(Commands) /\ DOMAIN asked = Sessions
      /\ c \in Commands /\ (open[s] => s = session)
  BY LengthFacts, CommandsAssumption DEF TypeInv, CommandsTypeOK
<1>3. /\ UNCHANGED <<session, open, src, engine, cmd>> /\ pc = "idle"
      /\ asked' = [asked EXCEPT ![session] = Append(@, c)]
      /\ pc' = IF open[session] THEN "sending" ELSE "idle"
  BY DEF Command, srcVars
<1>4. CASE s # session
  <2>1. asked'[s] = asked[s] /\ ~open[s]
    BY <1>2, <1>3, <1>4
  <2> QED BY <1>1, <1>3, <2>1 DEF HeardInv, WaitingInv, CompleteInv, ByeBefore, Follows
<1>5. CASE s = session
  <2>1. asked'[s] = Append(asked[s], c)
    BY <1>2, <1>3, <1>5
  <2>2. /\ Len(asked'[s]) = Len(asked[s]) + 1
        /\ \A i \in 1 .. Len(asked[s]) : asked'[s][i] = asked[s][i]
    BY <1>2, <2>1
  <2>3. HeardInv(s)'
    BY <1>1, <1>2, <1>3, <2>2 DEF HeardInv
  <2>4. WaitingInv(s)'
    <3>1. ASSUME NEW i \in 1 .. Len(cmd[s]), Follows(s, i)
          PROVE  Follows(s, i)'
      <4>1. Len(engine[s]) + i \in 1 .. Len(asked[s])
        BY <1>2, <3>1 DEF Follows
      <4>2. Len(engine[s]) + i <= Len(asked'[s])
        BY <1>2, <2>2, <4>1
      <4> QED BY <1>3, <2>2, <3>1, <4>1, <4>2 DEF Follows
    <3> QED BY <1>1, <1>3, <3>1 DEF WaitingInv, ByeBefore
  <2>5. CompleteInv(s)'
    <3> DEFINE a == Len(engine[s])
               b == Len(cmd[s])
               k == Len(asked[s])
    <3>1. Pending(s) = 0 /\ (open[s] => Pending(s)' = 1)
      BY <1>3, <1>5 DEF Pending
    <3>2. a \in Nat /\ b \in Nat /\ k \in Nat
      BY <1>2
    <3>3. open[s] /\ src[s] \in Alive => ByeBefore(s, b) \/ a + b + 0 = k
      BY <1>1, <1>3, <3>1 DEF CompleteInv
    <3>4. ByeBefore(s, b)' = ByeBefore(s, b)
      BY <1>3 DEF ByeBefore
    <3>5. Len(asked'[s]) = k + 1 /\ Len(engine'[s]) = a /\ Len(cmd'[s]) = b
      BY <1>3, <2>2
    <3>6. a + b + 0 = k => a + b + 1 = k + 1
      <4> HIDE DEF a, b, k
      <4> QED BY <3>2
    <3> HIDE DEF a, b, k
    <3> SUFFICES ASSUME open[s], src[s] \in Alive
                 PROVE  ByeBefore(s, b) \/ a + b + 1 = k + 1
      BY <1>3, <3>1, <3>4, <3>5 DEF CompleteInv, a, b, k, ByeBefore
    <3> QED BY <3>3, <3>6
  <2> QED BY <2>3, <2>4, <2>5
<1> QED BY <1>4, <1>5

\* The ring takes it: it is as far behind the engine's last call there as among
\* the commands.
LEMMA PathSent ==
  ASSUME TypeInv, Begun, PathInv, CommandSent
  PROVE  PathInv'
<1> DEFINE m == MessageOf(asked[session][Len(asked[session])])
<1>0. /\ session \in Sessions /\ m \in Message /\ pc = "sending" /\ pc' = "idle"
      /\ UNCHANGED <<session, open, src, engine, asked>>
      /\ cmd'[session] = Append(cmd[session], m)
      /\ \A s \in Sessions \ {session} : cmd'[s] = cmd[s]
  BY SentMessage, StoresFacts DEF CommandSent
<1> SUFFICES ASSUME NEW s \in Sessions
             PROVE  (HeardInv(s) /\ WaitingInv(s) /\ CompleteInv(s))'
  BY DEF PathInv
<1>1. HeardInv(s) /\ WaitingInv(s) /\ CompleteInv(s)
  BY DEF PathInv
<1>2. /\ Len(engine[s]) \in Nat /\ Len(asked[s]) \in Nat /\ Len(cmd[s]) \in Nat
      /\ cmd[s] \in Seq(Message) /\ (open[s] => s = session)
  BY LengthFacts DEF TypeInv, CommandsTypeOK
<1>3. HeardInv(s)'
  BY <1>0, <1>1 DEF HeardInv
<1>4. CASE s # session
  <2>1. cmd'[s] = cmd[s] /\ ~open[s]
    BY <1>0, <1>2, <1>4
  <2> QED BY <1>0, <1>1, <1>3, <2>1 DEF WaitingInv, CompleteInv, ByeBefore, Follows
<1>5. CASE s = session
  <2>0. m = MessageOf(asked[s][Len(asked[s])])
    BY <1>5
  <2> HIDE DEF m
  <2>1. /\ Len(cmd'[s]) = Len(cmd[s]) + 1 /\ cmd'[s][Len(cmd[s]) + 1] = m
        /\ \A i \in 1 .. Len(cmd[s]) : cmd'[s][i] = cmd[s][i]
    BY <1>0, <1>2, <1>5
  <2>2. ASSUME NEW i \in 1 .. Len(cmd[s])
        PROVE  ByeBefore(s, i) => ByeBefore(s, i)'
    <3>1. \A k \in 1 .. i : k \in 1 .. Len(cmd[s])
      BY <1>2
    <3>2. \A k \in 1 .. i : cmd'[s][k] = cmd[s][k]
      BY <2>1, <3>1
    <3> QED BY <3>2 DEF ByeBefore
  <2>3. ASSUME ByeBefore(s, Len(cmd[s]))
        PROVE  ByeBefore(s, Len(cmd[s]))'
    <3>1. PICK k \in 1 .. Len(cmd[s]) : cmd[s][k] = Bye
      BY <2>3 DEF ByeBefore
    <3>2. k \in 1 .. Len(cmd[s]) + 1 /\ cmd'[s][k] = Bye
      BY <1>2, <2>1, <3>1
    <3>3. k \in 1 .. Len(cmd'[s])
      BY <2>1, <3>2
    <3>4. \E j \in 1 .. Len(cmd'[s]) : cmd'[s][j] = Bye
      BY <3>2, <3>3
    <3> QED BY <3>4 DEF ByeBefore
  <2> DEFINE a == Len(engine[s])
             b == Len(cmd[s])
             k == Len(asked[s])
  <2>4. a \in Nat /\ b \in Nat /\ k \in Nat
    BY <1>2
  <2>5. ASSUME src[s] \in Alive, open[s], ~ByeBefore(s, b)
        PROVE  a + (b + 1) = k /\ a + (b + 1) + 0 = k
    <3>1. Pending(s) = 1
      BY <1>0, <1>5 DEF Pending
    <3>2. a + b + 1 = k
      BY <1>0, <1>1, <2>5, <3>1 DEF CompleteInv
    <3> HIDE DEF a, b, k
    <3> QED BY <2>4, <3>2
  <2>6. open[s]
    BY <1>0, <1>5, SentMessage, StoresFacts DEF CommandSent, m
  <2>7. ASSUME src[s] \in Alive, NEW i \in 1 .. Len(cmd'[s])
        PROVE  (ByeBefore(s, i) \/ Follows(s, i))'
    <3>1. CASE i \in 1 .. b
      <4>1. Follows(s, i) => Follows(s, i)'
        BY <1>0, <2>1, <3>1 DEF Follows
      <4>2. ByeBefore(s, i) \/ Follows(s, i)
        BY <1>1, <2>7, <3>1 DEF WaitingInv
      <4> QED BY <2>2, <3>1, <4>1, <4>2
    <3>2. CASE i = b + 1 /\ ByeBefore(s, b)
      <4>1. i = Len(cmd'[s])
        BY <2>1, <3>2
      <4>2. ByeBefore(s, Len(cmd[s]))'
        BY <2>3, <3>2
      <4> QED BY <4>1, <4>2 DEF ByeBefore
    <3>3. CASE i = b + 1 /\ ~ByeBefore(s, b)
      <4>1. a + i = k
        BY <2>5, <2>6, <2>7, <3>3
      <4>2. cmd'[s][i] = m /\ asked' = asked /\ engine' = engine
        BY <1>0, <2>1, <3>3
      <4>3. k <= k
        BY <2>4
      <4>4. Len(engine[s]) + i = Len(asked[s])
        BY <4>1
      <4> QED BY <2>0, <4>2, <4>3, <4>4 DEF Follows
    <3> QED BY <2>1, <2>4, <3>1, <3>2, <3>3
  <2>8. WaitingInv(s)'
    BY <1>0, <2>7 DEF WaitingInv
  <2>9. CompleteInv(s)'
    <3>1. Pending(s)' = 0
      BY <1>0 DEF Pending
    <3>2. CASE ByeBefore(s, b)
      <4>1. ByeBefore(s, Len(cmd[s]))'
        BY <2>3, <3>2
      <4> QED BY <4>1 DEF CompleteInv
    <3>3. CASE ~ByeBefore(s, b) /\ src[s] \in Alive
      <4>1. Len(engine'[s]) + Len(cmd'[s]) + 0 = Len(asked'[s])
        BY <1>0, <2>1, <2>5, <2>6, <3>3
      <4> QED BY <3>1, <4>1 DEF CompleteInv
    <3>4. CASE src[s] \notin Alive
      BY <1>0, <3>4 DEF CompleteInv
    <3> QED BY <3>2, <3>3, <3>4
  <2> QED BY <1>3, <2>8, <2>9
<1> QED BY <1>4, <1>5

\* The ring is closed, and what is left of it is its front.
LEMMA PathDropped ==
  ASSUME TypeInv, Begun, PathInv, CommandDropped
  PROVE  PathInv'
<1>0. /\ session \in Sessions /\ \A s \in Sessions : ~open'[s]
      /\ UNCHANGED <<session, src, engine, asked>>
  BY ActsIn DEF CommandDropped
<1>1. /\ \A s \in Sessions : Len(cmd'[s]) <= Len(cmd[s])
      /\ \A s \in Sessions : \A i \in 1 .. Len(cmd'[s]) : cmd'[s][i] = cmd[s][i]
      /\ cmd' \in [Sessions -> Seq(Message)]
  BY <1>0, DroppedFacts
<1> SUFFICES ASSUME NEW s \in Sessions
             PROVE  (HeardInv(s) /\ WaitingInv(s) /\ CompleteInv(s))'
  BY DEF PathInv
<1>2. HeardInv(s) /\ WaitingInv(s) /\ Len(cmd[s]) \in Nat /\ Len(cmd'[s]) \in Nat
  <2>1. cmd'[s] \in Seq(Message)
    BY <1>1
  <2> QED BY <2>1, LengthFacts DEF PathInv
<1>3. ASSUME NEW i \in 1 .. Len(cmd'[s])
      PROVE  /\ i \in 1 .. Len(cmd[s]) /\ (ByeBefore(s, i) => ByeBefore(s, i)')
             /\ Follows(s, i) => Follows(s, i)'
  <2>1. i \in 1 .. Len(cmd[s]) /\ \A k \in 1 .. i : k \in 1 .. Len(cmd'[s])
    BY <1>1, <1>2
  <2>2. \A k \in 1 .. i : cmd'[s][k] = cmd[s][k]
    BY <1>1, <2>1
  <2>3. cmd'[s][i] = cmd[s][i]
    BY <1>1
  <2> QED BY <1>0, <2>1, <2>2, <2>3 DEF ByeBefore, Follows
<1>4. WaitingInv(s)'
  BY <1>0, <1>2, <1>3 DEF WaitingInv
<1> QED BY <1>0, <1>2, <1>4 DEF HeardInv, CompleteInv

\* The engine gets the next command.
LEMMA PathObeys ==
  ASSUME TypeInv, Begun, PathInv, NEW s \in Sessions, SourceObeys(s)
  PROVE  PathInv'
<1>1. PICK m \in Waiting(s) :
        /\ src[s] = "up" /\ m.cmd # "DISCONNECT"
        /\ SourceRead(s, m) /\ Taken(s, m)
        /\ engine' = [engine EXCEPT ![s] = Append(@, EngineCall(m, Received(buf[s], m.data)))]
        /\ UNCHANGED src
  BY DEF SourceObeys
<1> DEFINE call == EngineCall(m, Received(buf[s], m.data))
           n == Len(engine[s]) + 1
<1>2. /\ m \in Message /\ m = cmd[s][1] /\ Len(cmd[s]) > 0
      /\ Len(Tail(cmd[s])) = Len(cmd[s]) - 1
      /\ \A i \in 1 .. Len(cmd[s]) - 1 : Tail(cmd[s])[i] = cmd[s][i + 1]
      /\ cmd' = [cmd EXCEPT ![s] = Tail(@)]
      /\ Received(buf[s], m.data) \in Buffers
  BY <1>1, HeadMessage
<1>3. /\ Len(engine[s]) \in Nat /\ Len(asked[s]) \in Nat /\ Len(cmd[s]) \in Nat
      /\ asked[s] \in Seq(Commands) /\ engine[s] \in Seq(Calls)
  BY LengthFacts
<1>4. /\ cmd \in [Sessions -> Seq(Message)] /\ engine \in [Sessions -> Seq(Calls)]
      /\ buf[s] \in Buffers /\ call \in Calls
  <2>1. call \in Calls
    BY <1>2 DEF Calls
  <2>2. /\ cmd \in [Sessions -> Seq(Message)] /\ engine \in [Sessions -> Seq(Calls)]
        /\ buf \in [Sessions -> Buffers]
    BY DEF TypeInv, CommandsTypeOK, Buffers, Values
  <2> HIDE DEF call
  <2> QED BY <2>1, <2>2
<1>5. HeardInv(s) /\ WaitingInv(s) /\ CompleteInv(s)
  BY DEF PathInv
<1>6. /\ UNCHANGED <<session, asked, open, src, pc>>
      /\ engine' = [engine EXCEPT ![s] = Append(@, call)]
  BY <1>1 DEF SourceRead, sinkVars
<1>7. m # Bye /\ ~ByeBefore(s, 1)
  BY <1>1, <1>2 DEF Bye, ByeBefore
<1>8. n <= Len(asked[s]) /\ m = MessageOf(asked[s][n])
  <2>1. 1 \in 1 .. Len(cmd[s])
    BY <1>2, <1>3
  <2>2. Follows(s, 1)
    BY <1>1, <1>5, <1>7, <2>1 DEF WaitingInv, Alive
  <2> QED BY <1>2, <2>2 DEF Follows
<1>9. Hears(call, asked[s][n])
  <2>1. asked[s][n] \in Commands
    BY <1>3, <1>8
  <2>2. m.data = Payload(asked[s][n])
    BY <1>8 DEF MessageOf
  <2> QED BY <1>4, <1>8, <2>1, <2>2, CommandHeard
<1> HIDE DEF call
<1>10. /\ Len(engine'[s]) = n /\ engine'[s][n] = call
       /\ \A i \in 1 .. Len(engine[s]) : engine'[s][i] = engine[s][i]
  BY <1>3, <1>4, <1>6
<1>11. cmd'[s] = Tail(cmd[s])
  BY <1>2, <1>4
<1>12. HeardInv(s)'
  BY <1>3, <1>5, <1>6, <1>8, <1>9, <1>10 DEF HeardInv
<1>13. \A i \in 1 .. Len(cmd[s]) - 1 : ByeBefore(s, i + 1) => ByeBefore(s, i)'
  <2> SUFFICES ASSUME NEW i \in 1 .. Len(cmd[s]) - 1, ByeBefore(s, i + 1)
               PROVE  ByeBefore(s, i)'
    OBVIOUS
  <2>1. PICK k \in 1 .. i + 1 : cmd[s][k] = Bye
    BY DEF ByeBefore
  <2>2. k # 1
    BY <1>2, <1>7, <2>1
  <2>3. k - 1 \in 1 .. i /\ k - 1 \in 1 .. Len(cmd[s]) - 1 /\ (k - 1) + 1 = k
    BY <1>3, <2>1, <2>2
  <2>4. cmd'[s][k - 1] = Bye
    BY <1>2, <1>11, <2>1, <2>3
  <2> QED BY <2>3, <2>4 DEF ByeBefore
<1>14. WaitingInv(s)'
  <2> SUFFICES ASSUME NEW i \in 1 .. Len(cmd[s]) - 1
               PROVE  (ByeBefore(s, i) \/ Follows(s, i))'
    BY <1>2, <1>11 DEF WaitingInv
  <2>1. i + 1 \in 1 .. Len(cmd[s]) /\ n + i = Len(engine[s]) + (i + 1)
    <3> DEFINE a == Len(engine[s])
               b == Len(cmd[s])
    <3>1. a \in Nat /\ b \in Nat /\ i \in 1 .. b - 1
      BY <1>3
    <3> HIDE DEF a, b
    <3>2. i + 1 \in 1 .. b /\ (a + 1) + i = a + (i + 1)
      BY <3>1
    <3> QED BY <3>2 DEF a, b
  <2>2. ByeBefore(s, i + 1) \/ Follows(s, i + 1)
    BY <1>1, <1>5, <2>1 DEF WaitingInv, Alive
  <2>3. cmd'[s][i] = cmd[s][i + 1]
    BY <1>2, <1>11
  <2>4. Follows(s, i + 1) => Follows(s, i)'
    BY <1>6, <1>10, <2>1, <2>3 DEF Follows
  <2> QED BY <1>13, <2>2, <2>4
<1>15. CompleteInv(s)'
  <2> DEFINE a == Len(engine[s])
             b == Len(cmd[s])
             k == Len(asked[s])
             p == Pending(s)
  <2>1. Len(cmd'[s]) = b - 1 /\ Len(engine'[s]) = a + 1 /\ Pending(s)' = p
    BY <1>2, <1>6, <1>10, <1>11 DEF Pending
  <2>2. a \in Nat /\ b \in Nat /\ k \in Nat /\ p \in Nat /\ b > 0
    BY <1>2, <1>3 DEF Pending
  <2>3. ASSUME open[s], pc # "stuck"
        PROVE  ByeBefore(s, b) \/ (a + 1) + (b - 1) + p = k
    <3>1. ByeBefore(s, b) \/ a + b + p = k
      BY <1>1, <1>5, <2>3 DEF CompleteInv, Alive
    <3> HIDE DEF a, b, k, p
    <3> QED BY <2>2, <3>1
  <2>4. ASSUME ByeBefore(s, b)
        PROVE  ByeBefore(s, Len(cmd[s]))'
    <3>1. b # 1
      BY <1>7, <2>4
    <3>2. b - 1 \in 1 .. Len(cmd[s]) - 1 /\ (b - 1) + 1 = b
      <4> b \in Nat /\ b > 0 /\ b # 1
        BY <2>2, <3>1
      <4>1. b - 1 \in 1 .. b - 1 /\ (b - 1) + 1 = b
        <5> HIDE DEF b
        <5> QED OBVIOUS
      <4> QED BY <4>1
    <3> DEFINE i == b - 1
    <3>3. i \in 1 .. Len(cmd[s]) - 1 /\ ByeBefore(s, i + 1) /\ Len(cmd'[s]) = i
      BY <2>1, <2>4, <3>2
    <3> HIDE DEF i
    <3>4. \E j \in 1 .. i : cmd'[s][j] = Bye
      BY <1>13, <3>3 DEF ByeBefore
    <3> QED BY <3>3, <3>4 DEF ByeBefore
  <2>5. ASSUME open[s], pc # "stuck"
        PROVE  \/ ByeBefore(s, Len(cmd[s]))'
               \/ Len(engine'[s]) + Len(cmd'[s]) + Pending(s)' = Len(asked[s])
    BY <2>1, <2>3, <2>4, <2>5
  <2> HIDE DEF a, b, k, p
  <2> QED BY <1>6, <2>5 DEF CompleteInv
<1>16. ASSUME NEW t \in Sessions, t # s
       PROVE  (HeardInv(t) /\ WaitingInv(t) /\ CompleteInv(t))'
  <2>1. engine'[t] = engine[t] /\ cmd'[t] = cmd[t]
    BY <1>2, <1>4, <1>6, <1>16
  <2>2. HeardInv(t)'
    BY <1>6, <2>1 DEF PathInv, HeardInv
  <2>3. WaitingInv(t)'
    BY <1>6, <2>1 DEF PathInv, WaitingInv, ByeBefore, Follows
  <2>4. CompleteInv(t)'
    BY <1>6, <2>1 DEF PathInv, CompleteInv, ByeBefore, Pending
  <2> QED BY <2>2, <2>3, <2>4
<1> QED BY <1>12, <1>14, <1>15, <1>16 DEF PathInv

LEMMA PathStep ==
  ASSUME TypeInv, Begun, PathInv, [Next]_vars
  PROVE  PathInv'
<1>0. /\ session \in Nat /\ DOMAIN src = Sessions /\ DOMAIN cmd = Sessions
      /\ DOMAIN open = Sessions
      /\ pc # "idle" => session \in Sessions
      /\ \A s \in Sessions : mon[s] # "off" => session \in Sessions
  BY ActsIn DEF TypeInv, CommandsTypeOK
<1>1. CASE Initialize
  <2> SUFFICES ASSUME NEW s \in Sessions
               PROVE  (HeardInv(s) /\ WaitingInv(s) /\ CompleteInv(s))'
    BY DEF PathInv
  <2>1. /\ UNCHANGED <<engine, asked, cmd>> /\ pc' = "waiting" /\ ~open[s]
        /\ open' = [open EXCEPT ![session + 1] = TRUE]
        /\ src' = [src EXCEPT ![session + 1] = "starting"]
    BY <1>1 DEF Initialize
  <2>2. CASE s = session + 1
    <3>1. s > session
      BY <1>0, <2>2
    <3>2. engine[s] = <<>> /\ asked[s] = <<>> /\ cmd[s] = <<>>
      BY <3>1 DEF Begun
    <3>3. Pending(s)' = 0
      BY <2>1 DEF Pending
    <3> QED BY <2>1, <3>2, <3>3 DEF HeardInv, WaitingInv, CompleteInv
  <2>3. CASE s # session + 1
    <3>1. src'[s] = src[s] /\ ~open'[s]
      BY <1>0, <2>1, <2>3
    <3> QED BY <2>1, <3>1 DEF PathInv, HeardInv, WaitingInv, CompleteInv, ByeBefore, Follows
  <2> QED BY <2>2, <2>3
<1>2. ASSUME NEW c \in Commands, Command(c)
      PROVE  PathInv'
  BY <1>2, PathCommand
<1>3. CASE ClearSends
  <2>1. /\ SendsBye /\ pc = "rest" /\ pc' = "closing" /\ session \in Sessions
        /\ UNCHANGED <<session, engine, asked, src, open>>
    BY <1>0, <1>3 DEF ClearSends
  <2> QED BY <2>1, PathBye
<1>4. ASSUME NEW s \in Sessions, MonitorSends(s)
      PROVE  PathInv'
  <2>1. /\ SendsBye /\ pc' = pc /\ session \in Sessions
        /\ UNCHANGED <<session, engine, asked, src, open>>
    BY <1>0, <1>4 DEF MonitorSends
  <2> QED BY <2>1, PathBye
<1>5. CASE CommandSent \/ CommandDropped
  BY <1>5, PathSent, PathDropped
<1>6. ASSUME NEW s \in Sessions, SourceObeys(s)
      PROVE  PathInv'
  BY <1>6, PathObeys
<1>7. ASSUME NEW s \in Sessions,
             SourceStart(s) \/ SourceExits(s) \/ SourceDrops(s) \/ SourceCrash(s)
      PROVE  PathInv'
  <2>1. UNCHANGED <<session, engine, asked, open, pc>>
    BY <1>7 DEF SourceStart, SourceExits, SourceDrops, SourceCrash, SourceRead, sinkVars
  <2>2. \A t \in Sessions \ {s} : src'[t] = src[t] /\ cmd'[t] = cmd[t]
    BY <1>7, SourceFrame DEF SourceStep
  <2>3. src'[s] \in Alive => src[s] \in Alive /\ cmd'[s] = cmd[s]
    <3>1. CASE SourceStart(s)
      BY <1>0, <3>1 DEF SourceStart, Ends, Alive
    <3>2. CASE SourceDrops(s)
      BY <1>0, <3>2 DEF SourceDrops, Alive
    <3>3. CASE Ends(s)
      BY <1>0, <3>3 DEF Ends, Alive
    <3> QED BY <1>7, <3>1, <3>2, <3>3 DEF SourceExits, SourceCrash
  <2>4. ASSUME NEW t \in Sessions
        PROVE  (HeardInv(t) /\ WaitingInv(t) /\ CompleteInv(t))'
    <3>1. HeardInv(t)'
      BY <2>1 DEF PathInv, HeardInv
    <3>2. Pending(t)' = Pending(t)
      BY <2>1 DEF Pending
    <3>3. CASE src'[t] \notin Alive
      BY <3>1, <3>3 DEF WaitingInv, CompleteInv
    <3>4. CASE src'[t] \in Alive
      <4>1. src[t] \in Alive /\ cmd'[t] = cmd[t]
        BY <2>2, <2>3, <3>4
      <4> QED BY <2>1, <3>1, <3>2, <4>1
              DEF PathInv, WaitingInv, CompleteInv, ByeBefore, Follows
    <3> QED BY <3>3, <3>4
  <2> QED BY <2>4 DEF PathInv
<1>8. CASE UNCHANGED <<session, engine, asked, cmd, src, open, pc>>
  BY <1>8, PathKept
<1>9. ASSUME NEW s \in Sessions,
             \/ MonitorFires(s) \/ MonitorMisreads(s) \/ MonitorReleases(s) \/ MonitorSpins(s)
             \/ EngineReports(s)
      PROVE  UNCHANGED <<session, engine, asked, cmd, src, open, pc>>
  BY <1>9 DEF MonitorFires, MonitorMisreads, MonitorReleases, MonitorSpins, EngineReports,
              sinkVars, srcVars
<1>10. ASSUME NEW m, MsgRead(m)
       PROVE  UNCHANGED <<session, engine, asked, cmd, src, open, pc>>
  BY <1>10 DEF MsgRead
<1>11. CASE ClearCloses
  <2>1. \A s \in Sessions : ~open'[s]
    BY <1>11 DEF ClearCloses, Closes
  <2>2. /\ UNCHANGED <<session, engine, asked, cmd, src>>
        /\ pc = "closing" /\ pc' # "sending"
    BY <1>11 DEF ClearCloses
  <2> QED BY <2>1, <2>2, PathKept
<1>12. ASSUME NEW s \in Sessions, MonitorCloses(s)
       PROVE  PathInv'
  <2>1. /\ \A t \in Sessions : ~open'[t]
        /\ UNCHANGED <<session, engine, asked, cmd, src, pc>>
    BY <1>12 DEF MonitorCloses, Closes
  <2> QED BY <2>1, PathKept
<1>13. CASE InitClears \/ Release \/ InitReady \/ InitDone \/ InitTimeout \/ JsSpins \/ JsEvent
  <2>1. UNCHANGED <<session, engine, asked, cmd, src, open>>
    BY <1>13 DEF InitClears, Release, InitReady, InitDone, InitTimeout, JsSpins, JsEvent,
                 srcVars
  <2>2. pc' = "stuck" \/ (pc # "sending" /\ pc' # "sending" /\ pc # "stuck")
    BY <1>13 DEF InitClears, Release, InitReady, InitDone, InitTimeout, JsSpins, JsEvent
  <2> QED BY <2>1, <2>2, PathKept
<1>14. CASE UNCHANGED vars
  BY <1>8, <1>14 DEF vars, sinkVars, srcVars
<1> QED BY <1>1, <1>2, <1>3, <1>4, <1>5, <1>6, <1>7, <1>8, <1>9, <1>10, <1>11, <1>12, <1>13,
           <1>14 DEF Next, JsStep, MsgStep, MsgReady, MsgJoined, MsgLeft, MonitorStep, SourceStep

PathInvs == TypeInv /\ Begun /\ PathInv

LEMMA PathInvariant == Spec => []PathInvs
<1>1. Init => PathInvs
  BY TypeInit, BegunInit, PathInit DEF PathInvs
<1>2. PathInvs /\ [Next]_vars => PathInvs'
  BY TypeStep, BegunStep, PathStep DEF PathInvs
<1> QED BY <1>1, <1>2, PTL DEF Spec

\* From the call of a command in JavaScript over the ring and readBuf to the RTC
\* engine of the other process: nothing is lost in between, reordered, doubled
\* or taken over from another session, but a video profile that is out of range
\* makes no call; and structs, and strings in structs, arrive.
THEOREM EngineHearsHolds == Spec => []EngineHears
<1>1. PathInvs => EngineHears
  <2> SUFFICES ASSUME PathInvs, NEW s \in Sessions
               PROVE  /\ Len(engine[s]) <= Len(asked[s])
                      /\ \A i \in DOMAIN engine[s] : Hears(engine[s][i], asked[s][i])
    BY DEF EngineHears
  <2>1. engine[s] \in Seq(Calls)
    BY DEF PathInvs, TypeInv
  <2>2. DOMAIN engine[s] = 1 .. Len(engine[s])
    BY <2>1
  <2> QED BY <2>2 DEF PathInvs, PathInv, HeardInv
<1> QED BY <1>1, PathInvariant, PTL

-----------------------------------------------------------------------------
(* Strings that are sent without their end *)

\* A join and no string or struct of more than n cells since then.
JoinedShort(s, n) ==
  \E j \in 1 .. Len(engine[s]) :
    /\ asked[s][j].cmd = "JOIN"
    /\ \A k \in j .. Len(engine[s]) : Len(asked[s][k].arg) <= n

\* Then what follows n cells of readBuf, to the end of the token's field, is 0.
ZeroInv ==
  \A s \in Sessions :
    /\ src[s] = "starting" => engine[s] = <<>>
    /\ src[s] = "up" =>
         \A n \in 1 .. Field :
           JoinedShort(s, n) => \A p \in n + 1 .. Field : buf[s][p] = NUL

StringInvs == PathInvs /\ ZeroInv

LEMMA ZeroInit == Init => ZeroInv
BY DEF Init, ZeroInv

\* What a message leaves behind n cells, if its string or struct has no more.
LEMMA ReceivedZeros ==
  ASSUME NEW c \in Commands, NEW b \in Buffers, NEW n \in 1 .. Field,
         Len(c.arg) <= n,
         c.cmd = "JOIN" \/ \A p \in n + 1 .. Field : b[p] = NUL
  PROVE  \A p \in n + 1 .. Field : Received(b, Payload(c))[p] = NUL
<1> SUFFICES ASSUME NEW p \in n + 1 .. Field
             PROVE  Received(b, Payload(c))[p] = NUL
  OBVIOUS
<1>1. /\ p \in 1 .. BufLen /\ p \in 1 .. Field /\ p \in 1 .. Field + 1
      /\ p > 1 /\ p > Len(c.arg) /\ Len(c.arg) \in Nat
  BY SizeFacts, CommandFacts
<1>2. Received(b, Payload(c))[p] = IF p <= Len(Payload(c)) THEN Payload(c)[p] ELSE b[p]
  BY <1>1, PayloadFacts, ReceivedFacts
<1>3. CASE c.cmd = "JOIN"
  <2>1. Payload(c)[p] = NUL /\ Len(Payload(c)) = Field + 2
    BY <1>1, <1>3, PayloadFacts
  <2> QED BY <1>1, <1>2, <2>1, SizeFacts
<1>4. CASE c.cmd = "SET_PARAMETER"
  <2>1. Payload(c)[p] = NUL /\ Len(Payload(c)) = Field + 1
    BY <1>1, <1>4, PayloadFacts
  <2> QED BY <1>1, <1>2, <2>1, SizeFacts
<1>5. CASE c.cmd \notin {"JOIN", "SET_PARAMETER"}
  <2>1. Payload(c) = c.arg
    BY <1>5, PayloadFacts
  <2>2. b[p] = NUL
    BY <1>5
  <2> QED BY <1>1, <1>2, <2>1, <2>2
<1> QED BY <1>3, <1>4, <1>5

\* A source that obeys has the next command of its session in readBuf.
LEMMA ObeysNext ==
  ASSUME PathInvs, NEW s \in Sessions, SourceObeys(s)
  PROVE  LET n == Len(engine[s]) + 1
             b == Received(buf[s], Payload(asked[s][n]))
         IN  /\ Len(engine[s]) \in Nat /\ n <= Len(asked[s]) /\ asked[s][n] \in Commands
             /\ b \in Buffers
             /\ buf' = [buf EXCEPT ![s] = b]
             /\ engine' = [engine EXCEPT ![s] = Append(@, EngineCall(MessageOf(asked[s][n]), b))]
             /\ chan' = [chan EXCEPT ![s] = Moved(asked[s][n].cmd, @)]
             /\ UNCHANGED <<sinkVars, src, evt>>
<1>1. PICK m \in Waiting(s) :
        /\ src[s] = "up" /\ m.cmd # "DISCONNECT"
        /\ SourceRead(s, m) /\ Taken(s, m)
        /\ engine' = [engine EXCEPT ![s] = Append(@, EngineCall(m, Received(buf[s], m.data)))]
        /\ chan' = [chan EXCEPT ![s] = Moved(m.cmd, @)]
        /\ UNCHANGED src
  BY DEF SourceObeys
<1> DEFINE n == Len(engine[s]) + 1
<1>2. m \in Message /\ m = cmd[s][1] /\ 1 \in 1 .. Len(cmd[s])
  BY <1>1, HeadMessage DEF PathInvs
<1>3. /\ engine[s] \in Seq(Calls) /\ asked[s] \in Seq(Commands) /\ buf[s] \in Buffers
  BY DEF PathInvs, TypeInv, CommandsTypeOK, Buffers, Values
<1>4. n <= Len(asked[s]) /\ m = MessageOf(asked[s][n])
  <2>1. ~ByeBefore(s, 1)
    BY <1>1, <1>2 DEF Bye, ByeBefore
  <2>2. Follows(s, 1)
    BY <1>1, <1>2, <2>1 DEF PathInvs, PathInv, WaitingInv, Alive
  <2> QED BY <1>2, <2>2 DEF Follows
<1>5. Len(engine[s]) \in Nat /\ asked[s][n] \in Commands
  BY <1>3, <1>4
<1>6. Received(buf[s], Payload(asked[s][n])) \in Buffers
  BY <1>3, <1>5, PayloadFacts, ReceivedFacts
<1>7. /\ UNCHANGED <<sinkVars, src, evt>>
      /\ buf' = [buf EXCEPT ![s] = Received(buf[s], m.data)]
  BY <1>1 DEF SourceRead, Taken
<1>8. m.cmd = asked[s][n].cmd /\ m.data = Payload(asked[s][n])
  BY <1>4 DEF MessageOf
<1> QED BY <1>1, <1>4, <1>5, <1>6, <1>7, <1>8

\* A command leaves those before it as they are, the heard ones among them.
LEMMA AskedKept ==
  ASSUME PathInvs, NEW c \in Commands, Command(c), NEW s \in Sessions
  PROVE  \A k \in 1 .. Len(engine[s]) : asked'[s][k] = asked[s][k]
<1>1. /\ asked \in [Sessions -> Seq(Commands)] /\ engine[s] \in Seq(Calls)
      /\ Len(engine[s]) <= Len(asked[s]) /\ c \in Commands
  BY CommandsAssumption DEF PathInvs, TypeInv, CommandsTypeOK, PathInv, HeardInv
<1>2. Len(engine[s]) \in Nat /\ Len(asked[s]) \in Nat
  BY <1>1
<1>3. asked' = [asked EXCEPT ![session] = Append(@, c)]
  BY DEF Command
<1>4. CASE s = session
  <2>1. asked'[s] = Append(asked[s], c)
    BY <1>1, <1>3, <1>4
  <2>2. \A k \in 1 .. Len(asked[s]) : asked'[s][k] = asked[s][k]
    BY <1>1, <2>1
  <2> QED BY <1>1, <1>2, <2>2
<1>5. CASE s # session
  BY <1>1, <1>3, <1>5
<1> QED BY <1>4, <1>5

LEMMA ZeroObeys ==
  ASSUME StringInvs, NEW s \in Sessions, SourceObeys(s)
  PROVE  ZeroInv'
<1> DEFINE n == Len(engine[s]) + 1
           c == asked[s][n]
<1>1. /\ Len(engine[s]) \in Nat /\ n <= Len(asked[s]) /\ c \in Commands
      /\ Received(buf[s], Payload(c)) \in Buffers
      /\ buf' = [buf EXCEPT ![s] = Received(buf[s], Payload(c))]
      /\ engine' = [engine EXCEPT
           ![s] = Append(@, EngineCall(MessageOf(c), Received(buf[s], Payload(c))))]
      /\ UNCHANGED <<sinkVars, src>>
  BY ObeysNext DEF StringInvs
<1>2. /\ engine \in [Sessions -> Seq(Calls)] /\ buf \in [Sessions -> Buffers]
      /\ src[s] = "up"
  BY DEF StringInvs, PathInvs, TypeInv, CommandsTypeOK, Buffers, Values, SourceObeys
<1>3. asked' = asked
  BY <1>1 DEF sinkVars
<1>4. Len(engine'[s]) = n /\ buf'[s] = Received(buf[s], Payload(c))
  <2>1. EngineCall(MessageOf(c), Received(buf[s], Payload(c))) \in Calls
    <3>1. MessageOf(c) \in Message
      BY <1>1, MessageFacts
    <3> QED BY <1>1, <3>1 DEF Calls
  <2> QED BY <1>1, <1>2, <2>1
<1>5. ASSUME NEW q \in 1 .. Field, JoinedShort(s, q)'
      PROVE  \A p \in q + 1 .. Field : buf'[s][p] = NUL
  <2>1. PICK j \in 1 .. n :
          /\ asked[s][j].cmd = "JOIN"
          /\ \A k \in j .. n : Len(asked[s][k].arg) <= q
    BY <1>3, <1>4, <1>5 DEF JoinedShort
  <2>2. Len(c.arg) <= q
    BY <1>1, <2>1
  <2>3. c.cmd = "JOIN" \/ \A p \in q + 1 .. Field : buf[s][p] = NUL
    <3>1. CASE j = n
      BY <2>1, <3>1
    <3>2. CASE j # n
      <4>1. j \in 1 .. Len(engine[s]) /\ \A k \in j .. Len(engine[s]) : k \in j .. n
        BY <1>1, <3>2
      <4>2. JoinedShort(s, q)
        BY <2>1, <4>1 DEF JoinedShort
      <4> QED BY <1>2, <4>2 DEF StringInvs, ZeroInv
    <3> QED BY <3>1, <3>2
  <2>4. buf[s] \in Buffers
    BY <1>2
  <2>5. c \in Commands
    BY <1>1
  <2> HIDE DEF c
  <2>6. \A p \in q + 1 .. Field : Received(buf[s], Payload(c))[p] = NUL
    BY <2>2, <2>3, <2>4, <2>5, ReceivedZeros
  <2> QED BY <1>4, <2>6
<1>6. ASSUME NEW t \in Sessions, t # s
      PROVE  /\ src'[t] = "starting" => engine'[t] = <<>>
             /\ src'[t] = "up" =>
                  \A q \in 1 .. Field :
                    JoinedShort(t, q)' => \A p \in q + 1 .. Field : buf'[t][p] = NUL
  <2>1. engine'[t] = engine[t] /\ buf'[t] = buf[t] /\ src'[t] = src[t]
    BY <1>1, <1>2, <1>6
  <2> QED BY <1>3, <2>1 DEF StringInvs, ZeroInv, JoinedShort
<1>7. src'[s] = "up"
  BY <1>1, <1>2
<1> QED BY <1>5, <1>6, <1>7 DEF ZeroInv

LEMMA ZeroStep ==
  ASSUME StringInvs, [Next]_vars
  PROVE  ZeroInv'
<1>0. /\ session \in Nat /\ asked \in [Sessions -> Seq(Commands)]
      /\ DOMAIN src = Sessions /\ DOMAIN buf = Sessions
      /\ \A s \in Sessions : Len(engine[s]) \in Nat /\ Len(engine[s]) <= Len(asked[s])
  BY SessionFacts DEF StringInvs, PathInvs, TypeInv, CommandsTypeOK, PathInv, HeardInv
<1>1. CASE Initialize
  <2>1. /\ UNCHANGED <<engine, asked, buf>>
        /\ src' = [src EXCEPT ![session + 1] = "starting"]
    BY <1>1 DEF Initialize
  <2>2. \A s \in Sessions : s = session + 1 => engine[s] = <<>>
    BY <1>0 DEF StringInvs, PathInvs, Begun
  <2> QED BY <1>0, <2>1, <2>2 DEF StringInvs, ZeroInv, JoinedShort
<1>2. ASSUME NEW c \in Commands, Command(c)
      PROVE  ZeroInv'
  <2>1. /\ UNCHANGED <<engine, buf, src>>
        /\ asked' = [asked EXCEPT ![session] = Append(@, c)]
    BY <1>2 DEF Command, srcVars
  <2>2. \A s \in Sessions : \A k \in 1 .. Len(engine[s]) : asked'[s][k] = asked[s][k]
    BY <1>2, AskedKept DEF StringInvs
  <2>3. ASSUME NEW s \in Sessions, NEW n \in 1 .. Field, JoinedShort(s, n)'
        PROVE  JoinedShort(s, n)
    <3>1. \A k \in 1 .. Len(engine[s]) : asked'[s][k] = asked[s][k]
      BY <2>2
    <3>2. PICK j \in 1 .. Len(engine[s]) :
            /\ asked'[s][j].cmd = "JOIN"
            /\ \A k \in j .. Len(engine[s]) : Len(asked'[s][k].arg) <= n
      BY <2>1, <2>3 DEF JoinedShort
    <3>3. \A k \in j .. Len(engine[s]) : k \in 1 .. Len(engine[s])
      BY <1>0
    <3> QED BY <3>1, <3>2, <3>3 DEF JoinedShort
  <2> QED BY <2>1, <2>3 DEF StringInvs, ZeroInv
<1>3. ASSUME NEW s \in Sessions, SourceObeys(s)
      PROVE  ZeroInv'
  BY <1>3, ZeroObeys
<1>4. ASSUME NEW s \in Sessions,
             SourceStart(s) \/ SourceExits(s) \/ SourceDrops(s) \/ SourceCrash(s)
      PROVE  ZeroInv'
  <2>1. UNCHANGED <<engine, asked>>
    BY <1>4 DEF SourceStart, SourceExits, SourceDrops, SourceCrash, SourceRead, sinkVars
  <2>2. /\ \A t \in Sessions \ {s} : src'[t] = src[t] /\ buf'[t] = buf[t]
        /\ src'[s] # "starting"
        /\ src'[s] = "up" => src[s] = "starting"
    <3>0. TypeInv /\ Begun
      BY DEF StringInvs, PathInvs
    <3>1. \A t \in Sessions \ {s} : src'[t] = src[t] /\ buf'[t] = buf[t]
      BY <1>4, <3>0, SourceFrame DEF SourceStep
    <3>2. CASE SourceStart(s)
      BY <1>0, <3>1, <3>2 DEF SourceStart, Ends
    <3>3. CASE SourceDrops(s)
      BY <1>0, <3>1, <3>3 DEF SourceDrops
    <3>4. CASE Ends(s)
      BY <1>0, <3>1, <3>4 DEF Ends
    <3> QED BY <1>4, <3>2, <3>3, <3>4 DEF SourceExits, SourceCrash
  <2>3. src'[s] = "up" => \A n \in 1 .. Field : ~JoinedShort(s, n)'
    BY <2>1, <2>2 DEF StringInvs, ZeroInv, JoinedShort
  <2> QED BY <2>1, <2>2, <2>3 DEF StringInvs, ZeroInv, JoinedShort
<1>5. CASE UNCHANGED <<engine, asked, buf, src>>
  BY <1>5 DEF StringInvs, ZeroInv, JoinedShort
<1>6. ASSUME NEW s \in Sessions, MonitorStep(s) \/ MonitorMisreads(s) \/ EngineReports(s)
      PROVE  UNCHANGED <<engine, asked, buf, src>>
  BY <1>6 DEF MonitorStep, MonitorFires, MonitorMisreads, MonitorReleases, MonitorSends,
              MonitorCloses, MonitorSpins, EngineReports, sinkVars, srcVars
<1>7. CASE MsgStep
  BY <1>5, <1>7 DEF MsgStep, MsgReady, MsgJoined, MsgLeft, MsgRead
<1>8. CASE InitClears \/ Release \/ JsStep \/ UNCHANGED vars
  BY <1>5, <1>8 DEF InitClears, Release, JsStep, InitReady, InitDone, InitTimeout, ClearSends,
              ClearCloses, CommandSent, CommandDropped, JsSpins, JsEvent, vars, sinkVars, srcVars
<1> QED BY <1>1, <1>2, <1>3, <1>4, <1>5, <1>6, <1>7, <1>8
        DEF Next, SourceStep, StringInvs, PathInvs

\* OverNothingLonger of the next command is about the calls that were made.
LEMMA OverNothingLongerFacts ==
  ASSUME PathInvs, NEW s \in Sessions, Len(engine[s]) < Len(asked[s]),
         OverNothingLonger(s, Len(engine[s]) + 1),
         asked[s][Len(engine[s]) + 1].arg \in Strings
  PROVE  LET n == Len(asked[s][Len(engine[s]) + 1].arg)
         IN  n \in 1 .. Field /\ n < Field /\ JoinedShort(s, n)
<1> DEFINE m == Len(engine[s])
           n == Len(asked[s][m + 1].arg)
<1>1. engine[s] \in Seq(Calls)
  BY DEF PathInvs, TypeInv
<1>2. m \in Nat
  BY <1>1
<1>3. PICK j \in 1 .. (m + 1) - 1 :
        /\ asked[s][j].cmd = "JOIN" /\ n < Field
        /\ \A k \in j .. (m + 1) - 1 : Len(asked[s][k].arg) <= n
  BY DEF OverNothingLonger
<1>4. (m + 1) - 1 = m
  BY <1>2
<1>5. n \in 1 .. Field
  BY StringFacts, SizeFacts
<1> QED BY <1>3, <1>4, <1>5 DEF JoinedShort

\* StringsEnd in the form the steps use.
EndInv ==
  \A s \in Sessions : \A i \in 1 .. Len(engine[s]) :
    asked[s][i].cmd \in {"RENEW_TOKEN", "SET_LOGFILE"} /\ OverNothingLonger(s, i)
      => engine[s][i].arg = asked[s][i].arg

LEMMA EndObeys ==
  ASSUME StringInvs, EndInv, NEW s \in Sessions, SourceObeys(s)
  PROVE  EndInv'
<1> DEFINE m == Len(engine[s])
           n == m + 1
           c == asked[s][n]
           r == Received(buf[s], Payload(c))
<1>1. /\ m \in Nat /\ n <= Len(asked[s]) /\ c \in Commands
      /\ r \in Buffers
      /\ engine' = [engine EXCEPT ![s] = Append(@, EngineCall(MessageOf(c), r))]
      /\ UNCHANGED <<sinkVars, src>>
  BY ObeysNext DEF StringInvs
<1>2. /\ engine \in [Sessions -> Seq(Calls)] /\ buf[s] \in Buffers
      /\ src[s] = "up"
  BY DEF StringInvs, PathInvs, TypeInv, CommandsTypeOK, Buffers, Values, SourceObeys
<1>3. asked' = asked
  BY <1>1 DEF sinkVars
<1>4. /\ Len(engine'[s]) = n /\ engine'[s][n] = EngineCall(MessageOf(c), r)
      /\ \A i \in 1 .. m : engine'[s][i] = engine[s][i]
  <2>1. EngineCall(MessageOf(c), r) \in Calls
    <3>1. MessageOf(c) \in Message
      BY <1>1, MessageFacts
    <3> QED BY <1>1, <3>1 DEF Calls
  <2> HIDE DEF r, c
  <2> QED BY <1>1, <1>2, <2>1
<1>5. ASSUME c.cmd \in {"RENEW_TOKEN", "SET_LOGFILE"}, OverNothingLonger(s, n)
      PROVE  EngineCall(MessageOf(c), r).arg = c.arg
  <2> DEFINE l == Len(c.arg)
  <2>1. c.arg \in Strings /\ Payload(c) = c.arg
    BY <1>1, <1>5, CommandFacts, PayloadFacts DEF StringCommands
  <2>2. l \in 1 .. Field /\ l < Field /\ JoinedShort(s, l)
    BY <1>1, <1>5, <2>1, OverNothingLongerFacts DEF StringInvs
  <2>3. \A p \in l + 1 .. Field : buf[s][p] = NUL
    BY <1>2, <2>2 DEF StringInvs, ZeroInv
  <2>4. c.arg \in Bytes
    BY <1>1, <2>1, PayloadFacts
  <2>5. \A i \in 1 .. BufLen : r[i] = IF i <= l THEN c.arg[i] ELSE buf[s][i]
    BY <1>2, <2>1, <2>4, ReceivedFacts
  <2>6. r[l + 1] = NUL /\ \A i \in 1 .. l : r[i] = c.arg[i]
    <3>0. l \in 1 .. Field /\ l < Field
      BY <2>2
    <3> HIDE DEF l
    <3>1. l + 1 \in 1 .. BufLen /\ l + 1 \in l + 1 .. Field /\ ~(l + 1 <= l)
      BY <3>0, SizeFacts
    <3>2. \A i \in 1 .. l : i \in 1 .. BufLen /\ i <= l
      BY <3>0, SizeFacts
    <3> HIDE DEF r
    <3> QED BY <2>3, <2>5, <3>1, <3>2
  <2>7. r \in Buffers
    BY <1>1
  <2> HIDE DEF r
  <2>8. StringAt(r) = c.arg
    BY <2>1, <2>6, <2>7, StringAtFacts
  <2>9. /\ MessageOf(c).cmd = c.cmd /\ c.cmd \in StringCommands
        /\ c.cmd # "SET_VIDEO_PROFILE"
    BY <1>5 DEF MessageOf, StringCommands
  <2> HIDE DEF c
  <2> QED BY <2>8, <2>9 DEF EngineCall
<1>6. \A t \in Sessions, i \in Nat : OverNothingLonger(t, i)' = OverNothingLonger(t, i)
  BY <1>3 DEF OverNothingLonger
<1>7. ASSUME NEW t \in Sessions, NEW i \in 1 .. Len(engine'[t]),
             asked'[t][i].cmd \in {"RENEW_TOKEN", "SET_LOGFILE"}, OverNothingLonger(t, i)'
      PROVE  engine'[t][i].arg = asked'[t][i].arg
  <2>1. CASE t # s
    <3>1. engine'[t] = engine[t]
      BY <1>1, <1>2, <2>1
    <3> QED BY <1>3, <1>6, <1>7, <3>1 DEF EndInv
  <2>2. CASE t = s /\ i = n
    <3> HIDE DEF c, r
    <3> QED BY <1>1, <1>3, <1>4, <1>5, <1>6, <1>7, <2>2 DEF c
  <2>3. CASE t = s /\ i # n
    <3>1. i \in 1 .. m /\ i \in Nat
      BY <1>1, <1>4, <2>3
    <3> QED BY <1>3, <1>4, <1>6, <1>7, <2>3, <3>1 DEF EndInv
  <2> QED BY <2>1, <2>2, <2>3
<1> QED BY <1>7 DEF EndInv

LEMMA EndStep ==
  ASSUME StringInvs, EndInv, [Next]_vars
  PROVE  EndInv'
<1>1. ASSUME NEW s \in Sessions, SourceObeys(s)
      PROVE  EndInv'
  BY <1>1, EndObeys
<1>2. ASSUME NEW c \in Commands, Command(c)
      PROVE  EndInv'
  <2>1. UNCHANGED engine
    BY <1>2 DEF Command, srcVars
  <2>2. \A s \in Sessions : \A k \in 1 .. Len(engine[s]) : asked'[s][k] = asked[s][k]
    BY <1>2, AskedKept DEF StringInvs
  <2>3. ASSUME NEW s \in Sessions, NEW i \in 1 .. Len(engine[s]), OverNothingLonger(s, i)'
        PROVE  OverNothingLonger(s, i)
    <3>1. PICK j \in 1 .. i - 1 :
            /\ asked'[s][j].cmd = "JOIN" /\ Len(asked'[s][i].arg) < Field
            /\ \A k \in j .. i - 1 : Len(asked'[s][k].arg) <= Len(asked'[s][i].arg)
      BY <2>3 DEF OverNothingLonger
    <3>2. Len(engine[s]) \in Nat
      BY DEF StringInvs, PathInvs, TypeInv
    <3>3. \A k \in j .. i - 1 : k \in 1 .. Len(engine[s])
      BY <3>2
    <3>4. j \in 1 .. Len(engine[s])
      BY <3>2
    <3> QED BY <2>2, <3>1, <3>3, <3>4 DEF OverNothingLonger
  <2> QED BY <2>1, <2>2, <2>3 DEF EndInv
<1>3. CASE UNCHANGED <<engine, asked>>
  BY <1>3 DEF EndInv, OverNothingLonger
<1>4. ASSUME NEW s \in Sessions,
             \/ SourceStart(s) \/ SourceExits(s) \/ SourceDrops(s) \/ SourceCrash(s)
             \/ MonitorStep(s) \/ MonitorMisreads(s) \/ EngineReports(s)
      PROVE  UNCHANGED <<engine, asked>>
  BY <1>4 DEF SourceStart, SourceExits, SourceDrops, SourceCrash, SourceRead, MonitorStep,
              MonitorFires, MonitorMisreads, MonitorReleases, MonitorSends, MonitorCloses,
              MonitorSpins, EngineReports, sinkVars, srcVars
<1>5. CASE InitClears \/ Initialize \/ Release \/ JsStep \/ MsgStep \/ UNCHANGED vars
  BY <1>3, <1>5 DEF InitClears, Initialize, Release, JsStep, InitReady, InitDone, InitTimeout,
                    ClearSends, ClearCloses, CommandSent, CommandDropped, JsSpins, JsEvent,
                    MsgStep, MsgReady, MsgJoined, MsgLeft, MsgRead, vars, sinkVars, srcVars
<1> QED BY <1>1, <1>2, <1>3, <1>4, <1>5 DEF Next, SourceStep

\* The token of renewToken and the name of setLogFile arrive although they are
\* sent without their end: after a join, where no string or struct before was
\* longer, readBuf ends them.
THEOREM StringsEndHolds == Spec => []StringsEnd
<1>1. Init => PathInvs /\ ZeroInv /\ EndInv
  <2>1. Init => EndInv
    BY DEF Init, EndInv
  <2> QED BY <2>1, TypeInit, BegunInit, PathInit, ZeroInit DEF PathInvs
<1>2. PathInvs /\ ZeroInv /\ EndInv /\ [Next]_vars => (PathInvs /\ ZeroInv /\ EndInv)'
  <2>1. PathInvs /\ [Next]_vars => PathInvs'
    BY TypeStep, BegunStep, PathStep DEF PathInvs
  <2> QED BY <2>1, ZeroStep, EndStep DEF StringInvs
<1>3. PathInvs /\ EndInv => StringsEnd
  <2>1. PathInvs => \A s \in Sessions : DOMAIN engine[s] = 1 .. Len(engine[s])
    BY DEF PathInvs, TypeInv
  <2> QED BY <2>1 DEF EndInv, StringsEnd
<1> QED BY <1>1, <1>2, <1>3, PTL DEF Spec

-----------------------------------------------------------------------------
(* The first session *)

Started == {"up", "stuck", "ended"}

\* In the first session m_event is what this session's source set, by a message
\* it sends when its engine is there.
ReadyInv ==
  /\ session = 0 => ~event
  /\ session = 1 /\ event => src[1] \in Started
  /\ \A i \in 1 .. Len(evt[1]) : evt[1][i] = "SOURCE_READY" => src[1] \in Started
  /\ session = 1 /\ (pc = "arming" \/ initialized) => event

\* Events of the source: what a step of its leaves and adds.
LEMMA EventsKept ==
  ASSUME TypeInv, Begun, NEW s \in Sessions,
         SourceStep(s) \/ EngineReports(s) \/ SourceCrash(s)
  PROVE  /\ UNCHANGED sinkVars
         /\ \A t \in Sessions \ {s} : evt'[t] = evt[t] /\ src'[t] = src[t] /\ chan'[t] = chan[t]
         /\ \A i \in 1 .. Len(evt'[s]) :
              \/ i \in 1 .. Len(evt[s]) /\ evt'[s][i] = evt[s][i]
              \/ evt'[s][i] = "SOURCE_READY" /\ src'[s] \in Started
              \/ evt'[s][i] = "JOIN_SUCCESS" /\ chan[s] = "joining"
              \/ evt'[s][i] = "LEAVE_CHANNEL"
         /\ src[s] \in Started => src'[s] \in Started
<1>0. /\ evt \in [Sessions -> Seq(Events)]
      /\ DOMAIN src = Sessions /\ DOMAIN chan = Sessions
      /\ src[s] \in {"none", "starting", "up", "failed", "stuck", "ended"}
  BY DEF TypeInv, CommandsTypeOK, Events
<1>a. ASSUME NEW m \in Events
      PROVE  /\ \A t \in Sessions \ {s} : Told(s, m)[t] = evt[t]
             /\ \A i \in 1 .. Len(Told(s, m)[s]) :
                  \/ i \in 1 .. Len(evt[s]) /\ Told(s, m)[s][i] = evt[s][i]
                  \/ Told(s, m)[s][i] = m
  <2>1. CASE ~open[s]
    BY <2>1 DEF Told
  <2>2. CASE open[s]
    <3>1. Told(s, m) = [evt EXCEPT ![s] = Append(@, m)]
      BY <2>2 DEF Told
    <3>2. Told(s, m)[s] = Append(evt[s], m) /\ evt[s] \in Seq(Events)
      BY <1>0, <3>1
    <3>3. \A t \in Sessions \ {s} : Told(s, m)[t] = evt[t]
      BY <1>0, <3>1
    <3>4. /\ Len(Told(s, m)[s]) = Len(evt[s]) + 1 /\ Len(evt[s]) \in Nat
          /\ \A i \in 1 .. Len(evt[s]) : Told(s, m)[s][i] = evt[s][i]
          /\ Told(s, m)[s][Len(evt[s]) + 1] = m
      BY <3>2
    <3>5. \A i \in 1 .. Len(Told(s, m)[s]) : i \in 1 .. Len(evt[s]) \/ i = Len(evt[s]) + 1
      BY <3>4
    <3> QED BY <3>3, <3>4, <3>5
  <2> QED BY <2>1, <2>2
<1>b. /\ UNCHANGED sinkVars
      /\ \A t \in Sessions \ {s} : evt'[t] = evt[t] /\ src'[t] = src[t] /\ chan'[t] = chan[t]
  BY SourceFrame
<1>1. CASE SourceStart(s)
  <2>1. \/ evt' = evt
        \/ /\ evt' = Told(s, "SOURCE_READY")
           /\ src' = [src EXCEPT ![s] = IF evtLock[s] = "kept" THEN "stuck" ELSE "up"]
    BY <1>1 DEF SourceStart
  <2>2. src[s] = "starting"
    BY <1>1 DEF SourceStart
  <2>3. CASE evt' = evt
    BY <1>0, <1>b, <2>2, <2>3 DEF Started
  <2>4. CASE /\ evt' = Told(s, "SOURCE_READY")
             /\ src' = [src EXCEPT ![s] = IF evtLock[s] = "kept" THEN "stuck" ELSE "up"]
    <3>1. src'[s] \in Started
      BY <1>0, <2>4 DEF Started
    <3>2. "SOURCE_READY" \in Events
      BY DEF Events
    <3> QED BY <1>a, <1>b, <2>4, <3>1, <3>2
  <2> QED BY <2>1, <2>3, <2>4
<1>2. CASE SourceObeys(s) \/ SourceDrops(s)
  <2>1. UNCHANGED <<src, evt>>
    BY <1>2 DEF SourceObeys, SourceDrops, SourceRead
  <2> QED BY <1>0, <1>b, <2>1
<1>3. CASE SourceExits(s) \/ SourceCrash(s)
  <2>1. Ends(s) /\ evt' = evt
    BY <1>3 DEF SourceExits, SourceCrash, SourceRead
  <2>2. src'[s] = "ended"
    BY <1>0, <2>1 DEF Ends
  <2> QED BY <1>0, <1>b, <2>1, <2>2 DEF Started
<1>4. CASE EngineReports(s)
  <2>1. /\ src' = src /\ chan[s] \in {"joining", "leaving"}
        /\ evt' = Told(s, IF chan[s] = "joining" THEN "JOIN_SUCCESS" ELSE "LEAVE_CHANNEL")
        /\ {"JOIN_SUCCESS", "LEAVE_CHANNEL"} \subseteq Events
    BY <1>4 DEF EngineReports, Events
  <2>2. CASE chan[s] = "joining"
    BY <1>a, <1>b, <2>1, <2>2
  <2>3. CASE chan[s] # "joining"
    BY <1>a, <1>b, <2>1, <2>3
  <2> QED BY <2>2, <2>3
<1> QED BY <1>1, <1>2, <1>3, <1>4 DEF SourceStep

\* msgThread takes an event of the current session.
LEMMA EventRead ==
  ASSUME TypeInv, NEW m, MsgRead(m)
  PROVE  /\ session \in Sessions /\ Len(evt[session]) > 0 /\ evt[session][1] = m
         /\ \A t \in Sessions : \A i \in 1 .. Len(evt'[t]) :
              \E k \in 1 .. Len(evt[t]) : evt'[t][i] = evt[t][k]
<1>1. /\ session \in Sessions /\ evt \in [Sessions -> Seq(Events)]
      /\ evt[session] # <<>> /\ m = Head(evt[session])
      /\ evt' = [evt EXCEPT ![session] = Tail(@)]
  BY SessionFacts DEF TypeInv, CommandsTypeOK, MsgRead, Events
<1>2. Len(evt[session]) > 0 /\ evt[session][1] = m /\ Len(evt[session]) \in Nat
  BY <1>1
<1>3. ASSUME NEW t \in Sessions, NEW i \in 1 .. Len(evt'[t])
      PROVE  \E k \in 1 .. Len(evt[t]) : evt'[t][i] = evt[t][k]
  <2>1. CASE t = session
    <3>1. evt'[t] = Tail(evt[t]) /\ evt[t] \in Seq(Events) /\ evt[t] # <<>>
      BY <1>1, <2>1
    <3>2. i + 1 \in 1 .. Len(evt[t]) /\ evt'[t][i] = evt[t][i + 1]
      BY <3>1
    <3> QED BY <3>2
  <2>2. CASE t # session
    BY <1>1, <1>3, <2>2
  <2> QED BY <2>1, <2>2
<1> QED BY <1>1, <1>2, <1>3

LEMMA ReadyStep ==
  ASSUME TypeInv, Begun, ReadyInv, [Next]_vars
  PROVE  ReadyInv'
<1> USE DEF sinkVars, srcVars, locks
<1>0. /\ session \in Nat /\ 1 \in Sessions /\ DOMAIN src = Sessions
      /\ (session # 0 => session \in Sessions)
      /\ pc # "idle" \/ initialized => session # 0
      /\ \A s \in Sessions : mon[s] # "off" => session # 0
      /\ \A s \in Sessions : open[s] => s = session
  BY SessionFacts DEF TypeInv, CommandsTypeOK, Begun
<1>1. CASE Initialize
  <2>1. /\ session' = session + 1 /\ pc' = "waiting"
        /\ src' = [src EXCEPT ![session + 1] = "starting"]
        /\ UNCHANGED <<event, initialized, evt>> /\ ~initialized
    BY <1>1 DEF Initialize
  <2>2. session' # 0 /\ (session' = 1 => session = 0)
    BY <1>0, <2>1
  <2>3. \A i \in 1 .. Len(evt[1]) : evt[1][i] = "SOURCE_READY" => src'[1] \in Started
    <3>1. CASE session = 0
      <4>1. evt[1] = <<>>
        BY <1>0, <3>1 DEF Begun
      <4> QED BY <4>1
    <3>2. CASE session # 0
      <4>1. src'[1] = src[1]
        BY <1>0, <2>1, <3>2
      <4> QED BY <4>1 DEF ReadyInv
    <3> QED BY <3>1, <3>2
  <2> QED BY <2>1, <2>2, <2>3 DEF ReadyInv
<1>2. CASE Release \/ InitClears
  BY <1>2 DEF Release, InitClears, ReadyInv
<1>3. ASSUME NEW c \in Commands, Command(c)
      PROVE  ReadyInv'
  BY <1>3 DEF Command, ReadyInv
<1>4. CASE JsStep
  <2>1. CASE InitReady
    BY <2>1 DEF InitReady, ReadyInv
  <2>2. CASE InitDone
    BY <2>2 DEF InitDone, ReadyInv
  <2>3. CASE InitTimeout
    BY <2>3 DEF InitTimeout, ReadyInv
  <2>4. CASE ClearSends \/ CommandSent \/ CommandDropped
    BY <2>4 DEF ClearSends, CommandSent, CommandDropped, ReadyInv
  <2>5. CASE ClearCloses
    <3>1. evt'[1] = <<>> /\ pc' # "arming" /\ UNCHANGED <<session, event, initialized, src>>
      BY <1>0, <2>5, ClosesType DEF ClearCloses
    <3> QED BY <3>1 DEF ReadyInv
  <2>6. CASE JsSpins
    BY <2>6 DEF JsSpins, ReadyInv
  <2>7. CASE JsEvent
    BY <2>7 DEF JsEvent, ReadyInv
  <2> QED BY <1>4, <2>1, <2>2, <2>3, <2>4, <2>5, <2>6, <2>7 DEF JsStep
<1>5. CASE MsgStep
  <2>1. PICK m : /\ MsgRead(m)
                 /\ (m = "SOURCE_READY" /\ event' = TRUE) \/ UNCHANGED event
    BY <1>5 DEF MsgStep, MsgReady, MsgJoined, MsgLeft
  <2>2. /\ session \in Sessions /\ Len(evt[session]) > 0 /\ evt[session][1] = m
        /\ \A i \in 1 .. Len(evt'[1]) :
             \E k \in 1 .. Len(evt[1]) : evt'[1][i] = evt[1][k]
    BY <1>0, <2>1, EventRead
  <2>3. UNCHANGED <<session, src, pc, initialized>> /\ session # 0
    BY <2>1 DEF MsgRead
  <2>4. session = 1 /\ event' => src[1] \in Started
    <3>1. evt[1] \in Seq({"SOURCE_READY", "JOIN_SUCCESS", "LEAVE_CHANNEL"})
      BY <1>0 DEF TypeInv, CommandsTypeOK
    <3>2. Len(evt[1]) \in Nat
      BY <3>1
    <3>3. session = 1 => 1 \in 1 .. Len(evt[1])
      BY <2>2, <3>2
    <3> QED BY <2>1, <2>2, <3>3 DEF ReadyInv
  <2>5. \A i \in 1 .. Len(evt'[1]) : evt'[1][i] = "SOURCE_READY" => src[1] \in Started
    BY <2>2 DEF ReadyInv
  <2>6. session = 1 /\ (pc = "arming" \/ initialized) => event'
    BY <2>1 DEF ReadyInv
  <2> QED BY <2>3, <2>4, <2>5, <2>6 DEF ReadyInv
<1>6. ASSUME NEW s \in Sessions, MonitorStep(s) \/ MonitorMisreads(s)
      PROVE  ReadyInv'
  <2>1. CASE MonitorFires(s) \/ MonitorMisreads(s)
    BY <2>1 DEF MonitorFires, MonitorMisreads, ReadyInv
  <2>2. CASE MonitorReleases(s)
    BY <2>2 DEF MonitorReleases, ReadyInv
  <2>3. CASE MonitorSends(s) \/ MonitorSpins(s)
    BY <2>3 DEF MonitorSends, MonitorSpins, ReadyInv
  <2>4. CASE MonitorCloses(s)
    <3>1. evt'[1] = <<>> /\ UNCHANGED <<session, event, initialized, pc, src>>
      BY <1>0, <2>4, ClosesType DEF MonitorCloses
    <3> QED BY <3>1 DEF ReadyInv
  <2> QED BY <1>6, <2>1, <2>2, <2>3, <2>4 DEF MonitorStep
<1>7. ASSUME NEW s \in Sessions,
             SourceStep(s) \/ EngineReports(s) \/ SourceCrash(s)
      PROVE  ReadyInv'
  <2>1. UNCHANGED <<session, event, pc, initialized>>
    BY <1>7, EventsKept
  <2>2. src[1] \in Started => src'[1] \in Started
    BY <1>0, <1>7, EventsKept
  <2>3. ASSUME NEW i \in 1 .. Len(evt'[1]), evt'[1][i] = "SOURCE_READY"
        PROVE  src'[1] \in Started
    <3>1. CASE s # 1
      <4>1. evt'[1] = evt[1] /\ src'[1] = src[1]
        BY <1>0, <1>7, <3>1, EventsKept
      <4> QED BY <2>3, <4>1 DEF ReadyInv
    <3>2. CASE s = 1
      <4>1. \/ i \in 1 .. Len(evt[1]) /\ evt[1][i] = "SOURCE_READY"
            \/ src'[1] \in Started
        BY <1>7, <2>3, <3>2, EventsKept
      <4> QED BY <2>2, <4>1 DEF ReadyInv
    <3> QED BY <3>1, <3>2
  <2> QED BY <2>1, <2>2, <2>3 DEF ReadyInv
<1>8. CASE UNCHANGED vars
  BY <1>8 DEF vars, ReadyInv
<1> QED BY <1>1, <1>2, <1>3, <1>4, <1>5, <1>6, <1>7, <1>8 DEF Next

\* The first initialize does wait for its source's engine.
THEOREM FirstIsReadyHolds == Spec => []FirstIsReady
<1>1. Init => TypeInv /\ Begun /\ ReadyInv
  <2>1. Init => ReadyInv
    BY SessionFacts DEF Init, ReadyInv
  <2> QED BY <2>1, TypeInit, BegunInit
<1>2. TypeInv /\ Begun /\ ReadyInv /\ [Next]_vars => (TypeInv /\ Begun /\ ReadyInv)'
  BY TypeStep, BegunStep, ReadyStep
<1>3. ReadyInv => FirstIsReady
  BY DEF ReadyInv, FirstIsReady, Started
<1> QED BY <1>1, <1>2, <1>3, PTL DEF Spec

\* A join was asked of the first session before its k-th command.
JoinBefore(k) == \E j \in 1 .. k - 1 : asked[1][j].cmd = "JOIN"

\* JOIN_SUCCESS comes from an engine that was asked to join, and m_peerJoined
\* from this message.
JoinInv ==
  TRUE \notin Garbage =>
    /\ session \in {0, 1} /\ peerJoined => JoinBefore(Len(asked[1]) + 1)
    /\ \A i \in 1 .. Len(evt[1]) :
         evt[1][i] = "JOIN_SUCCESS" => JoinBefore(Len(asked[1]) + 1)
    /\ chan[1] # "out" => JoinBefore(Len(asked[1]) + 1)
    /\ \A i \in 1 .. Len(asked[1]) :
         asked[1][i].cmd = "CAPTURE_SCREEN" => JoinBefore(i)

LEMMA JoinCommand ==
  ASSUME TypeInv, Begun, JoinInv, NEW c \in Commands, Command(c), TRUE \notin Garbage
  PROVE  JoinInv'
<1>1. /\ asked \in [Sessions -> Seq(Commands)] /\ 1 \in Sessions /\ c \in Commands
      /\ session \in Nat /\ Len(asked[1]) \in Nat
  BY SessionFacts, CommandsAssumption DEF TypeInv, CommandsTypeOK
<1>2. /\ asked' = [asked EXCEPT ![session] = Append(@, c)]
      /\ UNCHANGED <<session, peerJoined, evt, chan>>
      /\ c.cmd = "CAPTURE_SCREEN" => peerJoined
  BY DEF Command, Accepts, srcVars
<1>3. session # 0
  BY DEF Begun, Command, Accepts
<1>4. CASE session # 1
  <2>1. asked'[1] = asked[1]
    BY <1>1, <1>2, <1>4
  <2> QED BY <1>2, <2>1 DEF JoinInv, JoinBefore
<1>5. CASE session = 1
  <2> DEFINE n == Len(asked[1])
  <2>1. /\ Len(asked'[1]) = n + 1 /\ asked'[1][n + 1] = c
        /\ \A i \in 1 .. n : asked'[1][i] = asked[1][i]
    <3>1. asked'[1] = Append(asked[1], c) /\ asked[1] \in Seq(Commands)
      BY <1>1, <1>2, <1>5
    <3> QED BY <1>1, <3>1
  <2>2. n \in Nat
    BY <1>1
  <2> HIDE DEF n
  <2>3. ASSUME NEW k \in 1 .. n + 1, JoinBefore(k)
        PROVE  JoinBefore(k)'
    <3>1. PICK j \in 1 .. k - 1 : asked[1][j].cmd = "JOIN"
      BY <2>3 DEF JoinBefore
    <3>2. j \in 1 .. n
      BY <2>2
    <3> QED BY <2>1, <3>1, <3>2 DEF JoinBefore
  <2>4. ASSUME JoinBefore(n + 1)
        PROVE  JoinBefore(Len(asked[1]) + 1)'
    <3>1. PICK j \in 1 .. (n + 1) - 1 : asked[1][j].cmd = "JOIN"
      BY <2>4 DEF JoinBefore
    <3>2. j \in 1 .. n /\ j \in 1 .. (Len(asked'[1]) + 1) - 1
      BY <2>1, <2>2
    <3> QED BY <2>1, <3>1, <3>2 DEF JoinBefore
  <2>5. ASSUME NEW i \in 1 .. n + 1, asked'[1][i].cmd = "CAPTURE_SCREEN"
        PROVE  JoinBefore(i)'
    <3>1. CASE i = n + 1
      <4>1. JoinBefore(n + 1)
        BY <1>2, <1>5, <2>1, <2>5, <3>1 DEF JoinInv, n
      <4>2. i \in 1 .. n + 1 /\ JoinBefore(i)
        BY <3>1, <4>1
      <4> QED BY <2>3, <4>2
    <3>2. CASE i # n + 1
      <4>1. i \in 1 .. n
        BY <2>2, <3>2
      <4>2. JoinBefore(i)
        BY <2>1, <2>5, <4>1 DEF JoinInv, n
      <4> QED BY <2>3, <4>2
    <3> QED BY <3>1, <3>2
  <2> QED BY <1>2, <2>1, <2>4, <2>5 DEF JoinInv, n
<1> QED BY <1>4, <1>5

LEMMA JoinSource ==
  ASSUME PathInvs, JoinInv, TRUE \notin Garbage, NEW s \in Sessions,
         SourceStep(s) \/ EngineReports(s) \/ SourceCrash(s)
  PROVE  JoinInv'
<1> DEFINE Joined == JoinBefore(Len(asked[1]) + 1)
<1>0. 1 \in Sessions /\ DOMAIN chan = Sessions
  BY SessionFacts DEF PathInvs, TypeInv, CommandsTypeOK
<1>1. /\ UNCHANGED <<session, peerJoined, asked>>
      /\ s # 1 => evt'[1] = evt[1] /\ chan'[1] = chan[1]
      /\ s = 1 => \A i \in 1 .. Len(evt'[1]) :
                    \/ i \in 1 .. Len(evt[1]) /\ evt'[1][i] = evt[1][i]
                    \/ evt'[1][i] # "JOIN_SUCCESS"
                    \/ chan[1] = "joining"
  <2>1. TypeInv /\ Begun
    BY DEF PathInvs
  <2> QED BY <1>0, <2>1, EventsKept DEF sinkVars
<1>2. Joined' = Joined
  BY <1>1 DEF JoinBefore
<1>3. ASSUME NEW i \in 1 .. Len(evt'[1]), evt'[1][i] = "JOIN_SUCCESS"
      PROVE  Joined
  BY <1>1, <1>3 DEF JoinInv
<1>4. ASSUME chan'[1] # "out", s = 1
      PROVE  Joined
  <2>1. CASE SourceObeys(1)
    <3> DEFINE n == Len(engine[1]) + 1
    <3>1. /\ Len(engine[1]) \in Nat /\ n <= Len(asked[1])
          /\ chan' = [chan EXCEPT ![1] = Moved(asked[1][n].cmd, @)]
      BY <1>0, <2>1, ObeysNext
    <3>2. Len(asked[1]) \in Nat
      BY <1>0 DEF PathInvs, TypeInv, CommandsTypeOK
    <3>3. n \in 1 .. (Len(asked[1]) + 1) - 1
      BY <3>1, <3>2
    <3>4. asked[1][n].cmd = "JOIN" \/ chan[1] # "out"
      BY <1>0, <1>4, <3>1 DEF Moved
    <3>5. CASE asked[1][n].cmd = "JOIN"
      <4> HIDE DEF n
      <4> QED BY <3>3, <3>5 DEF JoinBefore
    <3> QED BY <3>4, <3>5 DEF JoinInv
  <2>2. CASE ~SourceObeys(1)
    <3>1. chan[1] # "out"
      <4>1. CASE SourceStart(1)
        BY <1>0, <1>4, <4>1 DEF SourceStart, Ends
      <4>2. CASE SourceExits(1) \/ SourceCrash(1)
        BY <1>0, <1>4, <4>2 DEF SourceExits, SourceCrash, Ends
      <4>3. CASE SourceDrops(1)
        BY <1>4, <4>3 DEF SourceDrops
      <4>4. CASE EngineReports(1)
        BY <1>0, <4>4 DEF EngineReports
      <4> QED BY <1>4, <2>2, <4>1, <4>2, <4>3, <4>4 DEF SourceStep
    <3> QED BY <3>1 DEF JoinInv
  <2> QED BY <2>1, <2>2
<1>5. ASSUME chan'[1] # "out"
      PROVE  Joined
  <2>1. CASE s # 1
    BY <1>1, <1>5, <2>1 DEF JoinInv
  <2> QED BY <1>4, <1>5, <2>1
<1>6. \A i \in 1 .. Len(asked[1]) :
        asked'[1][i].cmd = "CAPTURE_SCREEN" => JoinBefore(i)'
  BY <1>1 DEF JoinInv, JoinBefore
<1>7. (session' \in {0, 1} /\ peerJoined') => Joined
  BY <1>1 DEF JoinInv
<1> HIDE DEF Joined
<1>8. (session' \in {0, 1} /\ peerJoined') => Joined'
  BY <1>2, <1>7
<1>9. \A i \in 1 .. Len(evt'[1]) : evt'[1][i] = "JOIN_SUCCESS" => Joined'
  BY <1>2, <1>3
<1>10. chan'[1] # "out" => Joined'
  BY <1>2, <1>5
<1> QED BY <1>1, <1>6, <1>8, <1>9, <1>10 DEF JoinInv, Joined

LEMMA JoinStep ==
  ASSUME PathInvs, JoinInv, TRUE \notin Garbage, [Next]_vars
  PROVE  JoinInv'
<1> DEFINE Joined == JoinBefore(Len(asked[1]) + 1)
<1>0. /\ session \in Nat /\ 1 \in Sessions /\ TypeInv /\ Begun
      /\ pc # "idle" => session \in Sessions
      /\ \A s \in Sessions : mon[s] # "off" => session \in Sessions
  BY SessionFacts, ActsIn DEF PathInvs
<1>1. CASE Initialize
  <2>1. session' = session + 1 /\ UNCHANGED <<asked, peerJoined, chan, evt>>
    BY <1>1 DEF Initialize
  <2>2. session' \in {0, 1} => session \in {0, 1}
    BY <1>0, <2>1
  <2> QED BY <2>1, <2>2 DEF JoinInv, JoinBefore
<1>2. ASSUME NEW c \in Commands, Command(c)
      PROVE  JoinInv'
  BY <1>0, <1>2, JoinCommand
<1>3. CASE ClearCloses \/ \E s \in Sessions : MonitorCloses(s)
  <2>1. session \in Sessions /\ Closes
    BY <1>0, <1>3 DEF ClearCloses, MonitorCloses
  <2>2. evt'[1] = <<>>
    BY <1>0, <2>1, ClosesType
  <2>3. UNCHANGED <<session, asked, peerJoined, chan>>
    BY <1>3 DEF ClearCloses, MonitorCloses
  <2> QED BY <2>2, <2>3 DEF JoinInv, JoinBefore
<1>4. CASE MsgStep
  <2>1. PICK m : /\ MsgRead(m)
                 /\ peerJoined' => peerJoined \/ m = "JOIN_SUCCESS"
    BY <1>4 DEF MsgStep, MsgReady, MsgJoined, MsgLeft
  <2>2. /\ session \in Sessions /\ Len(evt[session]) > 0 /\ evt[session][1] = m
        /\ \A i \in 1 .. Len(evt'[1]) :
             \E k \in 1 .. Len(evt[1]) : evt'[1][i] = evt[1][k]
    BY <1>0, <2>1, EventRead
  <2>3. UNCHANGED <<session, asked, chan>> /\ session # 0
    BY <2>1 DEF MsgRead
  <2>4. session \in {0, 1} /\ peerJoined' => Joined
    <3>1. evt[1] \in Seq({"SOURCE_READY", "JOIN_SUCCESS", "LEAVE_CHANNEL"})
      BY <1>0 DEF TypeInv, CommandsTypeOK
    <3>2. Len(evt[1]) \in Nat
      BY <3>1
    <3>3. session = 1 => 1 \in 1 .. Len(evt[1])
      BY <2>2, <3>2
    <3> QED BY <2>1, <2>2, <2>3, <3>3 DEF JoinInv
  <2>5. \A i \in 1 .. Len(evt'[1]) : evt'[1][i] = "JOIN_SUCCESS" => Joined
    BY <2>2 DEF JoinInv
  <2> QED BY <2>3, <2>4, <2>5 DEF JoinInv, JoinBefore
<1>5. ASSUME NEW s \in Sessions,
             SourceStep(s) \/ EngineReports(s) \/ SourceCrash(s)
      PROVE  JoinInv'
  BY <1>5, JoinSource
<1>6. CASE UNCHANGED <<session, peerJoined, evt, chan, asked>>
  BY <1>6 DEF JoinInv, JoinBefore
<1>7. ASSUME NEW s \in Sessions,
             \/ MonitorFires(s) \/ MonitorMisreads(s) \/ MonitorReleases(s)
             \/ MonitorSends(s) \/ MonitorSpins(s)
      PROVE  UNCHANGED <<session, peerJoined, evt, chan, asked>>
  BY <1>7 DEF MonitorFires, MonitorMisreads, MonitorReleases, MonitorSends, MonitorSpins,
              srcVars
<1>8. CASE \/ Release \/ InitClears \/ InitReady \/ InitDone \/ InitTimeout \/ ClearSends
           \/ CommandSent \/ CommandDropped \/ JsSpins \/ JsEvent \/ UNCHANGED vars
  BY <1>6, <1>8 DEF Release, InitClears, InitReady, InitDone, InitTimeout, ClearSends, CommandSent,
                    CommandDropped, JsSpins, JsEvent, vars, sinkVars, srcVars
<1> QED BY <1>1, <1>2, <1>3, <1>4, <1>5, <1>6, <1>7, <1>8
        DEF Next, JsStep, MonitorStep

\* The guard of captureScreen, m_peerJoined, holds the capture back until the
\* source was asked to join: through the answer of its engine and back.
THEOREM CaptureFollowsJoinHolds == Spec => []CaptureFollowsJoin
<1>1. Init => PathInvs /\ JoinInv
  <2>1. Init => JoinInv
    <3> SUFFICES ASSUME Init, TRUE \notin Garbage PROVE JoinInv
      BY DEF JoinInv
    <3>1. peerJoined = FALSE
      BY CommandsAssumption DEF Init
    <3> QED BY <3>1, SessionFacts DEF Init, JoinInv
  <2> QED BY <2>1, TypeInit, BegunInit, PathInit DEF PathInvs
<1>2. PathInvs /\ JoinInv /\ [Next]_vars => (PathInvs /\ JoinInv)'
  <2>1. PathInvs /\ [Next]_vars => PathInvs'
    BY TypeStep, BegunStep, PathStep DEF PathInvs
  <2>2. TRUE \in Garbage => JoinInv'
    BY DEF JoinInv
  <2> QED BY <2>1, <2>2, JoinStep
<1>3. PathInvs /\ JoinInv => CaptureFollowsJoin
  <2> SUFFICES ASSUME PathInvs, JoinInv, TRUE \notin Garbage,
                      NEW i \in DOMAIN engine[1], engine[1][i].cmd = "CAPTURE_SCREEN"
               PROVE  \E j \in 1 .. i - 1 : engine[1][j].cmd = "JOIN"
    BY DEF CaptureFollowsJoin
  <2>1. engine[1] \in Seq(Calls) /\ 1 \in Sessions /\ Len(asked[1]) \in Nat
    BY SessionFacts DEF PathInvs, TypeInv, CommandsTypeOK
  <2>2. i \in 1 .. Len(engine[1]) /\ Len(engine[1]) \in Nat
    BY <2>1
  <2>3. /\ Len(engine[1]) <= Len(asked[1])
        /\ \A k \in 1 .. Len(engine[1]) : Hears(engine[1][k], asked[1][k])
    BY <2>1 DEF PathInvs, PathInv, HeardInv
  <2>4. i \in 1 .. Len(asked[1]) /\ asked[1][i].cmd = "CAPTURE_SCREEN"
    BY <2>1, <2>2, <2>3 DEF Hears, NoCall
  <2>5. PICK j \in 1 .. i - 1 : asked[1][j].cmd = "JOIN"
    BY <2>4 DEF JoinInv, JoinBefore
  <2>6. j \in 1 .. Len(engine[1])
    BY <2>2
  <2>7. engine[1][j].cmd = "JOIN"
    BY <2>3, <2>5, <2>6 DEF Hears, Refused
  <2> QED BY <2>7
<1> QED BY <1>1, <1>2, <1>3, PTL DEF Spec

-----------------------------------------------------------------------------
(* Who ends a session *)

\* A monitor that was told acts for a source that ended, and what is left of an
\* earlier one was left when the session began.
MonInv ==
  /\ \A s \in Sessions : mon[s] = "told" => src[s] = "ended"
  /\ \A s \in Sessions : s < session /\ mon[s] \notin {"off", "done"} => s \in late[session]

LEMMA MonStep ==
  ASSUME TypeInv, Begun, MonInv, [Next]_vars
  PROVE  MonInv'
<1> USE DEF sinkVars, srcVars
<1>0. /\ session \in Nat /\ (session # 0 => session \in Sessions)
      /\ DOMAIN src = Sessions /\ DOMAIN mon = Sessions /\ DOMAIN late = Sessions
      /\ Sessions \subseteq Nat
  BY SessionFacts DEF TypeInv, CommandsTypeOK
<1>1. CASE Initialize
  <2>1. /\ session' = session + 1 /\ mon' = mon
        /\ src' = [src EXCEPT ![session + 1] = "starting"]
        /\ late' = [late EXCEPT
             ![session + 1] = {s \in 1 .. session : mon[s] \notin {"off", "done"}}]
        /\ session + 1 \in Sessions
    BY <1>1, <1>0, SessionFacts DEF Initialize
  <2>2. ASSUME NEW s \in Sessions, mon[s] = "told"
        PROVE  src'[s] = "ended"
    <3>1. s # session + 1
      BY <1>0, <2>2 DEF Begun
    <3> QED BY <1>0, <2>1, <2>2, <3>1 DEF MonInv
  <2>3. ASSUME NEW s \in Sessions, s < session', mon[s] \notin {"off", "done"}
        PROVE  s \in late'[session']
    <3>1. s \in 1 .. session
      BY <1>0, <2>1, <2>3, SessionFacts
    <3>2. late'[session'] = {t \in 1 .. session : mon[t] \notin {"off", "done"}}
      BY <1>0, <2>1
    <3> QED BY <2>3, <3>1, <3>2
  <2> QED BY <2>1, <2>2, <2>3 DEF MonInv
<1>2. CASE InitReady
  <2>1. /\ mon' = [mon EXCEPT ![session] = "armed"] /\ UNCHANGED <<session, late, src>>
    BY <1>2 DEF InitReady
  <2>2. ASSUME NEW s \in Sessions
        PROVE  /\ mon'[s] = "told" => src[s] = "ended"
               /\ s < session /\ mon'[s] \notin {"off", "done"} => s \in late[session]
    <3>1. CASE s = session
      <4>1. mon'[s] = "armed" /\ ~(s < session)
        BY <1>0, <2>1, <3>1
      <4> QED BY <4>1
    <3>2. CASE s # session
      BY <1>0, <2>1, <3>2 DEF MonInv
    <3> QED BY <3>1, <3>2
  <2> QED BY <2>1, <2>2 DEF MonInv
<1>3. ASSUME NEW s \in Sessions, MonitorStep(s) \/ MonitorMisreads(s)
      PROVE  MonInv'
  <2>1. UNCHANGED <<session, late, src>>
    BY <1>3 DEF MonitorStep, MonitorFires, MonitorMisreads, MonitorReleases, MonitorSends,
                MonitorCloses, MonitorSpins
  <2>2. /\ mon[s] # "off" /\ mon[s] # "done"
        /\ mon'[s] = "told" => src[s] = "ended"
        /\ \A t \in Sessions \ {s} : mon'[t] = mon[t]
    BY <1>0, <1>3 DEF MonitorStep, MonitorFires, MonitorMisreads, MonitorReleases, MonitorSends,
                      MonitorCloses, MonitorSpins
  <2>3. ASSUME NEW t \in Sessions
        PROVE  /\ mon'[t] = "told" => src[t] = "ended"
               /\ t < session /\ mon'[t] \notin {"off", "done"} => t \in late[session]
    <3>1. CASE t = s
      BY <2>2, <3>1 DEF MonInv
    <3>2. CASE t # s
      BY <2>2, <3>2 DEF MonInv
    <3> QED BY <3>1, <3>2
  <2> QED BY <2>1, <2>3 DEF MonInv
<1>4. ASSUME NEW s \in Sessions,
             SourceStep(s) \/ EngineReports(s) \/ SourceCrash(s)
      PROVE  MonInv'
  <2>1. UNCHANGED <<session, late, mon>>
    BY <1>4, SourceFrame
  <2>2. \A t \in Sessions : src[t] = "ended" => src'[t] = "ended"
    BY <1>4, SourceFrame
  <2> QED BY <2>1, <2>2 DEF MonInv
<1>5. ASSUME NEW c \in Commands, Command(c)
      PROVE  MonInv'
  BY <1>5 DEF Command, MonInv
<1>6. CASE \/ Release \/ InitClears \/ InitDone \/ InitTimeout \/ ClearSends \/ ClearCloses
           \/ CommandSent \/ CommandDropped \/ JsSpins \/ JsEvent
  BY <1>6 DEF Release, InitClears, InitDone, InitTimeout, ClearSends, ClearCloses, CommandSent,
              CommandDropped, JsSpins, JsEvent, MonInv
<1>7. ASSUME NEW m, MsgRead(m)
      PROVE  MonInv'
  BY <1>7 DEF MsgRead, MonInv
<1>8. CASE UNCHANGED vars
  BY <1>8 DEF vars, MonInv
<1> QED BY <1>1, <1>2, <1>3, <1>4, <1>5, <1>6, <1>7, <1>8
        DEF Next, JsStep, MsgStep, MsgReady, MsgJoined, MsgLeft

\* The monitors, which run beside JavaScript and outlive their session, end a
\* session that is not theirs only if they were late when it began, and their own
\* only if the source ended or what they had of it is a read that failed.
THEOREM StaysUpHolds == Spec => StaysUp
<1> DEFINE MonInvs == TypeInv /\ Begun /\ MonInv
           Excused == \/ pc' = "rest" \/ src[session] = "ended"
                      \/ mon[session] = "misled" \/ late[session] # {}
           Kept == initialized /\ ~initialized' => Excused
<1>1. Init => MonInvs
  <2>1. Init => MonInv
    BY SessionFacts DEF Init, MonInv
  <2> QED BY <2>1, TypeInit, BegunInit
<1>2. MonInvs /\ [Next]_vars => MonInvs'
  BY TypeStep, BegunStep, MonStep
<1>3. MonInvs /\ [Next]_vars => [Kept]_vars
  <2> SUFFICES ASSUME MonInvs, [Next]_vars, initialized, ~initialized'
               PROVE  Excused
    OBVIOUS
  <2>1. /\ session \in Nat /\ \A s \in Sessions : s \in Nat
        /\ \A s \in Sessions : s > session => mon[s] = "off"
    BY SessionFacts DEF TypeInv, CommandsTypeOK, Begun
  <2>2. CASE Release
    BY <2>2 DEF Release
  <2>3. ASSUME NEW s \in Sessions, MonitorReleases(s)
        PROVE  Excused
    <3>1. mon[s] \in {"told", "misled"}
      BY <2>3 DEF MonitorReleases
    <3>2. CASE s = session
      BY <3>1, <3>2 DEF MonInv
    <3>3. CASE s # session
      <4>1. s < session
        BY <2>1, <3>1, <3>3
      <4> QED BY <3>1, <4>1 DEF MonInv
    <3> QED BY <3>2, <3>3
  <2>4. CASE InitClears \/ Initialize \/ JsStep \/ UNCHANGED vars
    BY <2>4 DEF InitClears, Initialize, JsStep, InitReady, InitDone, InitTimeout, ClearSends,
                ClearCloses, CommandSent, CommandDropped, JsSpins, JsEvent, vars, sinkVars
  <2>5. ASSUME NEW m, MsgRead(m)
        PROVE  FALSE
    BY <2>5 DEF MsgRead
  <2>6. ASSUME NEW c \in Commands, Command(c)
        PROVE  FALSE
    BY <2>6 DEF Command
  <2>7. ASSUME NEW s \in Sessions,
               SourceStep(s) \/ EngineReports(s) \/ SourceCrash(s)
        PROVE  FALSE
    BY <2>7, SourceFrame DEF sinkVars
  <2>8. ASSUME NEW s \in Sessions,
               \/ MonitorFires(s) \/ MonitorMisreads(s) \/ MonitorSends(s)
               \/ MonitorCloses(s) \/ MonitorSpins(s)
        PROVE  FALSE
    BY <2>8 DEF MonitorFires, MonitorMisreads, MonitorSends, MonitorCloses, MonitorSpins
  <2> QED BY <2>2, <2>3, <2>4, <2>5, <2>6, <2>7, <2>8
          DEF Next, MsgStep, MsgReady, MsgJoined, MsgLeft, MonitorStep
<1>4. Spec => []MonInvs
  BY <1>1, <1>2, PTL DEF Spec
<1> HIDE DEF MonInvs
<1> QED BY <1>3, <1>4, PTL DEF Spec, StaysUp

=============================================================================
