------------------------ MODULE RegionalMutationProofs ------------------------
(***************************************************************************)
(* A regional change reported as verified was made, and nobody else wrote  *)
(* in between; nothing is sent over a change that has arrived; and the     *)
(* client takes the steps of RegionalCall and no other.                    *)
(***************************************************************************)
EXTENDS RegionalMutation, TLAPS

-----------------------------------------------------------------------------
(* What is under way to the client, oldest first.                          *)

Q == inbox \o wire

Messages ==
  [type : {"reply", "error", "changed", "owner"},
   what : Values \cup {Unspecified} \cup Nat \cup {"ok", "lost", "denied", "error"}]

IsAnswer(m) == m.type \in {"reply", "error"}

(* A message that casts doubt on the result, whether it comes before the   *)
(* request or after.                                                       *)
Warns(m) == m.type = "owner" \/ (m.type = "changed" /\ ~ Matches(m.what))

Elements(s)   == {s[i] : i \in 1 .. Len(s)}
Unanswered(s) == \A m \in Elements(s) : ~ IsAnswer(m)
Single(s)     == \A i, j \in 1 .. Len(s) : IsAnswer(s[i]) /\ IsAnswer(s[j]) => i = j

(* A warning comes before any answer.                                      *)
InTime(s) ==
  \E i \in 1 .. Len(s) : Warns(s[i]) /\ \A k \in 1 .. Len(s) : k < i => ~ IsAnswer(s[k])

-----------------------------------------------------------------------------
(* The inductive invariant.                                                *)

Requests == {"activate", "pin", "match", "match2", "repin", "preflight", "method", "verify", "confirm"}
Silent   == {"hook", "hooked", "replied"}

(* The stages in which the client relies on hearing of changes and of the  *)
(* end of the instance it pinned.                                          *)
Relying == {"preflight", "hook", "hooked", "method", "replied", "verify", "confirm"}

Clients ==
  [stage : Stages, owner : 0 .. InstancesMax, sent : BOOLEAN, dirty : BOOLEAN,
   ending : {"none", "verified", "denied", "unknown", "other"}]

Types ==
  /\ TypeOK
  /\ client \in Clients /\ (client.stage = "over" <=> client.ending # "none")
  /\ inbox \in Seq(Messages) /\ wire \in Seq(Messages)
  /\ request \in Requests \cup {"none"}
  /\ window \in {"before", "open", "closed"} /\ contested \in BOOLEAN /\ late \in BOOLEAN

(* One question at a time, and one answer to it.                           *)
Dialogue ==
  /\ Single(Q)
  /\ request # "none" => Unanswered(Q)
  /\ request = "method" => served \in {"asked", "applied"}
  /\ client.stage # "over" => request \in {"none", client.stage}
  /\ client.stage \in Silent => Unanswered(Q)

Followed == instance # client.owner => \E m \in Elements(Q) : m.type = "owner"

(* Once the instance is pinned twice its end is announced.                 *)
Pinning ==
  /\ instance <= births
  /\ client.stage \notin {"activate", "pin", "over"} => client.owner \in 1 .. births
  /\ client.stage \in Relying \cup {"match2", "repin"} => "properties" \in rules
  /\ client.stage \in Relying \cup {"repin"} => "owner" \in rules
  /\ client.stage \in Relying => Followed

(* What an answer under way says about the one who gave it.                *)
Meaning(m) ==
  /\ m.type = "reply" =>
       /\ client.stage = "pin" => m.what \in 1 .. births
       /\ client.stage = "match" => "properties" \in rules
       /\ client.stage = "match2" => "owner" \in rules
       /\ client.stage = "repin" /\ m.what = client.owner => Followed
       /\ client.stage = "preflight" => window = "open"
       /\ client.stage = "method" => served = "applied"
       /\ client.stage = "verify" => window = "closed"
  /\ m.type = "error" /\ client.stage = "method" =>
       /\ served \in {"applied", "refused"}
       /\ m.what = "denied" => served = "refused"

Answers == \A m \in Elements(Q) : Meaning(m)

Windows ==
  /\ client.stage \in {"activate", "pin", "match", "match2", "repin"} => window = "before"
  /\ client.stage \in {"hook", "hooked", "method", "replied"} => window = "open"
  /\ request = "verify" /\ client.stage = "verify" => window = "open"
  /\ client.stage = "confirm" => window = "closed"
  /\ client.stage \in {"replied", "verify", "confirm"} => served = "applied"
  /\ client.stage # "over" => (client.sent <=> ~ (Preflight \/ client.stage = "hooked"))

(* Another value was written in the window: the client knows, or will hear *)
(* of it before the answer to its last question.                           *)
Doubted ==
  contested /\ client.stage # "over" =>
    \/ client.dirty
    \/ IF window = "closed" THEN InTime(Q) ELSE \E m \in Elements(Q) : Warns(m)

Unsent ==
  late => /\ ~ client.sent
          /\ client.stage # "over" => /\ client.stage \in {"hook", "hooked"}
                                      /\ \E m \in Elements(inbox) : m.type = "changed"

Concluded ==
  client.ending = "verified" =>
    request = "none" /\ served = "applied" /\ window = "closed" /\ ~ contested

RInv == Types /\ Dialogue /\ Pinning /\ Answers /\ Windows /\ Doubted /\ Unsent /\ Concluded
-----------------------------------------------------------------------------
(* Sequences of messages.                                                  *)

(* A message more, at the end.                                             *)
LEMMA Appended ==
  ASSUME NEW s \in Seq(Messages), NEW m \in Messages
  PROVE  /\ Append(s, m) \in Seq(Messages)
         /\ Elements(Append(s, m)) = Elements(s) \cup {m}
         /\ Single(s) /\ Unanswered(s) => Single(Append(s, m))
         /\ Single(s) /\ ~ IsAnswer(m) => Single(Append(s, m))
         /\ InTime(s) => InTime(Append(s, m))
         /\ Warns(m) /\ Unanswered(s) => InTime(Append(s, m))
<1> DEFINE t == Append(s, m)
<1>1. t \in Seq(Messages) /\ Len(t) = Len(s) + 1 /\ Len(s) \in Nat
  OBVIOUS
<1>2. t[Len(s) + 1] = m /\ \A i \in 1 .. Len(s) : t[i] = s[i]
  OBVIOUS
<1> HIDE DEF t
<1>3. Elements(t) = Elements(s) \cup {m}
  <2>1. \A i \in 1 .. Len(t) : i \in 1 .. Len(s) \/ i = Len(s) + 1
    BY <1>1
  <2>2. \A i \in 1 .. Len(s) : i \in 1 .. Len(t)
    BY <1>1
  <2>3. Len(s) + 1 \in 1 .. Len(t)
    BY <1>1
  <2> QED BY <2>1, <2>2, <2>3, <1>2 DEF Elements
<1>4. \A i \in 1 .. Len(s) : Unanswered(s) => ~ IsAnswer(t[i])
  BY <1>2 DEF Unanswered, Elements
<1>5. Single(s) /\ (Unanswered(s) \/ ~ IsAnswer(m)) => Single(t)
  <2>1. \A i \in 1 .. Len(t) : i \in 1 .. Len(s) \/ i = Len(s) + 1
    BY <1>1
  <2> QED BY <2>1, <1>2, <1>4 DEF Single
<1>6. InTime(s) => InTime(t)
  <2> SUFFICES ASSUME InTime(s) PROVE InTime(t)
    OBVIOUS
  <2>1. PICK i \in 1 .. Len(s) : Warns(s[i]) /\ \A k \in 1 .. Len(s) : k < i => ~ IsAnswer(s[k])
    BY DEF InTime
  <2>2. i \in 1 .. Len(t) /\ \A k \in 1 .. Len(t) : k < i => k \in 1 .. Len(s)
    BY <1>1
  <2> QED BY <2>1, <2>2, <1>2 DEF InTime
<1>7. Warns(m) /\ Unanswered(s) => InTime(t)
  <2>1. Len(s) + 1 \in 1 .. Len(t) /\ \A k \in 1 .. Len(t) : k < Len(s) + 1 => k \in 1 .. Len(s)
    BY <1>1
  <2> QED BY <2>1, <1>2, <1>4 DEF InTime
<1> QED BY <1>1, <1>3, <1>5, <1>6, <1>7 DEF t

(* The oldest message taken.                                               *)
LEMMA Taken ==
  ASSUME NEW s \in Seq(Messages), s # <<>>
  PROVE  /\ Tail(s) \in Seq(Messages) /\ Head(s) \in Messages
         /\ Elements(s) = Elements(Tail(s)) \cup {Head(s)}
         /\ Single(s) => Single(Tail(s))
         /\ Single(s) /\ IsAnswer(Head(s)) => Unanswered(Tail(s))
         /\ InTime(s) => ~ IsAnswer(Head(s))
         /\ InTime(s) => Warns(Head(s)) \/ InTime(Tail(s))
<1> DEFINE t == Tail(s)  n == Len(s)
<1>1. t \in Seq(Messages) /\ Len(t) = n - 1 /\ n \in Nat \ {0} /\ Head(s) = s[1] /\ Head(s) \in Messages
  OBVIOUS
<1>2. \A i \in 1 .. Len(t) : t[i] = s[i + 1]
  OBVIOUS
<1> HIDE DEF t, n
<1>3. \A i \in 1 .. n : i = 1 \/ (i - 1 \in 1 .. Len(t) /\ t[i - 1] = s[i])
  <2> TAKE i \in 1 .. n
  <2>1. i = 1 \/ i - 1 \in 1 .. Len(t)
    BY <1>1
  <2>2. i - 1 + 1 = i
    OBVIOUS
  <2> QED BY <2>1, <2>2, <1>2
<1>4. 1 \in 1 .. n /\ \A i \in 1 .. Len(t) : i + 1 \in 1 .. n /\ i + 1 # 1 /\ t[i] = s[i + 1]
  BY <1>1, <1>2
<1>5. Elements(s) = Elements(t) \cup {Head(s)}
  BY <1>1, <1>3, <1>4 DEF Elements, n
<1>6. Single(s) => Single(t)
  <2>1. \A i, j \in 1 .. Len(t) : i + 1 = j + 1 => i = j
    OBVIOUS
  <2> QED BY <2>1, <1>4 DEF Single, n
<1>7. Single(s) /\ IsAnswer(Head(s)) => Unanswered(t)
  BY <1>1, <1>4 DEF Single, Unanswered, Elements, n
<1>8. ASSUME InTime(s) PROVE ~ IsAnswer(Head(s)) /\ (Warns(Head(s)) \/ InTime(t))
  <2>1. PICK i \in 1 .. n : Warns(s[i]) /\ \A k \in 1 .. n : k < i => ~ IsAnswer(s[k])
    BY <1>8 DEF InTime, n
  <2>2. CASE i = 1
    BY <2>1, <2>2, <1>1 DEF Warns, IsAnswer, Messages
  <2>3. CASE i # 1
    <3>1. i - 1 \in 1 .. Len(t) /\ Warns(t[i - 1])
      BY <2>1, <2>3, <1>3
    <3>2. \A k \in 1 .. Len(t) : k < i - 1 => k + 1 < i
      BY <1>1
    <3>3. \A k \in 1 .. Len(t) : k < i - 1 => ~ IsAnswer(t[k])
      BY <3>2, <2>1, <1>4
    <3>4. ~ IsAnswer(Head(s))
      <4>1. 1 < i
        BY <2>3, <1>1
      <4> QED BY <4>1, <2>1, <1>1, <1>4
    <3> QED BY <3>1, <3>3, <3>4 DEF InTime
  <2> QED BY <2>2, <2>3
<1> QED BY <1>1, <1>5, <1>6, <1>7, <1>8 DEF t

(* What has arrived, followed by what has not.                             *)
LEMMA Joined ==
  ASSUME NEW s \in Seq(Messages), NEW t \in Seq(Messages)
  PROVE  /\ s \o t \in Seq(Messages)
         /\ Elements(s \o t) = Elements(s) \cup Elements(t)
         /\ Single(s \o t) => Single(t)
         /\ \A m \in Messages : s \o Append(t, m) = Append(s \o t, m)
         /\ s # <<>> => s \o t # <<>> /\ Tail(s) \o t = Tail(s \o t) /\ Head(s) = Head(s \o t)
         /\ t # <<>> => Append(s, Head(t)) \o Tail(t) = s \o t
         /\ <<>> \o t = t
<1>1. s \o t \in Seq(Messages) /\ Len(s \o t) = Len(s) + Len(t) /\ Len(s) \in Nat /\ Len(t) \in Nat
  OBVIOUS
<1>2. /\ \A i \in 1 .. Len(s) : (s \o t)[i] = s[i]
      /\ \A i \in 1 .. Len(t) : (s \o t)[i + Len(s)] = t[i]
  OBVIOUS
<1>3. \A i \in 1 .. Len(s \o t) : i \in 1 .. Len(s) \/ (i - Len(s) \in 1 .. Len(t) /\ i - Len(s) + Len(s) = i)
  BY <1>1
<1>4. /\ \A i \in 1 .. Len(s) : i \in 1 .. Len(s \o t)
      /\ \A i \in 1 .. Len(t) : i + Len(s) \in 1 .. Len(s \o t)
  BY <1>1
<1>5. Elements(s \o t) = Elements(s) \cup Elements(t)
  <2>1. \A m \in Elements(s \o t) : m \in Elements(s) \cup Elements(t)
    <3> TAKE m \in Elements(s \o t)
    <3>1. PICK i \in 1 .. Len(s \o t) : m = (s \o t)[i]
      BY DEF Elements
    <3>2. CASE i \in 1 .. Len(s)
      BY <3>1, <3>2, <1>2 DEF Elements
    <3>3. CASE i - Len(s) \in 1 .. Len(t) /\ i - Len(s) + Len(s) = i
      BY <3>1, <3>3, <1>2 DEF Elements
    <3> QED BY <3>2, <3>3, <1>3
  <2>2. \A m \in Elements(s) : m \in Elements(s \o t)
    BY <1>2, <1>4 DEF Elements
  <2>3. \A m \in Elements(t) : m \in Elements(s \o t)
    BY <1>2, <1>4 DEF Elements
  <2> QED BY <2>1, <2>2, <2>3
<1>6. Single(s \o t) => Single(t)
  <2>1. \A i, j \in 1 .. Len(t) : i + Len(s) = j + Len(s) => i = j
    BY <1>1
  <2> QED BY <2>1, <1>2, <1>4 DEF Single
<1>7. \A m \in Messages : s \o Append(t, m) = Append(s \o t, m)
  OBVIOUS
<1>8. s # <<>> => s \o t # <<>> /\ Tail(s) \o t = Tail(s \o t) /\ Head(s) = Head(s \o t)
  OBVIOUS
<1>9. t # <<>> => Append(s, Head(t)) \o Tail(t) = s \o t
  OBVIOUS
<1>10. <<>> \o t = t
  OBVIOUS
<1> QED BY <1>1, <1>5, <1>6, <1>7, <1>8, <1>9, <1>10

(* What the client is told once w is under way.                            *)
LEMMA Said ==
  ASSUME NEW s \in Seq(Messages), NEW w \in Seq(Messages), NEW m \in Messages
  PROVE  /\ Append(w, m) \in Seq(Messages) /\ w \o <<m>> = Append(w, m)
         /\ Elements(s \o Append(w, m)) = Elements(s \o w) \cup {m}
         /\ Single(s \o w) /\ (Unanswered(s \o w) \/ ~ IsAnswer(m)) => Single(s \o Append(w, m))
         /\ Unanswered(s \o w) /\ ~ IsAnswer(m) => Unanswered(s \o Append(w, m))
         /\ InTime(s \o w) => InTime(s \o Append(w, m))
         /\ Warns(m) /\ Unanswered(s \o w) => InTime(s \o Append(w, m))
         /\ Unanswered(s \o w) /\ (\E n \in Elements(s \o w) : Warns(n)) => InTime(s \o w)
<1>1. s \o w \in Seq(Messages) /\ s \o Append(w, m) = Append(s \o w, m)
  BY Joined
<1>2. Append(w, m) \in Seq(Messages) /\ w \o <<m>> = Append(w, m)
  OBVIOUS
<1>3. Unanswered(s \o w) /\ (\E n \in Elements(s \o w) : Warns(n)) => InTime(s \o w)
  BY DEF Unanswered, Elements, InTime
<1> DEFINE q == s \o w
<1>4. /\ Elements(Append(q, m)) = Elements(q) \cup {m}
      /\ Single(q) /\ Unanswered(q) => Single(Append(q, m))
      /\ Single(q) /\ ~ IsAnswer(m) => Single(Append(q, m))
      /\ InTime(q) => InTime(Append(q, m))
      /\ Warns(m) /\ Unanswered(q) => InTime(Append(q, m))
  BY <1>1, Appended
<1> QED BY <1>1, <1>2, <1>3, <1>4 DEF Unanswered

-----------------------------------------------------------------------------
(* The service and the bus keep the invariant.                             *)

(* One message is sent and nothing else of the dialogue changes.           *)
LEMMA Sends ==
  ASSUME Types, NEW m \in Messages, wire' = Append(wire, m), inbox' = inbox
  PROVE  /\ wire' \in Seq(Messages)
         /\ Elements(Q') = Elements(Q) \cup {m}
         /\ Single(Q) /\ (Unanswered(Q) \/ ~ IsAnswer(m)) => Single(Q')
         /\ Unanswered(Q) /\ ~ IsAnswer(m) => Unanswered(Q')
         /\ InTime(Q) => InTime(Q')
         /\ Warns(m) /\ Unanswered(Q) => InTime(Q')
         /\ Unanswered(Q) /\ (\E n \in Elements(Q) : Warns(n)) => InTime(Q')
BY Said DEF Types, Q

LEMMA Quiet == ASSUME wire' = wire, inbox' = inbox PROVE Q' = Q
BY DEF Q

(* A question is answered with m.                                          *)
LEMMA AnswerKeeps ==
  ASSUME RInv, NEW m \in Messages, IsAnswer(m), Send(m), request # "none",
         UNCHANGED <<instance, births, inbox, client, contested, late>>,
         Types', rules \subseteq rules',
         request = "method" => served' \in {"applied", "refused"},
         served = "applied" => served' = "applied",
         window' = window \/ (request = "preflight" /\ window' = "open")
                          \/ (request = "verify" /\ window' = "closed"),
         client.stage = request => Meaning(m)'
  PROVE  RInv'
<1> USE DEF RInv
<1>1. /\ wire' \in Seq(Messages)
      /\ Elements(Q') = Elements(Q) \cup {m}
      /\ Single(Q) /\ Unanswered(Q) => Single(Q')
      /\ InTime(Q) => InTime(Q')
      /\ Unanswered(Q) /\ (\E n \in Elements(Q) : Warns(n)) => InTime(Q')
  BY Sends DEF Send
<1>2. request' = "none" /\ Unanswered(Q)
  BY DEF Send, Dialogue
<1>3. Dialogue'
  BY <1>1, <1>2 DEF Dialogue, Silent, Types, Requests
<1>4. Followed => Followed'
  BY <1>1 DEF Followed
<1>5. Pinning'
  BY <1>4 DEF Pinning
<1>6. Answers'
  <2>1. \A n \in Elements(Q) : n.type \notin {"reply", "error"}
    BY <1>2 DEF Unanswered, IsAnswer
  <2>2. ASSUME client.stage # request PROVE Meaning(m)'
    BY <2>2 DEF Meaning, Dialogue
  <2>3. \A n \in Elements(Q) : Meaning(n)'
    BY <2>1 DEF Meaning
  <2> QED BY <1>1, <2>2, <2>3 DEF Answers
<1>7. Windows'
  BY <1>2 DEF Windows, Preflight, Dialogue
<1>8. Doubted'
  <2>1. InTime(Q) => \E n \in Elements(Q) : Warns(n)
    BY DEF InTime, Elements
  <2> QED BY <2>1, <1>1, <1>2 DEF Doubted
<1>9. Unsent'
  BY DEF Unsent
<1>10. Concluded'
  BY DEF Concluded
<1> QED BY <1>3, <1>5, <1>6, <1>7, <1>8, <1>9, <1>10

(* A reading, or the refusal of one.                                       *)
LEMMA ServiceReadsKeeps == RInv /\ ServiceReads => RInv'
<1> SUFFICES ASSUME RInv, ServiceReads PROVE RInv'
  OBVIOUS
<1> USE DEF RInv
<1>1. PICK m \in Messages : IsAnswer(m) /\ Send(m)
  <2>1. Reply(value) \in Messages /\ IsAnswer(Reply(value))
    BY DEF Messages, Types, TypeOK, Reply, IsAnswer
  <2>2. \A refusal \in {"denied", "error"} : Error(refusal) \in Messages /\ IsAnswer(Error(refusal))
    BY DEF Messages, Error, IsAnswer
  <2> QED BY <2>1, <2>2 DEF ServiceReads, Answer, Refuse
<1>2. Types'
  <2>1. wire' \in Seq(Messages)
    BY <1>1, Sends DEF Send, ServiceReads
  <2> QED BY <2>1, <1>1 DEF ServiceReads, Send, Types, TypeOK, serviceVars
<1>3. client.stage = request => Meaning(m)'
  BY DEF ServiceReads, Meaning
<1> QED BY <1>1, <1>2, <1>3, AnswerKeeps DEF ServiceReads, serviceVars

LEMMA ServiceAnswersKeeps == RInv /\ ServiceAnswers => RInv'
<1> SUFFICES ASSUME RInv, ServiceAnswers PROVE RInv'
  OBVIOUS
<1> USE DEF RInv
<1>1. PICK m \in Messages : /\ IsAnswer(m) /\ Send(m)
                            /\ m.type = "reply" => served = "applied" /\ served' = "applied"
                            /\ m.type = "error" => served' = "refused" /\ served # "applied"
  <2>1. Reply("ok") \in Messages /\ IsAnswer(Reply("ok")) /\ Reply("ok").type = "reply"
    BY DEF Messages, Reply, IsAnswer
  <2>2. \A refusal \in {"denied", "error"} :
          Error(refusal) \in Messages /\ IsAnswer(Error(refusal)) /\ Error(refusal).type = "error"
    BY DEF Messages, Error, IsAnswer
  <2>3. CASE served = "applied"
    BY <2>1, <2>3 DEF ServiceAnswers, Answer
  <2>4. CASE served # "applied"
    BY <2>2, <2>4 DEF ServiceAnswers, Refuse
  <2> QED BY <2>3, <2>4
<1>2. served' \in {"applied", "refused"} /\ (served = "applied" => served' = "applied")
  BY <1>1 DEF IsAnswer
<1>3. Types'
  <2>1. wire' \in Seq(Messages)
    BY <1>1, Sends DEF Send, ServiceAnswers
  <2> QED BY <2>1, <1>1, <1>2 DEF ServiceAnswers, Send, Types, TypeOK, serviceVars, history
<1>4. client.stage = request => Meaning(m)'
  BY <1>1 DEF ServiceAnswers, Meaning
<1> QED BY <1>1, <1>2, <1>3, <1>4, AnswerKeeps DEF ServiceAnswers, serviceVars, history

LEMMA ServiceActivatedKeeps == RInv /\ ServiceActivated => RInv'
<1> SUFFICES ASSUME RInv, ServiceActivated PROVE RInv'
  OBVIOUS
<1> USE DEF RInv
<1>1. Reply(value) \in Messages /\ IsAnswer(Reply(value)) /\ Send(Reply(value))
  BY DEF Messages, Types, TypeOK, Reply, IsAnswer, ServiceActivated, Answer
<1>2. /\ wire' \in Seq(Messages)
      /\ Elements(Q') = Elements(Q) \cup {Reply(value)}
      /\ Single(Q) /\ Unanswered(Q) => Single(Q')
      /\ InTime(Q) => InTime(Q')
  BY <1>1, Sends DEF Send, ServiceActivated
<1>3. request' = "none" /\ Unanswered(Q) /\ client.stage \in {"activate", "over"}
  BY <1>1 DEF Send, Dialogue, ServiceActivated
<1>4. Types' /\ instance' <= births' /\ instance' \in Nat /\ births' \in Nat
  BY <1>2, <1>3, ConstantsAssumption DEF ServiceActivated, Types, TypeOK, history, Pinning
<1>5. Dialogue'
  BY <1>2, <1>3 DEF Dialogue, Silent, ServiceActivated
<1>6. Pinning'
  BY <1>3, <1>4 DEF Pinning, Relying, ServiceActivated
<1>7. Answers'
  BY <1>2, <1>3 DEF Answers, Meaning, ServiceActivated
<1>8. Windows' /\ Doubted' /\ Unsent' /\ Concluded'
  BY <1>2, <1>3 DEF Windows, Preflight, Doubted, Unsent, Concluded, ServiceActivated, history
<1> QED BY <1>4, <1>5, <1>6, <1>7, <1>8

LEMMA BusAnswersKeeps == RInv /\ BusAnswers => RInv'
<1> SUFFICES ASSUME RInv, BusAnswers PROVE RInv'
  OBVIOUS
<1> USE DEF RInv
<1>1. /\ Error("lost") \in Messages /\ IsAnswer(Error("lost")) /\ Error("lost").type = "error" /\ Error("lost").what = "lost"
      /\ \A what \in Nat \cup {"ok"} : /\ Reply(what) \in Messages /\ IsAnswer(Reply(what))
                                       /\ Reply(what).type = "reply" /\ Reply(what).what = what
  BY DEF Messages, Error, Reply, IsAnswer
<1>2. instance \in Nat /\ (instance # 0 => instance \in 1 .. births)
  BY ConstantsAssumption DEF Types, TypeOK, Pinning
<1>3. ASSUME NEW m \in Messages, IsAnswer(m), Send(m), Types', client.stage = request => Meaning(m)',
             rules \subseteq rules', request = "method" => served' \in {"applied", "refused"},
             served = "applied" => served' = "applied"
      PROVE  RInv'
  <2>1. request # "none" /\ UNCHANGED <<instance, births, inbox, client, contested, late>> /\ window' = window
    BY DEF BusAnswers, serviceVars, history, ToService
  <2> QED BY <2>1, <1>3, AnswerKeeps
<1>4. ASSUME NEW m \in Messages, Send(m)
      PROVE  wire' \in Seq(Messages) /\ request' = "none"
  BY <1>4, Sends DEF Send, BusAnswers
<1>5. CASE request \in {"pin", "repin", "confirm"}
  <2>1. UNCHANGED <<rules, served>> /\ UNCHANGED <<serviceVars, inbox, client, history>>
    BY <1>5 DEF BusAnswers, ToService
  <2>2. CASE instance = 0
    <3>1. Send(Error("lost"))
      BY <1>5, <2>2 DEF BusAnswers, Refuse, ToService
    <3>2. Types'
      BY <2>1, <3>1, <1>1, <1>4 DEF Types, TypeOK, serviceVars, history
    <3>3. client.stage = request => Meaning(Error("lost"))'
      BY <1>1, <1>5, <2>1, <3>1 DEF Meaning
    <3> QED BY <1>1, <1>3, <1>5, <2>1, <3>1, <3>2, <3>3
  <2>3. CASE instance # 0
    <3>1. PICK what \in Nat : what = instance
      BY <1>2
    <3>2. Send(Reply(what))
      BY <1>5, <2>3, <3>1 DEF BusAnswers, Answer, ToService
    <3>3. Types'
      BY <2>1, <3>2, <1>1, <1>4 DEF Types, TypeOK, serviceVars, history
    <3>4. client.stage = request => Meaning(Reply(what))'
      BY <1>1, <1>2, <1>5, <2>1, <2>3, <3>1 DEF Meaning, Followed, serviceVars
    <3> QED BY <1>1, <1>3, <1>5, <2>1, <3>2, <3>3, <3>4
  <2> QED BY <2>2, <2>3
<1>6. CASE request \in {"match", "match2"}
  <2>1. /\ rules' = rules \cup {IF request = "match" THEN "properties" ELSE "owner"}
        /\ Send(Reply("ok")) /\ UNCHANGED served /\ UNCHANGED <<serviceVars, inbox, client, history>>
    BY <1>6 DEF BusAnswers, Answer, ToService
  <2>2. Types'
    BY <2>1, <1>1, <1>4, ZenonT(60) DEF Types, TypeOK, serviceVars, history
  <2>3. client.stage = request => Meaning(Reply("ok"))'
    BY <1>1, <1>6, <2>1 DEF Meaning
  <2> QED BY <1>1, <1>3, <1>6, <2>1, <2>2, <2>3
<1>7. CASE ToService /\ client.owner # instance
  <2>1. /\ Send(Error("lost")) /\ served' = (IF served = "asked" THEN "refused" ELSE served)
        /\ UNCHANGED rules /\ UNCHANGED <<serviceVars, inbox, client, history>>
    BY <1>7 DEF BusAnswers, Refuse, ToService
  <2>2. Types'
    BY <2>1, <1>1, <1>4 DEF Types, TypeOK, serviceVars, history
  <2>3. request = "method" => served' \in {"applied", "refused"}
    BY <2>1 DEF Dialogue
  <2>4. client.stage = request => Meaning(Error("lost"))'
    BY <1>1, <2>1, <2>3 DEF Meaning
  <2> QED BY <1>1, <1>3, <2>1, <2>2, <2>3, <2>4
<1> QED BY <1>5, <1>6, <1>7 DEF BusAnswers

(* What a rule lets through is the message or nothing.                     *)
LEMMA HeardOrNot ==
  ASSUME Types, NEW rule, NEW m \in Messages, ~ IsAnswer(m)
  PROVE  LET w == wire \o Heard(rule, m) IN
         /\ w \in Seq(Messages)
         /\ w = wire \/ w = Append(wire, m)
         /\ rule \in rules /\ (rule = "properties" => instance = client.owner) => w = Append(wire, m)
         /\ Elements(Q) \subseteq Elements(inbox \o w) /\ Elements(inbox \o w) \subseteq Elements(Q) \cup {m}
         /\ w = Append(wire, m) => m \in Elements(inbox \o w)
         /\ Single(Q) => Single(inbox \o w)
         /\ Unanswered(Q) => Unanswered(inbox \o w)
         /\ InTime(Q) => InTime(inbox \o w)
<1> DEFINE w == wire \o Heard(rule, m)
<1>1. wire \in Seq(Messages) /\ inbox \in Seq(Messages)
  BY DEF Types
<1>2. wire \o <<m>> = Append(wire, m) /\ wire \o <<>> = wire
  BY <1>1
<1>3. w = wire \/ w = Append(wire, m)
  BY <1>2 DEF Heard
<1>4. rule \in rules /\ (rule = "properties" => instance = client.owner) => w = Append(wire, m)
  BY <1>2 DEF Heard
<1> HIDE DEF w
<1>5. CASE w = wire
  BY <1>1, <1>3, <1>4, <1>5 DEF Q, w
<1>6. CASE w = Append(wire, m)
  <2>1. /\ Append(wire, m) \in Seq(Messages)
        /\ Elements(inbox \o Append(wire, m)) = Elements(inbox \o wire) \cup {m}
        /\ Single(inbox \o wire) => Single(inbox \o Append(wire, m))
        /\ Unanswered(inbox \o wire) => Unanswered(inbox \o Append(wire, m))
        /\ InTime(inbox \o wire) => InTime(inbox \o Append(wire, m))
    BY <1>1, Said
  <2> QED BY <2>1, <1>3, <1>4, <1>6 DEF Q, w
<1> QED BY <1>3, <1>5, <1>6 DEF w

(* Another client writes; the service is started for it if need be.        *)
LEMMA ForeignWriteKeeps == RInv /\ (\E v \in Values : ForeignWrite(v)) => RInv'
<1> SUFFICES ASSUME RInv, NEW v \in Values, ForeignWrite(v) PROVE RInv'
  OBVIOUS
<1> USE DEF RInv
<1>1. UNCHANGED <<rules, request, inbox, client, served, window, late>>
  BY DEF ForeignWrite
<1>2. PICK told \in {v, Unspecified} :
        IF instance # 0 THEN wire' = wire \o Heard("properties", Changed(told)) /\ UNCHANGED <<instance, births>>
        ELSE births' = births + 1 /\ instance' = births' /\ wire' = wire
  BY DEF ForeignWrite
<1> DEFINE m == Changed(told)
<1>3. m \in Messages /\ ~ IsAnswer(m) /\ m.type = "changed" /\ (v # Target => Warns(m))
  BY ConstantsAssumption DEF Messages, Changed, IsAnswer, Warns, Matches
<1> HIDE DEF m
<1>4. /\ wire' \in Seq(Messages)
      /\ Elements(Q) \subseteq Elements(Q') /\ Elements(Q') \subseteq Elements(Q) \cup {m}
      /\ Single(Q) => Single(Q')
      /\ Unanswered(Q) => Unanswered(Q')
      /\ InTime(Q) => InTime(Q')
  <2>1. CASE instance # 0
    <3>1. wire' = wire \o Heard("properties", m) /\ Q' = inbox \o (wire \o Heard("properties", m))
      BY <1>1, <1>2, <2>1 DEF Q, m
    <3> QED BY <3>1, <1>3, HeardOrNot
  <2>2. CASE instance = 0
    BY <1>1, <1>2, <2>2, Quiet DEF Types
  <2> QED BY <2>1, <2>2
<1>5. Types' /\ instance' <= births' /\ births <= births' /\ births \in Nat /\ births' \in Nat
  <2>1. {value', instance', births', writes'} \subseteq Nat \cup Values
    BY <1>2, ConstantsAssumption DEF ForeignWrite, Types, TypeOK
  <2>2. value' \in Values /\ writes' \in 0 .. WritesMax /\ contested' \in BOOLEAN
    BY ConstantsAssumption DEF ForeignWrite, Types, TypeOK
  <2>3. {instance', births'} \subseteq 0 .. InstancesMax /\ instance' <= births' /\ births <= births'
    BY <1>2, ConstantsAssumption DEF ForeignWrite, Types, TypeOK, Pinning
  <2>4. births \in Nat /\ births' \in Nat
    BY <2>3, ConstantsAssumption DEF Types, TypeOK
  <2> QED BY <1>1, <1>4, <2>2, <2>3, <2>4 DEF Types, TypeOK
<1>6. Dialogue'
  BY <1>1, <1>4 DEF Dialogue
<1>7. client.stage \in Relying \cup {"repin"} => (Followed => Followed')
  <2>1. CASE instance # 0
    BY <1>1, <1>2, <1>4, <2>1 DEF Followed
  <2>2. CASE instance = 0
    BY <1>1, <1>2, <1>4, <2>2 DEF Followed, Pinning, Relying
  <2> QED BY <2>1, <2>2
<1>8. Pinning'
  BY <1>1, <1>5, <1>7 DEF Pinning, Relying
<1>9. Answers'
  <2>1. \A n \in Elements(Q) : Meaning(n)'
    BY <1>1, <1>5, <1>7 DEF Answers, Meaning
  <2>2. Meaning(m)'
    BY <1>3 DEF Meaning
  <2> QED BY <1>4, <2>1, <2>2 DEF Answers
<1>10. Windows'
  BY <1>1 DEF Windows, Preflight
<1>11. Doubted'
  <2>1. CASE contested' = contested
    BY <1>1, <1>4, <2>1 DEF Doubted
  <2>2. CASE window = "open" /\ v # Target /\ client.stage # "over"
    <3>1. client.stage \in Relying /\ "properties" \in rules
      BY <2>2 DEF Windows, Pinning, Relying, Types, TypeOK, Stages
    <3>2. CASE instance # client.owner
      BY <1>1, <1>4, <2>2, <3>1, <3>2 DEF Pinning, Followed, Warns, Doubted
    <3>3. CASE instance = client.owner
      <4>1. instance # 0
        BY <3>1, <3>3 DEF Pinning, Relying, Types, TypeOK
      <4>2. wire' = wire \o Heard("properties", m) /\ Q' = inbox \o (wire \o Heard("properties", m))
        BY <1>1, <1>2, <4>1 DEF Q, m
      <4>3. m \in Elements(Q')
        BY <1>3, <3>1, <3>3, <4>2, HeardOrNot
      <4> QED BY <1>1, <1>3, <2>2, <4>3 DEF Doubted
    <3> QED BY <3>2, <3>3
  <2>3. CASE client.stage = "over"
    BY <1>1, <2>3 DEF Doubted
  <2> QED BY <2>1, <2>2, <2>3 DEF ForeignWrite, Types
<1>12. Unsent'
  BY <1>1 DEF Unsent
<1>13. Concluded'
  BY <1>1 DEF Concluded, ForeignWrite
<1> QED BY <1>5, <1>6, <1>8, <1>9, <1>10, <1>11, <1>12, <1>13

(* The service exits: the client hears of it, and its question is lost.    *)
LEMMA ServiceExitsKeeps == RInv /\ ServiceExits => RInv'
<1> SUFFICES ASSUME RInv, ServiceExits PROVE RInv'
  OBVIOUS
<1> USE DEF RInv
<1> DEFINE w == wire \o Heard("owner", OwnerLost)
           orphan == ToService /\ client.owner = instance
<1>1. /\ instance # 0 /\ instance' = 0
      /\ UNCHANGED <<value, births, writes, rules, inbox, client, window, contested, late>>
      /\ wire' = w \o (IF orphan THEN <<Error("lost")>> ELSE <<>>)
      /\ request' = (IF orphan THEN "none" ELSE request)
      /\ served' = (IF orphan /\ served = "asked" THEN "refused" ELSE served)
  BY DEF ServiceExits, history
<1>2. /\ OwnerLost \in Messages /\ ~ IsAnswer(OwnerLost) /\ OwnerLost.type = "owner"
      /\ Error("lost") \in Messages /\ IsAnswer(Error("lost"))
      /\ Error("lost").type = "error" /\ Error("lost").what = "lost"
  BY DEF Messages, OwnerLost, Error, IsAnswer
<1>3. /\ w \in Seq(Messages)
      /\ "owner" \in rules => w = Append(wire, OwnerLost)
      /\ Elements(Q) \subseteq Elements(inbox \o w) /\ Elements(inbox \o w) \subseteq Elements(Q) \cup {OwnerLost}
      /\ w = Append(wire, OwnerLost) => OwnerLost \in Elements(inbox \o w)
      /\ Single(Q) => Single(inbox \o w)
      /\ Unanswered(Q) => Unanswered(inbox \o w)
      /\ InTime(Q) => InTime(inbox \o w)
  BY <1>2, HeardOrNot
<1> HIDE DEF w
<1>4. ASSUME orphan
      PROVE  /\ wire' \in Seq(Messages)
             /\ Elements(Q') = Elements(inbox \o w) \cup {Error("lost")}
             /\ Single(Q) /\ Unanswered(Q) => Single(Q')
             /\ InTime(Q) => InTime(Q')
  <2>1. wire' = w \o <<Error("lost")>> /\ inbox \in Seq(Messages)
    BY <1>1, <1>4 DEF Types
  <2>2. \A m \in Messages : w \o <<m>> = Append(w, m)
    BY <1>3
  <2>3. wire' = Append(w, Error("lost")) /\ Q' = inbox \o Append(w, Error("lost"))
    BY <2>1, <2>2, <1>1, <1>2 DEF Q
  <2> QED BY <2>1, <2>3, <1>2, <1>3, Said
<1>5. ASSUME ~ orphan PROVE wire' = w /\ Q' = inbox \o w
  BY <1>1, <1>3, <1>5 DEF Q
<1>6. /\ wire' \in Seq(Messages)
      /\ Elements(Q) \subseteq Elements(Q')
      /\ Elements(Q') \subseteq Elements(Q) \cup {OwnerLost} \cup (IF orphan THEN {Error("lost")} ELSE {})
      /\ Single(Q')
      /\ ~ orphan /\ Unanswered(Q) => Unanswered(Q')
      /\ InTime(Q) => InTime(Q')
      /\ "owner" \in rules => OwnerLost \in Elements(Q')
  <2>1. CASE orphan
    <3>1. Unanswered(Q) /\ Single(Q)
      BY <2>1 DEF Dialogue, ToService
    <3> QED BY <2>1, <3>1, <1>3, <1>4
  <2>2. CASE ~ orphan
    BY <2>2, <1>3, <1>5 DEF Dialogue
  <2> QED BY <2>1, <2>2
<1>7. Types'
  BY <1>1, <1>6, ConstantsAssumption DEF Types, TypeOK
<1>8. Dialogue'
  <2>1. orphan => request \in {"preflight", "method", "verify"}
    BY DEF ToService
  <2>2. request' = "method" => served' = served /\ request = "method"
    BY <1>1
  <2> QED BY <1>1, <1>6, <2>1, <2>2 DEF Dialogue, Silent
<1>9. "owner" \in rules => Followed'
  BY <1>2, <1>6 DEF Followed
<1>10. Pinning'
  BY <1>1, <1>9 DEF Pinning, Types, TypeOK
<1>11. Answers'
  <2>1. \A n \in Elements(Q) : n.type = "reply" => Meaning(n)'
    BY <1>1, <1>9 DEF Answers, Meaning, Pinning
  <2>2. \A n \in Elements(Q) : n.type = "error" => Meaning(n)'
    BY <1>1 DEF Answers, Meaning
  <2>3. \A n \in Messages : n.type \notin {"reply", "error"} => Meaning(n)'
    BY DEF Meaning
  <2>4. \A n \in Elements(Q) : Meaning(n)'
    BY <2>1, <2>2 DEF Meaning
  <2>5. orphan => Meaning(Error("lost"))'
    BY <1>1, <1>2 DEF Meaning, Dialogue, ToService
  <2>6. Meaning(OwnerLost)'
    BY <1>2, <2>3 DEF IsAnswer
  <2> QED BY <1>6, <2>4, <2>5, <2>6 DEF Answers
<1>12. Windows'
  BY <1>1 DEF Windows, Preflight
<1>13. Doubted'
  BY <1>1, <1>6 DEF Doubted
<1>14. Unsent'
  BY <1>1 DEF Unsent
<1>15. Concluded'
  BY <1>1 DEF Concluded
<1> QED BY <1>7, <1>8, <1>10, <1>11, <1>12, <1>13, <1>14, <1>15

LEMMA ServiceAppliesKeeps == RInv /\ ServiceApplies => RInv'
<1> SUFFICES ASSUME RInv, ServiceApplies PROVE RInv'
  OBVIOUS
<1> USE DEF RInv
<1> DEFINE m == Changed(Target)
<1>1. /\ UNCHANGED <<instance, births, writes, rules, request, inbox, client, window, contested, late>>
      /\ request = "method" /\ served = "asked" /\ served' = "applied" /\ value' = Target
      /\ wire' = wire \o (IF value = Target THEN <<>> ELSE Heard("properties", m))
  BY DEF ServiceApplies, history
<1>2. m \in Messages /\ ~ IsAnswer(m) /\ m.type = "changed"
  BY ConstantsAssumption DEF Messages, Changed, IsAnswer
<1> HIDE DEF m
<1>3. /\ wire' \in Seq(Messages)
      /\ Elements(Q) \subseteq Elements(Q') /\ Elements(Q') \subseteq Elements(Q) \cup {m}
      /\ Single(Q) => Single(Q')
      /\ Unanswered(Q) => Unanswered(Q')
      /\ InTime(Q) => InTime(Q')
  <2>1. CASE value # Target
    <3>1. wire' = wire \o Heard("properties", m) /\ Q' = inbox \o (wire \o Heard("properties", m))
      BY <1>1, <2>1 DEF Q
    <3> QED BY <3>1, <1>2, HeardOrNot
  <2>2. CASE value = Target
    <3>1. wire \in Seq(Messages) /\ wire' = wire
      BY <1>1, <2>2 DEF Types
    <3> QED BY <1>1, <3>1, Quiet
  <2> QED BY <2>1, <2>2
<1>4. Types'
  BY <1>1, <1>3, ConstantsAssumption DEF Types, TypeOK
<1>5. Dialogue'
  BY <1>1, <1>3 DEF Dialogue
<1>6. Followed => Followed'
  BY <1>1, <1>3 DEF Followed
<1>7. Pinning'
  BY <1>1, <1>6 DEF Pinning
<1>8. Answers'
  <2>1. \A n \in Elements(Q) : Meaning(n)'
    BY <1>1, <1>6 DEF Answers, Meaning, Dialogue, Unanswered, IsAnswer
  <2>2. Meaning(m)'
    BY <1>2 DEF Meaning, IsAnswer
  <2> QED BY <1>3, <2>1, <2>2 DEF Answers
<1>9. Windows' /\ Unsent' /\ Concluded'
  BY <1>1 DEF Windows, Preflight, Unsent, Concluded
<1>10. Doubted'
  BY <1>1, <1>3 DEF Doubted
<1> QED BY <1>4, <1>5, <1>7, <1>8, <1>9, <1>10

LEMMA ArriveKeeps == RInv /\ Arrive => RInv'
<1> SUFFICES ASSUME RInv, Arrive PROVE RInv'
  OBVIOUS
<1> USE DEF RInv
<1>1. /\ wire # <<>> /\ inbox' = Append(inbox, Head(wire)) /\ wire' = Tail(wire)
      /\ late' = (late \/ (client.stage \in {"hook", "hooked"} /\ Head(wire).type = "changed"))
      /\ UNCHANGED <<value, instance, births, writes, rules, request, client, served, window, contested>>
  BY DEF Arrive, serviceVars
<1>2. inbox \in Seq(Messages) /\ wire \in Seq(Messages)
  BY DEF Types
<1>3. Head(wire) \in Messages /\ Tail(wire) \in Seq(Messages)
  BY <1>1, <1>2, Taken
<1>4. inbox' \in Seq(Messages) /\ Elements(inbox') = Elements(inbox) \cup {Head(wire)}
  BY <1>1, <1>2, <1>3, Appended
<1>5. Q' = Q
  BY <1>1, <1>2, Joined DEF Q
<1>6. Types'
  BY <1>1, <1>3, <1>4 DEF Types, TypeOK
<1>7. Dialogue' /\ Pinning' /\ Answers' /\ Windows' /\ Doubted' /\ Concluded'
  BY <1>1, <1>5 DEF Dialogue, Pinning, Answers, Meaning, Followed, Windows, Preflight, Doubted, Concluded
<1>8. Unsent'
  BY <1>1, <1>4 DEF Unsent, Windows, Preflight
<1> QED BY <1>6, <1>7, <1>8

LEMMA ServiceKeeps == RInv /\ Service => RInv'
BY ForeignWriteKeeps, ServiceExitsKeeps, BusAnswersKeeps, ServiceActivatedKeeps, ServiceReadsKeeps,
   ServiceAppliesKeeps, ServiceAnswersKeeps, ArriveKeeps DEF Service

-----------------------------------------------------------------------------
(* The client keeps the invariant.                                         *)

LEMMA EndingKeeps ==
  ASSUME RInv, client' \in Clients, client'.stage = "over",
         client'.ending \in {"denied", "unknown", "other"}, client'.sent = client.sent,
         inbox' \in Seq(Messages), wire' = wire, Single(Q'), Elements(Q') \subseteq Elements(Q),
         UNCHANGED <<serviceVars, rules, request, served, history>>
  PROVE  RInv'
<1> USE DEF RInv, serviceVars, history
<1>1. Types'
  BY DEF Types, TypeOK, Clients, Stages
<1>2. Unanswered(Q) => Unanswered(Q')
  BY DEF Unanswered
<1>3. Dialogue'
  BY <1>2 DEF Dialogue, Silent
<1>4. Pinning'
  BY DEF Pinning, Relying
<1>5. Answers'
  BY DEF Answers, Meaning
<1>6. Windows' /\ Doubted' /\ Unsent' /\ Concluded'
  BY <1>2 DEF Windows, Preflight, Doubted, Unsent, Concluded, Dialogue, Types, Requests
<1> QED BY <1>1, <1>3, <1>4, <1>5, <1>6

LEMMA GiveUpKeeps == RInv /\ GiveUp => RInv'
<1> SUFFICES ASSUME RInv, GiveUp PROVE RInv'
  OBVIOUS
<1>1. client' = Over("unknown") /\ UNCHANGED <<serviceVars, rules, request, wire, inbox, served, history>>
  BY DEF GiveUp
<1>2. /\ client' \in Clients /\ client'.stage = "over" /\ client'.ending = "unknown"
      /\ client'.sent = client.sent
  BY <1>1 DEF Over, Ended, Clients, Stages, RInv, Types
<1>3. inbox' \in Seq(Messages) /\ Q' = Q /\ Single(Q)
  BY <1>1 DEF Q, RInv, Types, Dialogue
<1> QED BY <1>1, <1>2, <1>3, EndingKeeps

(* The oldest message is taken from the inbox.                             *)
LEMMA OneTaken ==
  ASSUME Types, inbox # <<>>, Consume, wire' = wire
  PROVE  /\ inbox' \in Seq(Messages) /\ Head(inbox) \in Messages
         /\ Elements(inbox) = Elements(inbox') \cup {Head(inbox)}
         /\ Elements(Q) = Elements(Q') \cup {Head(inbox)}
         /\ Single(Q) => Single(Q')
         /\ Single(Q) /\ IsAnswer(Head(inbox)) => Unanswered(Q')
         /\ InTime(Q) => ~ IsAnswer(Head(inbox)) /\ (Warns(Head(inbox)) \/ InTime(Q'))
<1>1. inbox \in Seq(Messages) /\ wire \in Seq(Messages) /\ inbox' = Tail(inbox)
  BY DEF Types, Consume
<1>2. Q \in Seq(Messages) /\ Q # <<>> /\ Q' = Tail(Q) /\ Head(Q) = Head(inbox)
  BY <1>1, Joined DEF Q
<1> QED BY <1>1, <1>2, Taken

(* An answer is taken.  What it means holds, and a doubt is either known   *)
(* or announced by what is still under way.                                *)
LEMMA AnswerTaken ==
  ASSUME RInv, client.stage # "over", inbox # <<>>, IsAnswer(Head(inbox)), Consume, wire' = wire
  PROVE  /\ inbox' \in Seq(Messages) /\ Head(inbox) \in Messages /\ Meaning(Head(inbox))
         /\ Single(Q') /\ Unanswered(Q') /\ Elements(Q') \subseteq Elements(Q)
         /\ request = "none" /\ ~ late /\ client.stage \notin Silent
         /\ UNCHANGED instance /\ client'.owner = client.owner => (Followed => Followed')
         /\ contested => client.dirty \/ (window # "closed" /\ \E n \in Elements(Q') : Warns(n))
<1> USE DEF RInv
<1>1. /\ inbox' \in Seq(Messages) /\ Head(inbox) \in Messages
      /\ Elements(Q) = Elements(Q') \cup {Head(inbox)}
      /\ Single(Q) => Single(Q')
      /\ Single(Q) /\ IsAnswer(Head(inbox)) => Unanswered(Q')
      /\ InTime(Q) => ~ IsAnswer(Head(inbox)) /\ (Warns(Head(inbox)) \/ InTime(Q'))
  BY OneTaken
<1>2. Meaning(Head(inbox)) /\ ~ Unanswered(Q)
  BY <1>1 DEF Answers, Unanswered
<1>3. Single(Q') /\ Unanswered(Q')
  BY <1>1 DEF Dialogue
<1>4. request = "none" /\ client.stage \notin Silent
  BY <1>2 DEF Dialogue
<1>5. ~ late
  BY <1>4 DEF Unsent, Silent
<1>6. ~ Warns(Head(inbox)) /\ Head(inbox).type # "owner"
  BY DEF Warns, IsAnswer
<1>7. UNCHANGED instance /\ client'.owner = client.owner => (Followed => Followed')
  BY <1>1, <1>6 DEF Followed
<1>8. contested => client.dirty \/ (window # "closed" /\ \E n \in Elements(Q') : Warns(n))
  BY <1>1, <1>6 DEF Doubted
<1> QED BY <1>1, <1>2, <1>3, <1>4, <1>5, <1>7, <1>8

LEMMA GetsErrorKeeps == RInv /\ GetsError => RInv'
<1> SUFFICES ASSUME RInv, GetsError PROVE RInv'
  OBVIOUS
<1>1. /\ client.stage # "over" /\ inbox # <<>> /\ IsAnswer(Head(inbox)) /\ Consume /\ wire' = wire
      /\ UNCHANGED <<serviceVars, rules, request, served, history>>
  BY DEF GetsError, IsAnswer
<1>2. PICK ending \in {"denied", "unknown", "other"} : client' = Over(ending)
  BY DEF GetsError, ErrorEndings
<1>3. /\ client' \in Clients /\ client'.stage = "over" /\ client'.ending = ending
      /\ client'.sent = client.sent
  BY <1>2 DEF Over, Ended, Clients, Stages, RInv, Types
<1> QED BY <1>1, <1>3, AnswerTaken, EndingKeeps

(* An answer is followed by the next question.                             *)
LEMMA QuestionKeeps ==
  ASSUME RInv, NEW next \in Requests, inbox # <<>>, Head(inbox).type = "reply", Consume, wire' = wire,
         Ask(next), client' \in Clients, client'.stage = next, client'.ending = "none",
         client.stage # "over", next # "method",
         client'.sent = client.sent, client.dirty => client'.dirty,
         UNCHANGED <<serviceVars, rules, served, history>>,
         Pinning', Windows'
  PROVE  RInv'
<1> USE DEF RInv, serviceVars, history
<1>1. /\ inbox' \in Seq(Messages)
      /\ Single(Q') /\ Unanswered(Q') /\ Elements(Q') \subseteq Elements(Q)
      /\ request = "none" /\ ~ late
      /\ contested => client.dirty \/ (window # "closed" /\ \E n \in Elements(Q') : Warns(n))
  BY AnswerTaken DEF IsAnswer
<1>2. request' = next /\ next \in Stages
  BY DEF Ask, Requests, Stages
<1>3. Types'
  BY <1>1, <1>2 DEF Types, TypeOK, Requests, Clients
<1>4. Dialogue'
  BY <1>1, <1>2 DEF Dialogue, Silent, Requests
<1>5. Answers'
  BY <1>1 DEF Answers, Meaning, Unanswered, IsAnswer
<1>6. Doubted' /\ Unsent' /\ Concluded'
  BY <1>1 DEF Doubted, Unsent, Concluded
<1> QED BY <1>3, <1>4, <1>5, <1>6

LEMMA ActivatedKeeps == RInv /\ Activated => RInv'
<1> SUFFICES ASSUME RInv, Activated PROVE RInv'
  OBVIOUS
<1> USE DEF RInv, serviceVars, history
<1>1. /\ client.stage = "activate" /\ inbox # <<>> /\ Head(inbox).type = "reply" /\ Consume /\ wire' = wire
      /\ client' = [client EXCEPT !.stage = "pin"] /\ Ask("pin")
      /\ UNCHANGED <<serviceVars, rules, served, history>>
  BY DEF Activated, Got, Goes
<1>2. client' \in Clients /\ client'.ending = "none" /\ client'.stage = "pin" /\ client'.sent = client.sent
      /\ client'.dirty = client.dirty
  BY <1>1 DEF Types, Clients, Stages
<1>3. Pinning' /\ Windows'
  BY <1>1, <1>2 DEF Pinning, Relying, Windows, Preflight, Ask
<1> QED BY <1>1, <1>2, <1>3, QuestionKeeps DEF Requests

LEMMA PinnedKeeps == RInv /\ Pinned => RInv'
<1> SUFFICES ASSUME RInv, Pinned PROVE RInv'
  OBVIOUS
<1> USE DEF RInv, serviceVars, history
<1>1. /\ client.stage = "pin" /\ inbox # <<>> /\ Head(inbox).type = "reply" /\ Consume /\ wire' = wire
      /\ client' = [client EXCEPT !.stage = "match", !.owner = Answered] /\ Ask("match")
      /\ UNCHANGED <<serviceVars, rules, served, history>>
  BY DEF Pinned, Got
<1>2. Answered \in 1 .. births /\ births \in 0 .. InstancesMax
  BY <1>1, AnswerTaken DEF IsAnswer, Meaning, Answered, Types, TypeOK
<1>3. Answered \in 0 .. InstancesMax
  BY <1>2, ConstantsAssumption
<1>4. /\ client' \in Clients /\ client'.ending = "none" /\ client'.stage = "match" /\ client'.sent = client.sent
      /\ client'.dirty = client.dirty /\ client'.owner = Answered
  BY <1>1, <1>3 DEF Types, Clients, Stages
<1>5. Pinning' /\ Windows'
  BY <1>1, <1>2, <1>4 DEF Pinning, Relying, Windows, Preflight, Ask
<1> QED BY <1>1, <1>4, <1>5, QuestionKeeps DEF Requests

LEMMA MatchAddedKeeps == RInv /\ MatchAdded => RInv'
<1> SUFFICES ASSUME RInv, MatchAdded PROVE RInv'
  OBVIOUS
<1> USE DEF RInv, serviceVars, history
<1>1. PICK next \in {"match2", "repin"} :
        /\ client.stage = (IF next = "match2" THEN "match" ELSE "match2")
        /\ inbox # <<>> /\ Head(inbox).type = "reply" /\ Consume /\ wire' = wire
        /\ client' = [client EXCEPT !.stage = next] /\ Ask(next)
        /\ UNCHANGED <<serviceVars, rules, served, history>>
  BY DEF MatchAdded, Got, Goes
<1>2. Meaning(Head(inbox))
  BY <1>1, AnswerTaken DEF IsAnswer
<1>3. /\ client' \in Clients /\ client'.ending = "none" /\ client'.stage = next /\ client'.sent = client.sent
      /\ client'.dirty = client.dirty /\ client'.owner = client.owner
  BY <1>1 DEF Types, Clients, Stages
<1>4. Pinning' /\ Windows'
  BY <1>1, <1>2, <1>3 DEF Meaning, Pinning, Relying, Windows, Preflight, Ask
<1> QED BY <1>1, <1>3, <1>4, QuestionKeeps DEF Requests

LEMMA ReadyKeeps == RInv /\ Ready => RInv'
<1> SUFFICES ASSUME RInv, Ready PROVE RInv'
  OBVIOUS
<1> USE DEF RInv, serviceVars, history
<1>1. /\ client.stage = "repin" /\ inbox # <<>> /\ Head(inbox).type = "reply" /\ Consume /\ wire' = wire
      /\ UNCHANGED <<serviceVars, rules, served, history>>
  BY DEF Ready, Got
<1>2. /\ inbox' \in Seq(Messages) /\ Meaning(Head(inbox)) /\ Single(Q') /\ Elements(Q') \subseteq Elements(Q)
      /\ UNCHANGED instance /\ client'.owner = client.owner => (Followed => Followed')
  BY <1>1, AnswerTaken DEF IsAnswer
<1>3. CASE Answered = client.owner
  <2>1. client' = [client EXCEPT !.stage = "preflight"] /\ Ask("preflight")
    BY <1>3 DEF Ready, Goes
  <2>2. /\ client' \in Clients /\ client'.ending = "none" /\ client'.stage = "preflight"
        /\ client'.sent = client.sent /\ client'.dirty = client.dirty /\ client'.owner = client.owner
    BY <1>1, <2>1 DEF Types, Clients, Stages
  <2>3. Followed'
    BY <1>1, <1>2, <1>3, <2>2 DEF Meaning, Answered
  <2>4. Pinning' /\ Windows'
    BY <1>1, <2>1, <2>2, <2>3 DEF Pinning, Relying, Windows, Preflight, Ask
  <2> QED BY <1>1, <2>1, <2>2, <2>4, QuestionKeeps DEF Requests
<1>4. CASE Answered # client.owner
  <2>1. client' = Over("other") /\ UNCHANGED request
    BY <1>4 DEF Ready
  <2>2. /\ client' \in Clients /\ client'.stage = "over" /\ client'.ending = "other"
        /\ client'.sent = client.sent
    BY <2>1 DEF Over, Ended, Clients, Stages, Types
  <2> QED BY <1>1, <1>2, <2>1, <2>2, EndingKeeps
<1> QED BY <1>3, <1>4

LEMMA VerifiedKeeps == RInv /\ Verified => RInv'
<1> SUFFICES ASSUME RInv, Verified PROVE RInv'
  OBVIOUS
<1> USE DEF RInv, serviceVars, history
<1>1. /\ client.stage = "verify" /\ inbox # <<>> /\ Head(inbox).type = "reply" /\ Consume /\ wire' = wire
      /\ client' = [client EXCEPT !.stage = "confirm", !.dirty = @ \/ ~ Matches(Answered)]
      /\ Ask("confirm") /\ UNCHANGED <<serviceVars, rules, served, history>>
  BY DEF Verified, Got
<1>2. /\ Meaning(Head(inbox))
      /\ UNCHANGED instance /\ client'.owner = client.owner => (Followed => Followed')
  BY <1>1, AnswerTaken DEF IsAnswer
<1>3. client.dirty \in BOOLEAN
  BY DEF Types, Clients
<1>4. PICK dirty \in BOOLEAN : client' = [client EXCEPT !.stage = "confirm", !.dirty = dirty]
                               /\ (client.dirty => dirty)
  BY <1>1, <1>3
<1>5. /\ client' \in Clients /\ client'.ending = "none" /\ client'.stage = "confirm"
      /\ client'.sent = client.sent /\ client'.owner = client.owner /\ (client.dirty => client'.dirty)
  BY <1>1, <1>4 DEF Types, Clients, Stages
<1>6. Pinning' /\ Windows'
  BY <1>1, <1>2, <1>5 DEF Meaning, Pinning, Relying, Windows, Preflight, Ask
<1> QED BY <1>1, <1>5, <1>6, QuestionKeeps DEF Requests

LEMMA MethodRepliedKeeps == RInv /\ MethodReplied => RInv'
<1> SUFFICES ASSUME RInv, MethodReplied PROVE RInv'
  OBVIOUS
<1> USE DEF RInv, serviceVars, history
<1>1. /\ client.stage = "method" /\ inbox # <<>> /\ Head(inbox).type = "reply" /\ Consume /\ wire' = wire
      /\ client' = [client EXCEPT !.stage = "replied"]
      /\ UNCHANGED <<serviceVars, rules, request, served, history>>
  BY DEF MethodReplied, Got, Goes
<1>2. /\ inbox' \in Seq(Messages) /\ Meaning(Head(inbox)) /\ request = "none" /\ ~ late
      /\ Single(Q') /\ Unanswered(Q') /\ Elements(Q') \subseteq Elements(Q)
      /\ UNCHANGED instance /\ client'.owner = client.owner => (Followed => Followed')
      /\ contested => client.dirty \/ (window # "closed" /\ \E n \in Elements(Q') : Warns(n))
  BY <1>1, AnswerTaken DEF IsAnswer
<1>3. /\ client' \in Clients /\ client'.ending = "none" /\ client'.stage = "replied"
      /\ client'.sent = client.sent /\ client'.owner = client.owner /\ client'.dirty = client.dirty
  BY <1>1 DEF Types, Clients, Stages
<1>4. Types'
  BY <1>1, <1>2, <1>3 DEF Types, TypeOK, Clients
<1>5. Dialogue' /\ Pinning' /\ Windows'
  BY <1>1, <1>2, <1>3 DEF Dialogue, Silent, Meaning, Pinning, Relying, Windows, Preflight
<1>6. Answers'
  BY <1>2 DEF Answers, Meaning, Unanswered, IsAnswer
<1>7. Doubted' /\ Unsent' /\ Concluded'
  BY <1>1, <1>2, <1>3 DEF Doubted, Unsent, Concluded
<1> QED BY <1>4, <1>5, <1>6, <1>7

LEMMA AfterReplyKeeps == RInv /\ AfterReply => RInv'
<1> SUFFICES ASSUME RInv, AfterReply PROVE RInv'
  OBVIOUS
<1> USE DEF RInv, serviceVars, history
<1>1. client.stage = "replied" /\ UNCHANGED <<serviceVars, rules, wire, inbox, served, history>> /\ Q' = Q
  BY Quiet DEF AfterReply
<1>2. CASE Goes("verify") /\ Ask("verify")
  <2>1. /\ client' \in Clients /\ client'.ending = "none" /\ client'.stage = "verify" /\ request' = "verify"
        /\ client'.sent = client.sent /\ client'.owner = client.owner /\ client'.dirty = client.dirty
    BY <1>1, <1>2 DEF Types, Clients, Stages, Goes, Ask
  <2>2. Types'
    BY <1>1, <2>1 DEF Types, TypeOK, Clients, Stages, Requests
  <2>3. Dialogue' /\ Windows' /\ Doubted' /\ Unsent' /\ Concluded'
    BY <1>1, <2>1 DEF Dialogue, Silent, Windows, Preflight, Doubted, Unsent, Concluded
  <2>4. Pinning'
    BY <1>1, <2>1 DEF Pinning, Relying, Followed
  <2>5. Answers'
    BY <1>1, <2>1 DEF Answers, Meaning, Dialogue, Silent, Unanswered, IsAnswer
  <2> QED BY <2>2, <2>3, <2>4, <2>5
<1>3. CASE client' = Over("unknown") /\ UNCHANGED request
  <2>1. /\ client' \in Clients /\ client'.stage = "over" /\ client'.ending = "unknown"
        /\ client'.sent = client.sent
    BY <1>3 DEF Over, Ended, Clients, Stages, Types
  <2>2. inbox' \in Seq(Messages) /\ Single(Q')
    BY <1>1 DEF Types, Dialogue
  <2> QED BY <1>1, <1>3, <2>1, <2>2, EndingKeeps
<1> QED BY <1>2, <1>3 DEF AfterReply

LEMMA BeforeSendKeeps == RInv /\ BeforeSend => RInv'
<1> SUFFICES ASSUME RInv, BeforeSend PROVE RInv'
  OBVIOUS
<1> USE DEF RInv, serviceVars, history
<1>1. client.stage = "hook" /\ UNCHANGED <<serviceVars, rules, request, wire, inbox, served, history>> /\ Q' = Q
  BY Quiet DEF BeforeSend
<1>2. CASE client' = [client EXCEPT !.stage = "hooked"]
  <2>1. /\ client' \in Clients /\ client'.ending = "none" /\ client'.stage = "hooked"
        /\ client'.sent = client.sent /\ client'.owner = client.owner /\ client'.dirty = client.dirty
    BY <1>1, <1>2 DEF Types, Clients, Stages
  <2>2. Types'
    BY <1>1, <2>1 DEF Types, TypeOK, Clients, Stages
  <2>3. Dialogue' /\ Windows' /\ Doubted' /\ Unsent' /\ Concluded'
    BY <1>1, <2>1 DEF Dialogue, Silent, Windows, Preflight, Doubted, Unsent, Concluded, Types, Requests
  <2>4. Pinning'
    BY <1>1, <2>1 DEF Pinning, Relying, Followed
  <2>5. Answers'
    BY <1>1, <2>1 DEF Answers, Meaning, Dialogue, Silent, Unanswered, IsAnswer
  <2> QED BY <2>2, <2>3, <2>4, <2>5
<1>3. CASE client' = Over("unknown")
  <2>1. /\ client' \in Clients /\ client'.stage = "over" /\ client'.ending = "unknown"
        /\ client'.sent = client.sent
    BY <1>3 DEF Over, Ended, Clients, Stages, Types
  <2>2. inbox' \in Seq(Messages) /\ Single(Q')
    BY <1>1 DEF Types, Dialogue
  <2> QED BY <1>1, <2>1, <2>2, EndingKeeps
<1> QED BY <1>2, <1>3 DEF BeforeSend

(* A drain ends the call, or has found nothing that speaks against it.     *)
LEMMA DrainSettles ==
  ASSUME Types, NEW c \in Clients, c.stage # "over", c.ending = "none", NEW queue \in Seq(Messages)
  PROVE  LET d == Settled(Drained(c, queue)) IN
         /\ d \in Clients /\ d.sent = c.sent /\ d.owner = c.owner
         /\ \/ d.stage = "over" /\ d.ending \in {"unknown", "other"}
            \/ /\ d = c /\ ~ c.dirty
               /\ \A m \in Elements(queue) : m.type # "owner" /\ ~ Disturbs(c, m)
<1> DEFINE handled == {queue[i] : i \in {j \in DOMAIN queue : j <= CallbackLimit}}
           d == Settled(Drained(c, queue))
<1>1. CASE \E m \in handled : m.type = "owner"
  <2>1. Drained(c, queue) = OwnerGone(c)
    BY <1>1 DEF Drained
  <2>2. d = OwnerGone(c)
    BY <2>1 DEF Settled, OwnerGone, Ended, Clients
  <2> QED BY <2>2 DEF OwnerGone, Ended, Clients, Stages
<1>2. CASE ~ (\E m \in handled : m.type = "owner") /\ Len(queue) > CallbackLimit
  <2>1. Drained(c, queue) = Ended(c, "other")
    BY <1>2 DEF Drained
  <2>2. d = Ended(c, "other")
    BY <2>1 DEF Settled, Ended, Clients
  <2> QED BY <2>2 DEF Ended, Clients, Stages
<1>3. CASE ~ (\E m \in handled : m.type = "owner") /\ ~ (Len(queue) > CallbackLimit)
  <2>1. Elements(queue) = handled
    <3>1. Len(queue) \in Nat /\ DOMAIN queue = 1 .. Len(queue) /\ CallbackLimit \in Nat
      BY ConstantsAssumption
    <3>2. \A j \in 1 .. Len(queue) : j <= CallbackLimit
      BY <1>3, <3>1
    <3> QED BY <3>1, <3>2 DEF Elements
  <2> DEFINE seen == \E m \in handled : Disturbs(c, m)
             e == [c EXCEPT !.dirty = c.dirty \/ seen]
  <2>2. Drained(c, queue) = e
    BY <1>3 DEF Drained
  <2> HIDE DEF handled, seen
  <2>3. seen \in BOOLEAN /\ c.dirty \in BOOLEAN
    BY DEF seen, Clients
  <2>4. PICK dirty \in BOOLEAN : dirty = (c.dirty \/ seen)
    BY <2>3
  <2>5. e = [c EXCEPT !.dirty = dirty] /\ e \in Clients /\ e.dirty = dirty /\ e.stage = c.stage
        /\ e.sent = c.sent /\ e.owner = c.owner /\ e.ending = c.ending
    BY <2>4 DEF Clients
  <2> HIDE DEF e
  <2>6. CASE dirty
    <3>1. d = Ended(e, "other")
      BY <2>2, <2>5, <2>6 DEF Settled
    <3> QED BY <3>1, <2>5 DEF Ended, Clients, Stages
  <2>7. CASE ~ dirty
    <3>1. d = e
      BY <2>2, <2>5, <2>7 DEF Settled
    <3>2. e = c
      BY <2>4, <2>5, <2>7 DEF Clients
    <3>3. \A m \in Elements(queue) : m.type # "owner" /\ ~ Disturbs(c, m)
      BY <1>3, <2>1, <2>4, <2>7 DEF seen, handled
    <3> QED BY <3>1, <3>2, <3>3, <2>4, <2>7
  <2> QED BY <2>6, <2>7
<1> QED BY <1>1, <1>2, <1>3

(* What warns would have ended the drain.                                  *)
LEMMA WarningDisturbs == ASSUME NEW c, NEW m, Warns(m) PROVE m.type = "owner" \/ Disturbs(c, m)
BY DEF Warns, Disturbs

(* The inbox is emptied.                                                   *)
LEMMA AllTaken ==
  ASSUME Types, inbox' = <<>>, wire' = wire
  PROVE  /\ inbox' \in Seq(Messages) /\ Q' = wire
         /\ Elements(Q) = Elements(inbox) \cup Elements(Q') /\ Elements(Q') \subseteq Elements(Q)
         /\ Single(Q) => Single(Q')
         /\ Unanswered(Q) => Unanswered(Q')
<1>1. inbox \in Seq(Messages) /\ wire \in Seq(Messages) /\ <<>> \in Seq(Messages)
  BY DEF Types
<1>2. Q' = wire
  BY <1>1, Joined DEF Q
<1>3. Elements(Q) = Elements(inbox) \cup Elements(wire) /\ (Single(Q) => Single(wire))
  BY <1>1, Joined DEF Q
<1> QED BY <1>1, <1>2, <1>3 DEF Unanswered

LEMMA PreflightReadKeeps == RInv /\ PreflightRead => RInv'
<1> SUFFICES ASSUME RInv, PreflightRead PROVE RInv'
  OBVIOUS
<1> USE DEF RInv, serviceVars, history
<1>1. /\ client.stage = "preflight" /\ inbox # <<>> /\ Head(inbox).type = "reply" /\ wire' = wire
      /\ UNCHANGED <<serviceVars, rules, request, served, history>>
  BY DEF PreflightRead, Got
<1>2. CASE ~ StillConfirmed(Answered)
  <2>1. client' = Over("other") /\ Consume
    BY <1>2 DEF PreflightRead
  <2>2. /\ client' \in Clients /\ client'.stage = "over" /\ client'.ending = "other"
        /\ client'.sent = client.sent
    BY <2>1 DEF Over, Ended, Clients, Stages, Types
  <2>3. inbox' \in Seq(Messages) /\ Single(Q') /\ Elements(Q') \subseteq Elements(Q)
    BY <1>1, <2>1, AnswerTaken DEF IsAnswer
  <2> QED BY <1>1, <2>2, <2>3, EndingKeeps
<1>3. CASE StillConfirmed(Answered)
  <2> DEFINE c == [client EXCEPT !.stage = "hook"]  q == Tail(inbox)
  <2>1. client' = Settled(Drained(c, q)) /\ inbox' = <<>>
    BY <1>3 DEF PreflightRead
  <2>2. /\ c \in Clients /\ c.stage = "hook" /\ c.ending = "none" /\ c.sent = client.sent
        /\ c.owner = client.owner /\ c.dirty = client.dirty
    BY <1>1 DEF Types, Clients, Stages
  <2>3. q \in Seq(Messages) /\ Elements(inbox) = Elements(q) \cup {Head(inbox)} /\ Head(inbox) \in Messages
    BY <1>1, Taken DEF Types
  <2> HIDE DEF c, q
  <2>4. /\ client' \in Clients /\ client'.sent = c.sent /\ client'.owner = c.owner
        /\ \/ client'.stage = "over" /\ client'.ending \in {"unknown", "other"}
           \/ /\ client' = c /\ ~ c.dirty
              /\ \A m \in Elements(q) : m.type # "owner" /\ ~ Disturbs(c, m)
    BY <2>1, <2>2, <2>3, DrainSettles
  <2>5. /\ inbox' \in Seq(Messages)
        /\ Elements(Q) = Elements(inbox) \cup Elements(Q') /\ Elements(Q') \subseteq Elements(Q)
        /\ Single(Q')
    BY <1>1, <2>1, AllTaken DEF Dialogue
  <2>6. CASE client'.stage = "over"
    <3>1. client'.ending \in {"unknown", "other"} /\ client'.sent = client.sent
      BY <2>2, <2>4, <2>6
    <3> QED BY <1>1, <2>4, <2>5, <2>6, <3>1, EndingKeeps
  <2>7. CASE client'.stage # "over"
    <3>1. client' = c /\ ~ c.dirty /\ \A m \in Elements(q) : m.type # "owner" /\ ~ Disturbs(c, m)
      BY <2>4, <2>7
    <3>2. Head(inbox) \in Elements(Q) /\ Meaning(Head(inbox)) /\ ~ Unanswered(Q)
      BY <1>1, <2>3, <2>5 DEF Answers, Unanswered, IsAnswer
    <3>3. request = "none" /\ window = "open" /\ ~ late
      BY <1>1, <3>2 DEF Dialogue, Meaning, Unsent
    <3>4. Unanswered(Q')
      <4>1. inbox \in Seq(Messages) /\ wire \in Seq(Messages)
        BY DEF Types
      <4>2. Q # <<>> /\ Q \in Seq(Messages) /\ Tail(inbox) \o wire = Tail(Q) /\ Head(inbox) = Head(Q)
        BY <1>1, <4>1, Joined DEF Q
      <4>3. Unanswered(Tail(Q))
        BY <1>1, <4>2, Taken DEF Dialogue, IsAnswer
      <4>4. Elements(q \o wire) = Elements(q) \cup Elements(wire) /\ Q' = wire
        BY <1>1, <2>1, <2>3, <4>1, Joined, AllTaken
      <4> QED BY <4>2, <4>3, <4>4 DEF Unanswered, q
    <3>5. Types'
      BY <1>1, <2>2, <2>5, <3>1 DEF Types, TypeOK, Clients
    <3>6. Dialogue' /\ Windows'
      BY <1>1, <2>2, <2>5, <3>1, <3>3, <3>4 DEF Dialogue, Windows, Preflight
    <3>7. Followed => Followed'
      BY <1>1, <2>2, <2>3, <2>5, <3>1 DEF Followed
    <3>8. Pinning'
      BY <1>1, <2>2, <3>1, <3>7 DEF Pinning, Relying
    <3>9. Answers'
      BY <3>4 DEF Answers, Meaning, Unanswered, IsAnswer
    <3>10. \A m \in Elements(inbox) : ~ Warns(m)
      BY <1>1, <2>3, <3>1, WarningDisturbs DEF Warns
    <3>11. Doubted'
      BY <1>1, <2>2, <2>5, <3>1, <3>3, <3>10 DEF Doubted
    <3>12. Unsent' /\ Concluded'
      BY <1>1, <2>2, <3>1, <3>3 DEF Unsent, Concluded
    <3> QED BY <3>5, <3>6, <3>8, <3>9, <3>11, <3>12
  <2> QED BY <2>6, <2>7
<1> QED BY <1>2, <1>3

LEMMA DispatchKeeps == RInv /\ Dispatch => RInv'
<1> SUFFICES ASSUME RInv, Dispatch PROVE RInv'
  OBVIOUS
<1> USE DEF RInv, serviceVars, history
<1> DEFINE d == Settled(Drained(client, inbox))
<1>1. client.stage = "hooked" /\ inbox' = <<>> /\ wire' = wire /\ UNCHANGED <<serviceVars, rules, history>>
      /\ IF d.stage = "over" THEN client' = d /\ UNCHANGED <<request, served>>
         ELSE /\ client' = [d EXCEPT !.stage = "method", !.sent = TRUE]
              /\ request' = "method" /\ served' = "asked"
  BY DEF Dispatch, DispatchAfter, Ask
<1>2. client \in Clients /\ client.ending = "none" /\ inbox \in Seq(Messages)
  BY <1>1 DEF Types, Stages
<1>3. /\ d \in Clients /\ d.sent = client.sent /\ d.owner = client.owner
      /\ \/ d.stage = "over" /\ d.ending \in {"unknown", "other"}
         \/ /\ d = client /\ ~ client.dirty
            /\ \A m \in Elements(inbox) : m.type # "owner" /\ ~ Disturbs(client, m)
  BY <1>1, <1>2, DrainSettles
<1>4. /\ inbox' \in Seq(Messages)
      /\ Elements(Q) = Elements(inbox) \cup Elements(Q') /\ Elements(Q') \subseteq Elements(Q)
      /\ Single(Q') /\ Unanswered(Q')
  BY <1>1, AllTaken DEF Dialogue, Silent
<1> HIDE DEF d
<1>5. CASE d.stage = "over"
  <2>1. client' = d /\ UNCHANGED <<request, served>> /\ client'.ending \in {"unknown", "other"}
    BY <1>1, <1>2, <1>3, <1>5
  <2> QED BY <1>1, <1>3, <1>4, <1>5, <2>1, EndingKeeps
<1>6. CASE d.stage # "over"
  <2>1. /\ client' = [client EXCEPT !.stage = "method", !.sent = TRUE] /\ request' = "method" /\ served' = "asked"
        /\ ~ client.dirty /\ \A m \in Elements(inbox) : m.type # "owner" /\ ~ Disturbs(client, m)
    BY <1>1, <1>3, <1>6
  <2>2. /\ client' \in Clients /\ client'.ending = "none" /\ client'.stage = "method" /\ client'.sent
        /\ client'.owner = client.owner /\ client'.dirty = client.dirty
    BY <1>1, <1>2, <2>1 DEF Clients, Stages
  <2>3. Types'
    BY <1>1, <1>4, <2>1, <2>2 DEF Types, TypeOK, Clients, Requests, Stages
  <2>4. Dialogue' /\ Windows'
    BY <1>1, <1>4, <2>1, <2>2 DEF Dialogue, Silent, Windows, Preflight
  <2>5. Followed => Followed'
    BY <1>1, <1>4, <2>1, <2>2 DEF Followed
  <2>6. Pinning'
    BY <1>1, <2>2, <2>5 DEF Pinning, Relying
  <2>7. Answers'
    BY <1>4 DEF Answers, Meaning, Unanswered, IsAnswer
  <2>8. \A m \in Elements(inbox) : ~ Warns(m)
    BY <2>1, WarningDisturbs
  <2>9. Doubted'
    BY <1>1, <1>4, <2>1, <2>2, <2>8 DEF Doubted, Windows
  <2>10. ~ client.sent
    BY <1>1 DEF Windows
  <2>11. ~ late
    BY <1>1, <2>1, <2>10 DEF Unsent, Disturbs
  <2>12. Unsent' /\ Concluded'
    BY <1>1, <2>2, <2>11 DEF Unsent, Concluded
  <2> QED BY <2>3, <2>4, <2>6, <2>7, <2>9, <2>12
<1> QED BY <1>5, <1>6

LEMMA CompletedKeeps == RInv /\ Completed => RInv'
<1> SUFFICES ASSUME RInv, Completed PROVE RInv'
  OBVIOUS
<1> USE DEF RInv, serviceVars, history
<1> DEFINE q == Tail(inbox)  d == Settled(Drained(client, q))
<1>1. /\ client.stage = "confirm" /\ inbox # <<>> /\ Head(inbox).type = "reply"
      /\ client' = (IF Answered # client.owner THEN Over("other")
                    ELSE IF d.stage = "over" THEN d ELSE Ended(d, "verified"))
      /\ inbox' = <<>> /\ wire' = wire /\ UNCHANGED <<serviceVars, rules, request, served, history>>
  BY DEF Completed, Got
<1>2. client \in Clients /\ client.ending = "none" /\ client.stage # "over"
  BY <1>1 DEF Types, Stages
<1>3. q \in Seq(Messages) /\ Elements(inbox) = Elements(q) \cup {Head(inbox)} /\ Head(inbox) \in Messages
  BY <1>1, Taken DEF Types
<1> HIDE DEF q
<1>4. /\ d \in Clients /\ d.sent = client.sent
      /\ \/ d.stage = "over" /\ d.ending \in {"unknown", "other"}
         \/ d = client /\ ~ client.dirty
  BY <1>2, <1>3, DrainSettles
<1> HIDE DEF d
<1>5. /\ inbox' \in Seq(Messages) /\ Single(Q')
      /\ Elements(Q) = Elements(inbox) \cup Elements(Q') /\ Elements(Q') \subseteq Elements(Q)
  BY <1>1, AllTaken DEF Dialogue
<1>6. ~ Unanswered(Q)
  BY <1>1, <1>3, <1>5 DEF Unanswered, IsAnswer
<1>7. CASE client' = Over("other") \/ (d.stage = "over" /\ client' = d)
  <2>1. /\ client' \in Clients /\ client'.stage = "over" /\ client'.ending \in {"unknown", "other"}
        /\ client'.sent = client.sent
    BY <1>2, <1>4, <1>7 DEF Over, Ended, Clients, Stages
  <2> QED BY <1>1, <1>5, <2>1, EndingKeeps
<1>8. CASE client' = Ended(d, "verified") /\ d.stage # "over"
  <2>1. d = client /\ ~ client.dirty
    BY <1>4, <1>8
  <2>2. /\ client' \in Clients /\ client'.stage = "over" /\ client'.ending = "verified"
        /\ client'.sent = client.sent
    BY <1>2, <1>8, <2>1 DEF Ended, Clients, Stages
  <2>3. request = "none" /\ window = "closed" /\ served = "applied" /\ ~ late
    BY <1>1, <1>6 DEF Dialogue, Windows, Unsent
  <2>4. ~ contested
    <3>1. inbox \in Seq(Messages) /\ wire \in Seq(Messages)
      BY DEF Types
    <3>2. Q # <<>> /\ Q \in Seq(Messages) /\ Head(inbox) = Head(Q)
      BY <1>1, <3>1, Joined DEF Q
    <3>3. ~ InTime(Q)
      BY <1>1, <3>2, Taken DEF IsAnswer
    <3> QED BY <1>2, <2>1, <2>3, <3>3 DEF Doubted, Types
  <2>5. Types'
    BY <1>1, <1>5, <2>2 DEF Types, TypeOK, Clients
  <2>6. Dialogue' /\ Windows' /\ Doubted' /\ Unsent' /\ Concluded'
    BY <1>1, <1>5, <2>2, <2>3, <2>4 DEF Dialogue, Silent, Windows, Preflight, Doubted, Unsent, Concluded
  <2>7. Pinning'
    BY <1>1, <2>2 DEF Pinning, Relying
  <2>8. Answers'
    BY <2>2 DEF Answers, Meaning
  <2> QED BY <2>5, <2>6, <2>7, <2>8
<1> QED BY <1>1, <1>7, <1>8

LEMMA NoteSignalKeeps == RInv /\ NoteSignal => RInv'
<1> SUFFICES ASSUME RInv, NoteSignal PROVE RInv'
  OBVIOUS
<1> USE DEF RInv, serviceVars, history
<1> DEFINE m == Head(inbox)
<1>1. /\ client.stage \notin {"over", "hook", "hooked", "replied"}
      /\ inbox # <<>> /\ m.type \in {"changed", "owner"} /\ client' = Notified(client, m)
      /\ Consume /\ wire' = wire /\ UNCHANGED <<serviceVars, rules, request, served, history>>
  BY DEF NoteSignal, Consume
<1>2. /\ inbox' \in Seq(Messages) /\ m \in Messages
      /\ Elements(Q) = Elements(Q') \cup {m}
      /\ Single(Q) => Single(Q')
      /\ InTime(Q) => Warns(m) \/ InTime(Q')
  BY <1>1, OneTaken
<1> HIDE DEF m
<1>3. client \in Clients /\ client.ending = "none" /\ client.dirty \in BOOLEAN
  BY <1>1 DEF Types, Clients
<1>4. CASE m.type = "owner"
  <2>1. /\ client' \in Clients /\ client'.stage = "over" /\ client'.ending \in {"unknown", "other"}
        /\ client'.sent = client.sent
    BY <1>1, <1>3, <1>4 DEF Notified, OwnerGone, Ended, Clients, Stages
  <2> QED BY <1>1, <1>2, <2>1, EndingKeeps DEF Dialogue
<1>5. CASE m.type = "changed"
  <2>1. PICK dirty \in BOOLEAN : /\ client' = [client EXCEPT !.dirty = dirty]
                                 /\ dirty = (client.dirty \/ Disturbs(client, m))
    <3>1. client' = [client EXCEPT !.dirty = client.dirty \/ Disturbs(client, m)]
      BY <1>1, <1>5 DEF Notified
    <3>2. (client.dirty \/ Disturbs(client, m)) \in BOOLEAN
      OBVIOUS
    <3> QED BY <3>1, <3>2
  <2>2. /\ client' \in Clients /\ client'.stage = client.stage /\ client'.owner = client.owner
        /\ client'.sent = client.sent /\ client'.ending = "none" /\ client'.dirty = dirty
    BY <1>3, <2>1 DEF Clients
  <2>3. Types'
    BY <1>1, <1>2, <2>2 DEF Types, TypeOK, Clients
  <2>4. Unanswered(Q) => Unanswered(Q')
    BY <1>2 DEF Unanswered
  <2>5. Dialogue' /\ Windows'
    BY <1>1, <1>2, <2>2, <2>4 DEF Dialogue, Windows, Preflight
  <2>6. Followed => Followed'
    BY <1>1, <1>2, <1>5, <2>2 DEF Followed
  <2>7. Pinning' /\ Answers'
    BY <1>1, <1>2, <2>2, <2>6 DEF Pinning, Answers, Meaning
  <2>8. ~ late
    BY <1>1 DEF Unsent
  <2>9. Warns(m) => dirty
    BY <1>5, <2>1, WarningDisturbs
  <2>10. Doubted'
    BY <1>1, <1>2, <2>1, <2>2, <2>9 DEF Doubted
  <2>11. Unsent' /\ Concluded'
    BY <1>1, <2>2, <2>8 DEF Unsent, Concluded
  <2> QED BY <2>3, <2>5, <2>7, <2>10, <2>11
<1> QED BY <1>1, <1>4, <1>5

LEMMA ClientKeeps == RInv /\ Client => RInv'
BY ActivatedKeeps, PinnedKeeps, MatchAddedKeeps, ReadyKeeps, PreflightReadKeeps, BeforeSendKeeps,
   DispatchKeeps, MethodRepliedKeeps, AfterReplyKeeps, VerifiedKeeps, CompletedKeeps, NoteSignalKeeps,
   GetsErrorKeeps, GiveUpKeeps DEF Client

-----------------------------------------------------------------------------
(* The theorems.                                                           *)

LEMMA InitHolds == Init => RInv
<1> SUFFICES ASSUME Init PROVE RInv
  OBVIOUS
<1>1. /\ value \in Values /\ births = 0 /\ instance = 0 /\ writes = 0 /\ rules = {} /\ request = "activate"
      /\ inbox = <<>> /\ wire = <<>> /\ served = "untouched"
      /\ window = "before" /\ contested = FALSE /\ late = FALSE
      /\ client.stage = "activate" /\ client.owner = 0 /\ client.sent = FALSE /\ client.dirty = FALSE
      /\ client.ending = "none"
  BY DEF Init
<1>2. client \in Clients
  BY ConstantsAssumption DEF Init, Clients, Stages
<1>3. Q = <<>> /\ Elements(Q) = {} /\ Single(Q)
  BY <1>1 DEF Q, Elements, Single
<1>4. Types
  <2>1. TypeOK
    <3>1. 0 \in 0 .. InstancesMax /\ 0 \in 0 .. WritesMax
      BY ConstantsAssumption
    <3> QED BY <1>1, <3>1 DEF TypeOK, Stages
  <2>2. inbox \in Seq(Messages) /\ wire \in Seq(Messages)
    BY <1>1
  <2> QED BY <1>1, <1>2, <2>1, <2>2 DEF Types, Requests
<1>5. Dialogue /\ Pinning /\ Answers /\ Windows
  BY <1>1, <1>3 DEF Dialogue, Unanswered, Silent, Pinning, Relying, Answers, Windows, Preflight
<1>6. Doubted /\ Unsent /\ Concluded
  BY <1>1 DEF Doubted, Unsent, Concluded
<1> QED BY <1>4, <1>5, <1>6 DEF RInv

LEMMA NextKeeps == RInv /\ [Next]_vars => RInv'
<1> SUFFICES ASSUME RInv, [Next]_vars PROVE RInv'
  OBVIOUS
<1>1. CASE Service
  BY <1>1, ServiceKeeps
<1>2. CASE Client
  BY <1>2, ClientKeeps
<1>3. CASE UNCHANGED vars
  BY <1>3 DEF vars, serviceVars, history, RInv, Types, TypeOK, Dialogue, Pinning, Answers, Meaning, Followed,
              Windows, Preflight, Doubted, Unsent, Concluded, Q
<1> QED BY <1>1, <1>2, <1>3 DEF Next

LEMMA Invariance == Spec => []RInv
BY InitHolds, NextKeeps, PTL DEF Spec

(* Every variable keeps its type: values, instances and stages, and what   *)
(* the client believes (class RegionalMutation).                           *)
THEOREM TypeCorrect == Spec => []TypeOK
<1>1. RInv => TypeOK
  BY DEF RInv, Types
<1> QED BY <1>1, Invariance, PTL

(* A change reported as verified was made, and nobody wrote another value  *)
(* between the state the user confirmed and the state read back, however   *)
(* many clients write and however often the service exits and restarts     *)
(* (preflight_read to completed).                                          *)
THEOREM VerifiedIsUncontested == Spec => []SuccessIsUncontested
<1>1. RInv => SuccessIsUncontested
  BY DEF RInv, Concluded, SuccessIsUncontested
<1> QED BY <1>1, Invariance, PTL

(* A change that reaches the client while its operation is put on record   *)
(* keeps the request from being sent (the second drain of preflight_read). *)
THEOREM NothingIsSentBlindly == Spec => []NothingSentBlindly
<1>1. RInv => NothingSentBlindly
  BY DEF RInv, Unsent, NothingSentBlindly
<1> QED BY <1>1, Invariance, PTL

-----------------------------------------------------------------------------
(* The steps RegionalCall allows.                                          *)

CallStep == call' = call \/ call' \in RC!Successors(call)

LEMMA InitIsNewCall == Init => call = RC!NewCall
BY DEF Init, call, Stage, Preflight, RC!NewCall

(* A call that stays where it is, while the service may act on it.         *)
LEMMA ServiceStep ==
  ASSUME client' = client,
         served' = served \/ (served = "asked" /\ served' \in {"applied", "refused"})
  PROVE  CallStep
<1>1. Stage' = Stage
  BY DEF Stage, Preflight
<1>2. call' = [at |-> Stage, service |-> served', ending |-> client.ending]
  BY <1>1 DEF call
<1>3. CASE served' = served
  BY <1>2, <1>3 DEF CallStep, call
<1>4. CASE served = "asked" /\ served' \in {"applied", "refused"}
  <2>1. call' = [call EXCEPT !.service = served']
    BY <1>2 DEF call
  <2>2. call' \in RC!Serves(call)
    BY <1>4, <2>1 DEF RC!Serves, call
  <2> QED BY <2>2 DEF CallStep, RC!Successors
<1> QED BY <1>3, <1>4

LEMMA SameCall ==
  ASSUME NEW c \in RC!Calls, NEW d \in RC!Calls,
         c.at = d.at, c.service = d.service, c.ending = d.ending
  PROVE  c = d
BY DEF RC!Calls

LEMMA CallTyped == RInv => call \in RC!Calls
BY DEF RInv, Types, TypeOK, Clients, call, Stage, Preflight, RC!Calls, RC!Stages, RC!Service, RC!Endings

(* An ending the stage allows.                                             *)
LEMMA EndStep ==
  ASSUME call \in RC!Calls, client.stage # "over", client'.stage = "over", served' = served,
         client'.ending \in RC!MayEnd(call)
  PROVE  CallStep
<1>1. Stage' = "over"
  BY DEF Stage, Preflight
<1>2. PICK ending \in RC!MayEnd(call) : ending = client'.ending
  OBVIOUS
<1>3. ending \in RC!Endings
  BY DEF RC!MayEnd, RC!Endings
<1> DEFINE c == [at |-> "over", service |-> served, ending |-> ending]
<1>4. c \in RC!Calls /\ c.at = "over" /\ c.service = call.service /\ c.ending = ending
  BY <1>3 DEF call, RC!Calls, RC!Stages
<1>5. /\ RC!Over(call, ending) \in RC!Calls /\ RC!Over(call, ending).at = "over"
      /\ RC!Over(call, ending).service = call.service /\ RC!Over(call, ending).ending = ending
  BY <1>3 DEF RC!Over, RC!Calls, RC!Stages
<1>6. call' = c
  BY <1>1, <1>2 DEF call
<1> HIDE DEF c
<1>7. call' = RC!Over(call, ending)
  BY <1>4, <1>5, <1>6, SameCall
<1> QED BY <1>2, <1>7 DEF CallStep, RC!Successors

(* The next stage of the call.                                             *)
LEMMA ProceedStep ==
  ASSUME call' \in RC!Proceeds(call) \/ call' = call
  PROVE  CallStep
BY DEF CallStep, RC!Successors

LEMMA UnknownStep ==
  ASSUME call \in RC!Calls, client.stage \in Stages, client.stage # "over",
         client'.stage = "over", served' = served, client'.ending = "unknown"
  PROVE  CallStep
<1>1. "unknown" \in RC!MayEnd(call)
  BY DEF RC!MayEnd, call, Stage, Preflight, Stages
<1> QED BY <1>1, EndStep

LEMMA OtherStep ==
  ASSUME call \in RC!Calls, client.stage \in Stages, client.stage # "over",
         client'.stage = "over", served' = served, client'.ending \in {"other", "unknown"}, client.stage = "method" => served # "asked"
  PROVE  CallStep
<1>1. {"other", "unknown"} \subseteq RC!MayEnd(call)
  BY DEF RC!MayEnd, call, Stage, Preflight, Stages
<1> QED BY <1>1, EndStep

LEMMA CallSteps == RInv /\ [Next]_vars => CallStep
<1> SUFFICES ASSUME RInv, [Next]_vars PROVE CallStep
  OBVIOUS
<1> USE DEF RInv
<1>1. /\ client.stage \in Stages /\ served \in {"untouched", "asked", "applied", "refused"}
      /\ call \in RC!Calls
  BY CallTyped DEF Types, TypeOK
<1>2. CASE Service
  <2>1. client' = client
    BY <1>2 DEF Service, ForeignWrite, ServiceExits, BusAnswers, ServiceActivated, ServiceReads,
                ServiceApplies, ServiceAnswers, Arrive
  <2>2. CASE served' = served
    BY <2>1, <2>2, ServiceStep
  <2>3. CASE ServiceExits \/ BusAnswers
    BY <2>1, <2>3, ServiceStep DEF ServiceExits, BusAnswers
  <2>4. CASE ServiceApplies \/ ServiceAnswers
    <3>1. served \in {"asked", "applied"}
      BY <2>4 DEF ServiceApplies, ServiceAnswers, Dialogue
    <3> QED BY <2>1, <2>4, <3>1, ServiceStep DEF ServiceApplies, ServiceAnswers
  <2> QED BY <1>2, <2>2, <2>3, <2>4 DEF Service, ForeignWrite, ServiceActivated, ServiceReads, Arrive, history
<1>3. CASE Activated \/ Pinned \/ MatchAdded \/ AfterReply \/ Verified \/ BeforeSend
  <2>1. served' = served
    BY <1>3 DEF Activated, Pinned, MatchAdded, AfterReply, Verified, BeforeSend
  <2>2. CASE client' = Over("unknown")
    BY <1>1, <1>3, <2>1, <2>2, UnknownStep
       DEF Over, Ended, Got, Activated, Pinned, MatchAdded, AfterReply, Verified, BeforeSend, Types, Clients
  <2>3. CASE client' # Over("unknown")
    <3>1. /\ client'.ending = client.ending
          /\ \/ client.stage \in {"activate", "pin", "match", "match2"} /\ client'.stage \in {"pin", "match", "match2", "repin"}
             \/ client.stage = "hook" /\ client'.stage = "hooked"
             \/ client.stage \in {"replied", "verify"} /\ client'.stage \in {"verify", "confirm"}
      BY <1>3, <2>3 DEF Activated, Pinned, MatchAdded, AfterReply, Verified, BeforeSend, Goes, Got, Types, Clients
    <3>2. CASE client.stage = "hook" /\ client'.stage = "hooked"
      <4>1. call' = [call EXCEPT !.at = "ready"] /\ call.at = "preflight"
        BY <2>1, <3>1, <3>2 DEF call, Stage, Preflight
      <4> QED BY <4>1, ProceedStep DEF RC!Proceeds
    <3>3. CASE ~ (client.stage = "hook" /\ client'.stage = "hooked")
      <4>1. Stage' = Stage
        BY <3>1, <3>3 DEF Stage, Preflight
      <4> QED BY <2>1, <3>1, <4>1, ProceedStep DEF call
    <3> QED BY <3>2, <3>3
  <2> QED BY <2>2, <2>3
<1>4. CASE PreflightRead \/ Ready
  <2>1. served' = served /\ client.stage \in {"repin", "preflight"}
    BY <1>4 DEF PreflightRead, Ready, Got
  <2>2. RInv'
    BY <1>4, NextKeeps DEF Next, Client
  <2>3. CASE client'.stage = "over"
    <3>1. client'.ending \in {"other", "unknown"}
      <4>1. CASE client' = Over("other")
        BY <4>1 DEF Over, Ended, Types, Clients
      <4>2. CASE client' # Over("other")
        <5>1. inbox # <<>> /\ Tail(inbox) \in Seq(Messages)
              /\ client' = Settled(Drained([client EXCEPT !.stage = "hook"], Tail(inbox)))
          BY <1>4, <2>1, <2>3, <4>2, Taken DEF PreflightRead, Ready, Got, Goes, Types, Clients
        <5>2. [client EXCEPT !.stage = "hook"] \in Clients /\ [client EXCEPT !.stage = "hook"].stage = "hook"
              /\ [client EXCEPT !.stage = "hook"].ending = "none"
          BY <2>1 DEF Types, Clients, Stages
        <5> QED BY <2>3, <5>1, <5>2, DrainSettles
      <4> QED BY <4>1, <4>2
    <3> QED BY <1>1, <2>1, <2>3, <3>1, OtherStep
  <2>4. CASE client'.stage # "over"
    <3>1. client'.ending = client.ending
      BY <2>1, <2>2, <2>4 DEF Types
    <3>2. client'.stage \in {"preflight", "hook"}
      <4>1. CASE Ready
        BY <2>1, <2>4, <4>1 DEF Ready, Goes, Over, Ended, Types, Clients
      <4>2. CASE PreflightRead
        <5>1. inbox # <<>> /\ Tail(inbox) \in Seq(Messages)
              /\ client' = Settled(Drained([client EXCEPT !.stage = "hook"], Tail(inbox)))
          BY <2>4, <4>2, Taken DEF PreflightRead, Got, Over, Ended, Types, Clients
        <5>2. [client EXCEPT !.stage = "hook"] \in Clients /\ [client EXCEPT !.stage = "hook"].stage = "hook"
              /\ [client EXCEPT !.stage = "hook"].ending = "none"
          BY <2>1 DEF Types, Clients, Stages
        <5> QED BY <2>4, <5>1, <5>2, DrainSettles
      <4> QED BY <1>4, <4>1, <4>2
    <3>3. Stage' = Stage
      BY <2>1, <3>2 DEF Stage, Preflight
    <3> QED BY <2>1, <3>1, <3>3, ProceedStep DEF call
  <2> QED BY <2>3, <2>4
<1>5. CASE Dispatch
  <2> DEFINE d == Settled(Drained(client, inbox))
  <2>1. client.stage = "hooked" /\ client.ending = "none" /\ client \in Clients /\ inbox \in Seq(Messages)
    BY <1>5 DEF Dispatch, Types
  <2>2. IF d.stage = "over" THEN client' = d /\ UNCHANGED served
        ELSE client' = [d EXCEPT !.stage = "method", !.sent = TRUE] /\ served' = "asked"
    BY <1>5 DEF Dispatch, DispatchAfter
  <2>3. (d.stage = "over" /\ d.ending \in {"unknown", "other"}) \/ d = client
    BY <2>1, DrainSettles
  <2> HIDE DEF d
  <2>4. CASE d.stage = "over"
    <3>1. client'.stage = "over" /\ client'.ending \in {"unknown", "other"} /\ served' = served
      BY <2>1, <2>2, <2>3, <2>4
    <3> QED BY <1>1, <2>1, <3>1, OtherStep
  <2>5. CASE d.stage # "over"
    <3>1. client'.stage = "method" /\ client'.ending = client.ending /\ served' = "asked"
      BY <2>1, <2>2, <2>3, <2>5 DEF Clients
    <3> DEFINE c == [call EXCEPT !.at = "sent", !.service = "asked"]
    <3>2. c \in RC!Calls /\ c.at = "sent" /\ c.service = "asked" /\ c.ending = call.ending
      BY <1>1 DEF RC!Calls, RC!Stages, RC!Service
    <3>3. call' = [at |-> "sent", service |-> "asked", ending |-> client.ending]
      BY <2>1, <3>1 DEF call, Stage, Preflight
    <3>4. call' \in RC!Calls
      BY <2>1, <3>3 DEF RC!Calls, RC!Stages, RC!Service, RC!Endings
    <3>5. call.at = "ready" /\ call'.at = "sent" /\ call'.service = "asked" /\ call'.ending = call.ending
      BY <2>1, <3>1 DEF call, Stage, Preflight
    <3>6. call' = c
      BY <3>2, <3>4, <3>5, SameCall
    <3> QED BY <3>5, <3>6, ProceedStep DEF RC!Proceeds
  <2> QED BY <2>4, <2>5
<1>6. CASE MethodReplied
  <2>1. /\ client.stage = "method" /\ client' = [client EXCEPT !.stage = "replied"] /\ served' = served
        /\ inbox # <<>> /\ Head(inbox).type = "reply" /\ Consume /\ wire' = wire
    BY <1>6 DEF MethodReplied, Got, Goes
  <2>2. served = "applied"
    BY <2>1, AnswerTaken DEF Meaning, IsAnswer
  <2>3. client'.stage = "replied" /\ client'.ending = client.ending
    BY <2>1 DEF Types, Clients
  <2>4. call.at = "sent" /\ call.service = "applied" /\ call' = [call EXCEPT !.at = "accepted"]
    BY <2>1, <2>2, <2>3 DEF call, Stage, Preflight
  <2> QED BY <2>4, ProceedStep DEF RC!Proceeds
<1>7. CASE Completed
  <2>1. client.stage = "confirm" /\ served' = served
    BY <1>7 DEF Completed, Got
  <2>2. RInv'
    BY <1>7, NextKeeps DEF Next, Client
  <2>3. client'.stage = "over"
    BY <1>7 DEF Completed, Over, Ended, Types, Clients, Settled
  <2>4. client'.ending \in {"verified", "unknown", "other", "denied"}
    BY <2>2, <2>3 DEF Types, Clients
  <2>5. client'.ending \in RC!MayEnd(call)
    BY <2>1, <2>4 DEF RC!MayEnd, call, Stage, Preflight
  <2> QED BY <1>1, <2>1, <2>3, <2>5, EndStep
<1>8. CASE NoteSignal
  <2>1. /\ client.stage \notin {"over", "hook", "hooked", "replied"} /\ served' = served
        /\ client' = Notified(client, Head(inbox)) /\ client \in Clients
    BY <1>8 DEF NoteSignal, Types
  <2>2. CASE Head(inbox).type = "owner"
    <3>1. client'.stage = "over" /\ client'.ending = (IF client.sent THEN "unknown" ELSE "other")
      BY <2>1, <2>2 DEF Notified, OwnerGone, Ended, Clients
    <3>2. CASE client.sent
      BY <1>1, <2>1, <3>1, <3>2, UnknownStep
    <3>3. CASE ~ client.sent
      <4>1. client.stage # "method"
        BY <3>3 DEF Windows, Preflight
      <4> QED BY <1>1, <2>1, <3>1, <3>3, <4>1, OtherStep
    <3> QED BY <3>2, <3>3
  <2>3. CASE Head(inbox).type # "owner"
    <3>1. client'.stage = client.stage /\ client'.ending = client.ending
      BY <2>1, <2>3 DEF Notified, Clients
    <3>2. Stage' = Stage
      BY <3>1 DEF Stage, Preflight
    <3> QED BY <2>1, <3>1, <3>2, ProceedStep DEF call
  <2> QED BY <2>2, <2>3
<1>9. CASE GetsError
  <2>1. /\ client.stage # "over" /\ inbox # <<>> /\ Head(inbox).type = "error" /\ Consume /\ wire' = wire
        /\ served' = served
    BY <1>9 DEF GetsError
  <2>2. PICK ending \in ErrorEndings : client' = Over(ending)
    BY <1>9 DEF GetsError
  <2>3. client'.stage = "over" /\ client'.ending = ending
    BY <2>2 DEF Over, Ended, Types, Clients
  <2>4. Meaning(Head(inbox)) /\ client.stage \notin Silent
    BY <2>1, AnswerTaken DEF IsAnswer
  <2>5. ending \in {"denied", "unknown", "other"} /\ (ending = "denied" => Head(inbox).what = "denied")
    BY DEF ErrorEndings, Answered
  <2>6. client'.ending \in RC!MayEnd(call)
    <3>1. CASE client.stage = "method"
      <4>1. call.at = "sent" /\ call.service = served /\ served # "asked" /\ (ending = "denied" => served = "refused")
        BY <2>1, <2>4, <2>5, <3>1 DEF Meaning, call, Stage, Preflight
      <4> QED BY <2>3, <2>5, <4>1 DEF RC!MayEnd
    <3>2. CASE client.stage # "method"
      <4>1. call.at \in {"preflight", "accepted"}
        BY <1>1, <2>1, <2>4, <3>2 DEF call, Stage, Preflight, Stages, Silent
      <4> QED BY <2>3, <2>5, <4>1 DEF RC!MayEnd
    <3> QED BY <3>1, <3>2
  <2> QED BY <1>1, <2>1, <2>3, <2>6, EndStep
<1>10. CASE GiveUp
  <2>1. client.stage # "over" /\ client'.stage = "over" /\ client'.ending = "unknown" /\ served' = served
    BY <1>10 DEF GiveUp, Over, Ended, Types, Clients
  <2> QED BY <1>1, <2>1, UnknownStep
<1>11. CASE UNCHANGED vars
  BY <1>11, ServiceStep DEF vars
<1> QED BY <1>2, <1>3, <1>4, <1>5, <1>6, <1>7, <1>8, <1>9, <1>10, <1>11 DEF Next, Client

(* The client implements the call its owner relies on: a request goes out  *)
(* after its hook and not before, and every ending but "unknown" says what *)
(* the service did (run, bus_failure, owner_changed, completed).           *)
THEOREM CallIsKept == Spec => CallSpec
<1>1. RInv /\ [Next]_vars => [call' \in RC!Successors(call)]_call
  BY CallSteps DEF CallStep
<1> QED BY <1>1, InitIsNewCall, Invariance, PTL DEF Spec, CallSpec
=============================================================================
