------------------------- MODULE DomainWatchProofs -------------------------
(***************************************************************************)
(* Why a monitor that stopped is retired before its domain starts again.   *)
(*                                                                         *)
(* A subscription exists in one place at a time: as a "start" the process  *)
(* has yet to read, as its monitor, or as a "stopped" the shell has yet to *)
(* route.  While one does the hub has it as subscribed or as retiring,     *)
(* unless it is stopping the process altogether, and it writes a "start"   *)
(* only when it has it as neither.                                         *)
(***************************************************************************)
EXTENDS DomainWatch, SequenceTheorems, TLAPS

Words   == {"start", "stop"}
Records == {"ready", "changed", "stopped"}

Monitors ==
  [stage : {"none", "connect", "match1", "name1", "match2", "name2", "live"},
   owner : Nat, moved : BOOLEAN, dirty : BOOLEAN, stopped : BOOLEAN]

Messages == [type : {"owner", "changed", "match", "name"}, who : Nat]

Phases == {"idle", "initial-pending", "initial-active", "settling-pending", "settling-active", "blocked"}
Reads  == {"none", "started", "current", "old", "void"}
Pages  == {"old", "current"}
Orders == {"none", "launch", "signal"}

Shells ==
  [visible : BOOLEAN, ready : BOOLEAN, failed : BOOLEAN,
   attached : BOOLEAN, others : BOOLEAN,
   phase : Phases, dirty : BOOLEAN, force : BOOLEAN, again : BOOLEAN, unresolved : BOOLEAN,
   read : Reads, shown : Pages,
   subscribed : BOOLEAN, known : BOOLEAN, queued : BOOLEAN,
   retiring : BOOLEAN, started : BOOLEAN, stopping : BOOLEAN,
   out : Seq(Words), order : Orders]

(* One type invariant.                                                     *)
TypeOK ==
  /\ service \in Nat /\ births \in Nat
  /\ rules \subseteq {"owner", "properties"} /\ asked \in BOOLEAN
  /\ wire \in Seq(Messages)
  /\ mon \in Monitors
  /\ process \in {"off", "spawned", "up", "term"}
  /\ stdin \in Seq(Words) /\ stdout \in Seq(Records)
  /\ shell \in Shells

-----------------------------------------------------------------------------
(* Without a monitor nothing is under way on the bus.                      *)
Silent == mon.stage = "none" => wire = <<>> /\ rules = {} /\ ~ asked

(* Where a subscription can be.                                            *)

Has(queue, what)  == \E k \in 1 .. Len(queue) : queue[k] = what
Once(queue, what) == \A j, k \in 1 .. Len(queue) : queue[j] = what /\ queue[k] = what => j = k

Starting == Has(stdin, "start")
Watched  == mon.stage # "none"
Ended    == Has(stdout, "stopped")

InOnePlace ==
  /\ ~ (Starting /\ Watched) /\ ~ (Starting /\ Ended) /\ ~ (Watched /\ Ended)
  /\ Once(stdin, "start") /\ Once(stdout, "stopped")

Accounted ==
  /\ Starting \/ Watched \/ Ended => /\ shell.started
                                     /\ shell.stopping \/ shell.subscribed \/ shell.retiring
  /\ ~ (shell.subscribed /\ shell.retiring)
  /\ shell.subscribed => shell.started

IInv ==
  /\ TypeOK
  /\ InOnePlace /\ Accounted /\ Silent
  /\ mon.stopped => Watched
  /\ shell.out = <<>>

-----------------------------------------------------------------------------
(* Queues.                                                                 *)

LEMMA TailHas ==
  ASSUME NEW S, NEW queue \in Seq(S), NEW what, queue # <<>>, Once(queue, what)
  PROVE  /\ Tail(queue) \in Seq(S) /\ Head(queue) \in S
         /\ Once(Tail(queue), what)
         /\ Has(Tail(queue), what) => Has(queue, what)
         /\ Head(queue) = what => Has(queue, what) /\ ~ Has(Tail(queue), what)
<1>1. /\ Len(queue) \in Nat \ {0} /\ Len(Tail(queue)) = Len(queue) - 1
      /\ Head(queue) = queue[1] /\ \A k \in 1 .. Len(Tail(queue)) : Tail(queue)[k] = queue[k + 1]
      /\ Tail(queue) \in Seq(S) /\ Head(queue) \in S
  BY HeadTailProperties, EmptySeq, LenProperties
<1>2. \A k \in 1 .. Len(Tail(queue)) : k + 1 \in 1 .. Len(queue) /\ k + 1 # 1
  BY <1>1
<1>3. Once(Tail(queue), what)
  <2>1. ASSUME NEW j \in 1 .. Len(Tail(queue)), NEW k \in 1 .. Len(Tail(queue)),
               Tail(queue)[j] = what, Tail(queue)[k] = what
        PROVE  j = k
    <3>1. j + 1 = k + 1
      BY <1>1, <1>2, <2>1 DEF Once
    <3> QED BY <1>1, <3>1
  <2> QED BY <2>1 DEF Once
<1>4. Has(Tail(queue), what) => Has(queue, what)
  BY <1>1, <1>2 DEF Has
<1>5. ASSUME Head(queue) = what PROVE Has(queue, what) /\ ~ Has(Tail(queue), what)
  <2>1. 1 \in 1 .. Len(queue)
    BY <1>1
  <2>2. ASSUME NEW k \in 1 .. Len(Tail(queue)), Tail(queue)[k] = what PROVE FALSE
    BY <1>1, <1>2, <1>5, <2>1, <2>2 DEF Once
  <2> QED BY <1>1, <1>5, <2>1, <2>2 DEF Has
<1> QED BY <1>1, <1>3, <1>4, <1>5

LEMMA MoreHas ==
  ASSUME NEW S, NEW queue \in Seq(S), NEW more \in Seq(S), NEW what,
         Once(queue, what), Once(more, what), ~ (Has(queue, what) /\ Has(more, what))
  PROVE  /\ queue \o more \in Seq(S)
         /\ Once(queue \o more, what)
         /\ Has(queue \o more, what) <=> Has(queue, what) \/ Has(more, what)
<1> DEFINE all == queue \o more
           n == Len(queue)
<1>1. /\ all \in Seq(S) /\ n \in Nat /\ Len(more) \in Nat /\ Len(all) = n + Len(more)
      /\ \A k \in 1 .. n : all[k] = queue[k]
      /\ \A k \in 1 .. Len(more) : all[n + k] = more[k]
  BY ConcatProperties, LenProperties
<1>2. \A k \in 1 .. Len(all) : k \in 1 .. n \/ (k - n \in 1 .. Len(more) /\ n + (k - n) = k)
  BY <1>1
<1>3. ASSUME NEW k \in 1 .. Len(all), all[k] = what
      PROVE  (k \in 1 .. n /\ queue[k] = what) \/ (k - n \in 1 .. Len(more) /\ more[k - n] = what)
  <2>1. k \in 1 .. n \/ (k - n \in 1 .. Len(more) /\ n + (k - n) = k)
    BY <1>2
  <2>2. k \in 1 .. n => queue[k] = what
    BY <1>1, <1>3
  <2>3. k - n \in 1 .. Len(more) /\ n + (k - n) = k => more[k - n] = what
    BY <1>1, <1>3
  <2> HIDE DEF all, n
  <2> QED BY <2>1, <2>2, <2>3
<1>4. Once(all, what)
  <2>1. ASSUME NEW j \in 1 .. Len(all), NEW k \in 1 .. Len(all), all[j] = what, all[k] = what
        PROVE  j = k
    <3>1. CASE Has(queue, what)
      BY <1>3, <2>1, <3>1 DEF Has, Once
    <3>2. CASE ~ Has(queue, what)
      <4>1. j - n = k - n
        BY <1>3, <2>1, <3>2 DEF Has, Once
      <4> QED BY <1>1, <2>1, <4>1
    <3> QED BY <3>1, <3>2
  <2> QED BY <2>1 DEF Once
<1>5. Has(all, what) => Has(queue, what) \/ Has(more, what)
  BY <1>3 DEF Has
<1>6. Has(queue, what) \/ Has(more, what) => Has(all, what)
  <2>1. \A k \in 1 .. n : k \in 1 .. Len(all)
    BY <1>1
  <2>2. \A k \in 1 .. Len(more) : n + k \in 1 .. Len(all)
    BY <1>1
  <2> QED BY <1>1, <2>1, <2>2 DEF Has
<1> QED BY <1>1, <1>4, <1>5, <1>6

(* The few sequences anyone adds at once.                                  *)
LEMMA Few ==
  /\ \A what : Once(<<>>, what) /\ ~ Has(<<>>, what)
  /\ \A word, what : Once(<<word>>, what) /\ (Has(<<word>>, what) <=> word = what)
  /\ \A one, two, what : one # what /\ two # what =>
        Once(<<one, two>>, what) /\ ~ Has(<<one, two>>, what)
<1>1. \A what : Once(<<>>, what) /\ ~ Has(<<>>, what)
  BY DEF Once, Has
<1>2. ASSUME NEW word, NEW what PROVE Once(<<word>>, what) /\ (Has(<<word>>, what) <=> word = what)
  <2>1. Len(<<word>>) = 1 /\ <<word>>[1] = word
    OBVIOUS
  <2>2. 1 .. 1 = {1}
    OBVIOUS
  <2> QED BY <2>1, <2>2 DEF Once, Has
<1>3. ASSUME NEW one, NEW two, NEW what, one # what, two # what
      PROVE  Once(<<one, two>>, what) /\ ~ Has(<<one, two>>, what)
  <2>1. Len(<<one, two>>) = 2 /\ <<one, two>>[1] = one /\ <<one, two>>[2] = two
    OBVIOUS
  <2>2. 1 .. 2 = {1, 2}
    OBVIOUS
  <2> QED BY <1>3, <2>1, <2>2 DEF Once, Has
<1> QED BY <1>1, <1>2, <1>3

-----------------------------------------------------------------------------
(* Handlers of the shell.                                                  *)

(* A handler that leaves the hub's subscription alone.                     *)
Steady(s, t) ==
  /\ t \in Shells
  /\ t.subscribed = s.subscribed /\ t.retiring = s.retiring
  /\ t.started = s.started /\ t.stopping = s.stopping /\ t.out = s.out

(* One that starts it, gives it up, or stops the process.                  *)
Starts(s, t) ==
  /\ t \in Shells
  /\ s.started /\ ~ s.stopping /\ ~ s.subscribed /\ ~ s.retiring
  /\ t.started /\ ~ t.stopping /\ t.subscribed /\ ~ t.retiring /\ t.out = <<"start">>

Retires(s, t) ==
  /\ t \in Shells
  /\ s.subscribed
  /\ t.started = s.started /\ t.stopping = s.stopping
  /\ ~ t.subscribed /\ t.retiring /\ t.out = <<"stop">>

Stops(s, t) ==
  /\ t \in Shells
  /\ t.started = s.started /\ t.stopping
  /\ t.subscribed = s.subscribed /\ t.retiring = s.retiring /\ t.out = s.out

Handles(s, t) == Steady(s, t) \/ Starts(s, t) \/ Retires(s, t) \/ Stops(s, t)

LEMMA SteadyFirst ==
  ASSUME NEW s, NEW t, NEW u, Steady(s, t), Handles(t, u)
  PROVE  Handles(s, u)
BY DEF Steady, Starts, Retires, Stops, Handles

LEMMA Values ==
  /\ \A s : Voided(s) \in Reads
  /\ {"idle", "initial-pending"} \subseteq Phases /\ "old" \in Pages
  /\ {"launch", "signal"} \subseteq Orders
BY DEF Voided, Reads, Phases, Pages, Orders

LEMMA CycleSteady ==
  ASSUME NEW s \in Shells
  PROVE  Steady(s, BeginCycle(s)) /\ Steady(s, Invalidate(s)) /\ Steady(s, CloseCycle(s))
<1>0. Voided(s) \in Reads /\ "idle" \in Phases /\ "initial-pending" \in Phases /\ "old" \in Pages
  BY Values
<1>1. Steady(s, BeginCycle(s))
  <2>1. BeginCycle(s) \in Shells
    BY <1>0 DEF BeginCycle, Shells
  <2>2. /\ BeginCycle(s).subscribed = s.subscribed /\ BeginCycle(s).retiring = s.retiring
        /\ BeginCycle(s).started = s.started /\ BeginCycle(s).stopping = s.stopping
        /\ BeginCycle(s).out = s.out
    BY DEF BeginCycle, Shells
  <2> QED BY <2>1, <2>2 DEF Steady
<1>2. Steady(s, CloseCycle(s))
  BY <1>0 DEF CloseCycle, Steady, Shells
<1>3. Steady(s, [s EXCEPT !.dirty = TRUE]) /\ Steady(s, [s EXCEPT !.again = TRUE, !.unresolved = TRUE])
  BY DEF Steady, Shells
<1>4. Steady(s, s)
  BY DEF Steady
<1> QED BY <1>1, <1>2, <1>3, <1>4 DEF Invalidate

LEMMA ClientSteady ==
  ASSUME NEW s \in Shells
  PROVE  /\ Steady(s, Launch(s)) /\ Steady(s, End(s))
         /\ \A b \in BOOLEAN : Steady(s, [s EXCEPT !.others = b]) /\ Steady(s, [s EXCEPT !.visible = b])
         /\ \A b \in BOOLEAN : Steady(s, [s EXCEPT !.ready = b]) /\ Steady(s, [s EXCEPT !.queued = b])
         /\ \A b \in BOOLEAN : Steady(s, [s EXCEPT !.known = b]) /\ Steady(s, [s EXCEPT !.failed = b])
         /\ Steady(s, [s EXCEPT !.attached = FALSE, !.ready = FALSE])
         /\ Steady(s, [s EXCEPT !.attached = TRUE, !.ready = FALSE, !.failed = FALSE])
         /\ Steady(s, s)
<1>1. Steady(s, [s EXCEPT !.order = "launch"]) /\ Steady(s, s)
  BY Values DEF Steady, Shells
<1>2. Steady(s, [s EXCEPT !.attached = FALSE, !.ready = FALSE, !.failed = TRUE])
  BY DEF Steady, Shells
<1>3. \A b \in BOOLEAN : Steady(s, [s EXCEPT !.others = b]) /\ Steady(s, [s EXCEPT !.visible = b])
  BY DEF Steady, Shells
<1>4. \A b \in BOOLEAN : Steady(s, [s EXCEPT !.ready = b]) /\ Steady(s, [s EXCEPT !.queued = b])
  BY DEF Steady, Shells
<1>5. \A b \in BOOLEAN : Steady(s, [s EXCEPT !.known = b]) /\ Steady(s, [s EXCEPT !.failed = b])
  BY DEF Steady, Shells
<1>6. Steady(s, [s EXCEPT !.attached = FALSE, !.ready = FALSE])
  BY DEF Steady, Shells
<1>7. Steady(s, [s EXCEPT !.attached = TRUE, !.ready = FALSE, !.failed = FALSE])
  BY DEF Steady, Shells
<1> QED BY <1>1, <1>2, <1>3, <1>4, <1>5, <1>6, <1>7 DEF Launch, End

LEMMA SubscribeStarts ==
  ASSUME NEW s \in Shells, s.started, ~ s.stopping, ~ s.subscribed, ~ s.retiring, s.out = <<>>
  PROVE  Starts(s, Subscribe(s))
<1>1. Append(s.out, "start") = <<"start">> /\ <<"start">> \in Seq(Words)
  BY DEF Words
<1>2. PICK out \in Seq(Words) : out = Append(s.out, "start")
  BY <1>1
<1>3. Subscribe(s) = [s EXCEPT !.subscribed = TRUE, !.known = FALSE, !.out = out]
  BY <1>2 DEF Subscribe
<1>4. [s EXCEPT !.subscribed = TRUE, !.known = FALSE, !.out = out] \in Shells
  BY DEF Shells
<1> QED BY <1>1, <1>2, <1>3, <1>4 DEF Starts, Shells

LEMMA AttachHandles ==
  ASSUME NEW s \in Shells, s.out = <<>>
  PROVE  Handles(s, Attach(s))
<1> DEFINE a == [s EXCEPT !.attached = TRUE, !.ready = FALSE, !.failed = FALSE]
<1>1. Steady(s, a)
  BY ClientSteady
<1>2. a \in Shells /\ a.out = <<>>
  BY <1>1 DEF Steady
<1> HIDE DEF a
<1>3. CASE Serving(a) /\ ~ a.retiring /\ ~ a.subscribed
  BY <1>1, <1>2, <1>3, SubscribeStarts, SteadyFirst DEF Attach, a, Serving, Handles
<1>4. CASE ~ Serving(a)
  <2>1. Steady([a EXCEPT !.queued = TRUE], Launch([a EXCEPT !.queued = TRUE])) /\ Steady(a, [a EXCEPT !.queued = TRUE])
    BY <1>2, ClientSteady DEF Steady
  <2> QED BY <1>1, <1>4, <2>1, SteadyFirst DEF Attach, a, Handles
<1>5. CASE Serving(a) /\ a.retiring
  BY <1>1, <1>5 DEF Attach, a, Handles
<1>6. CASE Serving(a) /\ ~ a.retiring /\ a.subscribed
  <2>1. a.known \in BOOLEAN
    BY <1>2 DEF Shells
  <2>2. Steady(a, [a EXCEPT !.ready = a.known])
    BY <1>2, <2>1, ClientSteady
  <2> QED BY <1>1, <1>6, <2>2, SteadyFirst DEF Attach, a, Handles
<1> QED BY <1>3, <1>4, <1>5, <1>6

LEMMA DetachHandles ==
  ASSUME NEW s \in Shells, NEW retire \in BOOLEAN, s.out = <<>>
  PROVE  Handles(s, Leaving(s, retire)) /\ Handles(s, Detach(s, retire))
<1>1. ASSUME NEW u \in Shells, u.out = <<>> PROVE Handles(u, Leaving(u, retire))
  <2>1. Stops(u, [u EXCEPT !.stopping = TRUE, !.queued = FALSE, !.order = "signal"])
    <3>1. [u EXCEPT !.stopping = TRUE, !.queued = FALSE, !.order = "signal"] \in Shells
      BY Values DEF Shells
    <3> QED BY <3>1 DEF Stops, Shells
  <2>2. u.subscribed =>
          Retires(u, [u EXCEPT !.subscribed = FALSE, !.known = FALSE, !.retiring = TRUE, !.out = Append(@, "stop")])
    <3>1. Append(u.out, "stop") = <<"stop">> /\ <<"stop">> \in Seq(Words)
      BY <1>1 DEF Words
    <3>2. PICK out \in Seq(Words) : out = Append(u.out, "stop")
      BY <3>1
    <3>3. [u EXCEPT !.subscribed = FALSE, !.known = FALSE, !.retiring = TRUE, !.out = out] \in Shells
      BY ZenonT(60) DEF Shells
    <3> QED BY <3>1, <3>2, <3>3 DEF Retires, Shells
  <2> QED BY <2>1, <2>2, ClientSteady DEF Leaving, Handles
<1>2. Steady(s, [s EXCEPT !.attached = FALSE, !.ready = FALSE])
  BY ClientSteady
<1> QED BY <1>1, <1>2, SteadyFirst DEF Detach, Steady

LEMMA DeliverHandles ==
  ASSUME NEW s \in Shells, NEW record, s.out = <<>>
  PROVE  Handles(s, Fail(s)) /\ Handles(s, Deliver(s, record))
<1>1. Handles(s, Fail(s))
  <2>1. Steady(s, [s EXCEPT !.failed = TRUE]) /\ Steady(s, s)
    BY ClientSteady
  <2>2. Handles([s EXCEPT !.failed = TRUE], Detach([s EXCEPT !.failed = TRUE], TRUE))
    BY <2>1, DetachHandles DEF Steady
  <2> QED BY <2>1, <2>2, SteadyFirst DEF Fail, Handles
<1>2. Steady(s, s) /\ Steady(s, [s EXCEPT !.ready = TRUE]) /\ Steady(s, Invalidate(s))
  BY ClientSteady, CycleSteady
<1> QED BY <1>1, <1>2 DEF Deliver, Handles

LEMMA EndSteady ==
  ASSUME NEW s \in Shells
  PROVE  /\ End(s) \in Shells /\ End(s).subscribed = s.subscribed /\ End(s).retiring = s.retiring
         /\ End(s).started = s.started /\ End(s).stopping = s.stopping /\ End(s).out = s.out
BY ClientSteady DEF Steady

LEMMA CompletedSteady ==
  ASSUME NEW s \in Shells, NEW read \in Reads, NEW shown \in Pages
  PROVE  /\ Steady(s, [Completed(s) EXCEPT !.shown = shown, !.read = read])
         /\ Steady(s, [s EXCEPT !.unresolved = TRUE, !.phase = "blocked", !.read = read])
         /\ Steady(s, [s EXCEPT !.shown = shown, !.read = read])
         /\ Steady(s, [s EXCEPT !.read = read])
         /\ \A phase \in Phases : Steady(s, [s EXCEPT !.phase = phase, !.again = FALSE, !.read = read])
<1>0. {"idle", "blocked", "settling-pending"} \subseteq Phases /\ s.again \in BOOLEAN
  BY DEF Phases, Shells
<1>1. ASSUME NEW u \in Shells PROVE Steady(u, [u EXCEPT !.shown = shown, !.read = read])
  BY DEF Steady, Shells
<1>2. ASSUME NEW phase \in Phases
      PROVE  /\ Steady(s, [s EXCEPT !.unresolved = s.again, !.phase = phase])
             /\ Steady(s, [s EXCEPT !.dirty = FALSE, !.phase = phase])
  BY <1>0 DEF Steady, Shells
<1>3. Steady(s, Completed(s))
  <2>1. PICK phase \in Phases :
          Completed(s) \in {[s EXCEPT !.unresolved = s.again, !.phase = phase], [s EXCEPT !.dirty = FALSE, !.phase = phase]}
    BY <1>0 DEF Completed
  <2> QED BY <1>2, <2>1
<1>4. Steady(s, [Completed(s) EXCEPT !.shown = shown, !.read = read])
  <2> DEFINE c == Completed(s)
  <2>1. Steady(s, c)
    BY <1>3
  <2> HIDE DEF c
  <2>2. Steady(c, [c EXCEPT !.shown = shown, !.read = read])
    BY <2>1, <1>1 DEF Steady
  <2> QED BY <2>1, <2>2 DEF Steady, c
<1>5. Steady(s, [s EXCEPT !.unresolved = TRUE, !.phase = "blocked", !.read = read])
  BY <1>0 DEF Steady, Shells
<1>6. Steady(s, [s EXCEPT !.read = read])
  BY DEF Steady, Shells
<1>7. ASSUME NEW phase \in Phases PROVE Steady(s, [s EXCEPT !.phase = phase, !.again = FALSE, !.read = read])
  BY DEF Steady, Shells
<1> QED BY <1>1, <1>4, <1>5, <1>6, <1>7

-----------------------------------------------------------------------------
(* The end of a turn.                                                      *)

LEMMA Turned ==
  ASSUME TypeOK, NEW t \in Shells, Turn(t)
  PROVE  /\ shell' \in Shells /\ shell'.out = <<>>
         /\ shell'.subscribed = t.subscribed /\ shell'.retiring = t.retiring
         /\ shell'.started = t.started /\ shell'.stopping = t.stopping
         /\ process' \in {"off", "spawned", "up", "term"}
         /\ stdin' = stdin \o t.out /\ t.out \in Seq(Words) /\ stdin \in Seq(Words)
<1>1. "none" \in Orders /\ <<>> \in Seq(Words)
  BY EmptySeq DEF Orders
<1>2. PICK none \in Orders, empty \in Seq(Words) : none = "none" /\ empty = <<>>
  BY <1>1
<1>3. shell' = [t EXCEPT !.out = empty, !.order = none]
  BY <1>2 DEF Turn
<1>4. [t EXCEPT !.out = empty, !.order = none] \in Shells
  BY DEF Shells
<1>5. /\ shell'.subscribed = t.subscribed /\ shell'.retiring = t.retiring
      /\ shell'.started = t.started /\ shell'.stopping = t.stopping /\ shell'.out = <<>>
  BY <1>2, <1>3 DEF Shells
<1>6. process' \in {"off", "spawned", "up", "term"} /\ stdin' = stdin \o t.out
  BY DEF Turn, TypeOK
<1>7. t.out \in Seq(Words)
  BY DEF Shells
<1> QED BY <1>3, <1>4, <1>5, <1>6, <1>7 DEF TypeOK

(* What a handler of the shell may do to a subscription.                   *)
LEMMA TurnKeeps ==
  ASSUME IInv, NEW t, Handles(shell, t), Turn(t), UNCHANGED <<busVars, mon>>,
         stdout' \in Seq(Records), Once(stdout', "stopped"), Ended' => Ended
  PROVE  IInv'
<1>t. TypeOK /\ InOnePlace /\ Accounted /\ Silent /\ (mon.stopped => Watched) /\ shell.out = <<>>
  BY DEF IInv
<1>1. t \in Shells
  BY DEF Handles, Steady, Starts, Retires, Stops
<1>2. /\ shell' \in Shells /\ shell'.out = <<>>
      /\ shell'.subscribed = t.subscribed /\ shell'.retiring = t.retiring
      /\ shell'.started = t.started /\ shell'.stopping = t.stopping
      /\ process' \in {"off", "spawned", "up", "term"}
      /\ stdin' = stdin \o t.out /\ t.out \in Seq(Words) /\ stdin \in Seq(Words)
  BY <1>1, <1>t, Turned
<1>3. Watched' = Watched /\ mon' = mon
  BY DEF Watched
<1>4. Silent' /\ (mon'.stopped => Watched')
  BY <1>t, <1>3 DEF Silent, busVars
<1>5. Once(t.out, "start") /\ (Has(t.out, "start") <=> Starts(shell, t)) /\ ~ (Starts(shell, t) /\ Starting)
  <2>1. Starts(shell, t) => ~ Starting
    BY <1>t DEF Accounted, Starts
  <2>2. CASE Starts(shell, t)
    BY <2>1, <2>2, Few DEF Starts
  <2>3. CASE ~ Starts(shell, t)
    <3>1. t.out = <<>> \/ t.out = <<"stop">>
      BY <1>t, <2>3 DEF Handles, Steady, Retires, Stops
    <3>2. "stop" # "start"
      OBVIOUS
    <3>3. Once(<<"stop">>, "start") /\ ~ Has(<<"stop">>, "start") /\ Once(<<>>, "start") /\ ~ Has(<<>>, "start")
      BY <3>2, Few
    <3>4. Once(t.out, "start") /\ ~ Has(t.out, "start")
      BY <3>1, <3>3
    <3> QED BY <2>3, <3>4
  <2> QED BY <2>2, <2>3
<1>6. stdin' \in Seq(Words) /\ Once(stdin', "start") /\ (Starting' <=> Starting \/ Starts(shell, t))
  <2>1. Once(stdin, "start") /\ ~ (Has(stdin, "start") /\ Has(t.out, "start"))
    BY <1>t, <1>5 DEF InOnePlace, Starting
  <2>2. /\ stdin \o t.out \in Seq(Words) /\ Once(stdin \o t.out, "start")
        /\ Has(stdin \o t.out, "start") <=> Has(stdin, "start") \/ Has(t.out, "start")
    BY <1>2, <1>5, <2>1, MoreHas
  <2> QED BY <1>2, <1>5, <2>2 DEF Starting
<1>7. TypeOK'
  BY <1>t, <1>2, <1>6 DEF TypeOK, busVars
<1>8. CASE Starts(shell, t)
  <2>1. ~ Starting /\ ~ Watched /\ ~ Ended
    BY <1>t, <1>8 DEF Accounted, Starts
  <2> QED BY <1>2, <1>3, <1>4, <1>6, <1>7, <1>8, <2>1 DEF IInv, InOnePlace, Accounted, Starts
<1>9. CASE ~ Starts(shell, t)
  <2>1. InOnePlace'
    BY <1>t, <1>3, <1>6, <1>9 DEF InOnePlace
  <2>2. Accounted'
    BY <1>t, <1>2, <1>3, <1>6, <1>9 DEF Accounted, Handles, Steady, Retires, Stops
  <2> QED BY <1>2, <1>4, <1>7, <2>1, <2>2 DEF IInv
<1> QED BY <1>8, <1>9

LEMMA ActsKeeps ==
  ASSUME IInv, NEW t, Handles(shell, t), Acts(t)
  PROVE  IInv' /\ mon' = mon
<1>1. Turn(t) /\ UNCHANGED <<busVars, mon>> /\ stdout' = stdout
  BY DEF Acts
<1>2. stdout \in Seq(Records) /\ Once(stdout, "stopped")
  BY DEF IInv, TypeOK, InOnePlace
<1>3. Ended' = Ended
  BY <1>1 DEF Ended
<1> QED BY <1>1, <1>2, <1>3, TurnKeeps

(* A hub without any subscription may begin one.                           *)
LEMMA AfreshKeeps ==
  ASSUME IInv, NEW t \in Shells, Turn(t), UNCHANGED <<busVars, mon>>,
         stdout' \in Seq(Records), Once(stdout', "stopped"),
         ~ Starting, ~ Watched, ~ Ended', t.started, ~ t.retiring,
         (~ t.subscribed /\ t.out = <<>>) \/ (t.subscribed /\ t.out = <<"start">>)
  PROVE  IInv' /\ mon' = mon
<1>t. TypeOK /\ InOnePlace /\ Silent /\ (mon.stopped => Watched)
  BY DEF IInv
<1>1. /\ shell' \in Shells /\ shell'.out = <<>>
      /\ shell'.subscribed = t.subscribed /\ shell'.retiring = t.retiring
      /\ shell'.started = t.started /\ shell'.stopping = t.stopping
      /\ process' \in {"off", "spawned", "up", "term"}
      /\ stdin' = stdin \o t.out /\ t.out \in Seq(Words) /\ stdin \in Seq(Words)
  BY <1>t, Turned
<1>2. Once(t.out, "start") /\ (Has(t.out, "start") => t.subscribed)
  <2>1. Once(<<>>, "start") /\ ~ Has(<<>>, "start") /\ Once(<<"start">>, "start")
    BY Few
  <2> QED BY <2>1
<1>3. stdin' \in Seq(Words) /\ Once(stdin', "start") /\ (Starting' => t.subscribed)
  <2>1. Once(stdin, "start") /\ ~ Has(stdin, "start")
    BY <1>t DEF InOnePlace, Starting
  <2>2. /\ stdin \o t.out \in Seq(Words) /\ Once(stdin \o t.out, "start")
        /\ Has(stdin \o t.out, "start") <=> Has(stdin, "start") \/ Has(t.out, "start")
    BY <1>1, <1>2, <2>1, MoreHas
  <2> QED BY <1>1, <1>2, <2>1, <2>2 DEF Starting
<1>4. TypeOK'
  BY <1>t, <1>1, <1>3 DEF TypeOK, busVars
<1>5. ~ Watched' /\ mon' = mon /\ Silent'
  BY <1>t DEF Watched, Silent, busVars
<1>6. InOnePlace' /\ Accounted'
  BY <1>1, <1>3, <1>5 DEF InOnePlace, Accounted
<1> QED BY <1>t, <1>1, <1>4, <1>5, <1>6 DEF IInv

-----------------------------------------------------------------------------
(* Steps of the shell.                                                     *)

LEMMA ClientKeeps ==
  ASSUME IInv, (User \/ SetupExpired \/ OthersEnd)
  PROVE  IInv' /\ mon' = mon
<1>t. shell \in Shells /\ shell.out = <<>>
  BY DEF IInv, TypeOK
<1>1. CASE Open
  <2> DEFINE v == [shell EXCEPT !.visible = TRUE]
             b == BeginCycle(v)
  <2>1. Steady(shell, v)
    BY <1>t, ClientSteady
  <2>2. Steady(v, b)
    BY <2>1, CycleSteady DEF Steady
  <2>3. Handles(b, Attach(b))
    BY <1>t, <2>1, <2>2, AttachHandles DEF Steady
  <2>4. Handles(shell, Opened(shell))
    BY <2>1, <2>2, <2>3, SteadyFirst DEF Opened
  <2> QED BY <1>1, <2>4, ActsKeeps DEF Open
<1>2. CASE Close
  <2> DEFINE v == [shell EXCEPT !.visible = FALSE]
             c == CloseCycle(v)
  <2>1. Steady(shell, v)
    BY <1>t, ClientSteady
  <2>2. Steady(v, c)
    BY <2>1, CycleSteady DEF Steady
  <2>3. c \in Shells /\ c.out = <<>> /\ c.failed \in BOOLEAN
    BY <1>t, <2>1, <2>2 DEF Steady, Shells
  <2> HIDE DEF c
  <2>4. Handles(c, Detach(c, c.failed)) /\ Handles(c, [c EXCEPT !.ready = FALSE])
    BY <2>3, DetachHandles, ClientSteady DEF Handles
  <2>5. Handles(shell, Detach(c, c.failed)) /\ Handles(shell, [c EXCEPT !.ready = FALSE])
    BY <2>1, <2>2, <2>4, SteadyFirst
  <2>6. Handles(shell, Closed(shell))
    BY <2>5 DEF Closed, c
  <2> QED BY <1>2, <2>6, ActsKeeps DEF Close
<1>3. CASE Refresh
  <2> DEFINE b == BeginCycle(shell)
  <2>1. Steady(shell, b)
    BY <1>t, CycleSteady
  <2>2. Handles(b, Attach(b))
    BY <1>t, <2>1, AttachHandles DEF Steady
  <2>3. Handles(shell, b) /\ Handles(shell, Attach(b))
    BY <2>1, <2>2, SteadyFirst DEF Handles
  <2> QED BY <1>3, <2>3, ActsKeeps DEF Refresh
<1>4. CASE OthersAttach
  <2> DEFINE a == [shell EXCEPT !.others = TRUE]
  <2>1. Steady(shell, a)
    BY <1>t, ClientSteady
  <2>2. Handles(a, Launch(a))
    BY <2>1, ClientSteady DEF Steady, Handles
  <2>3. Handles(shell, a) /\ Handles(shell, Launch(a))
    BY <2>1, <2>2, SteadyFirst DEF Handles
  <2> QED BY <1>4, <2>3, ActsKeeps DEF OthersAttach
<1>5. CASE OthersDetach
  <2> DEFINE a == [shell EXCEPT !.others = FALSE]
  <2>1. Steady(shell, a)
    BY <1>t, ClientSteady
  <2>2. Handles(a, Leaving(a, FALSE))
    BY <1>t, <2>1, DetachHandles DEF Steady
  <2>3. Handles(shell, Leaving(a, FALSE))
    BY <2>1, <2>2, SteadyFirst
  <2> QED BY <1>5, <2>3, ActsKeeps DEF OthersDetach
<1>6. CASE OthersEnd
  <2>1. Handles(shell, [shell EXCEPT !.others = FALSE])
    BY <1>t, ClientSteady DEF Handles
  <2> QED BY <1>6, <2>1, ActsKeeps DEF OthersEnd
<1>7. CASE SetupExpired
  <2>1. Handles(shell, Fail(shell))
    BY <1>t, DeliverHandles
  <2> QED BY <1>7, <2>1, ActsKeeps DEF SetupExpired
<1> QED BY <1>1, <1>2, <1>3, <1>4, <1>5, <1>6, <1>7 DEF User

LEMMA ReadKeeps ==
  ASSUME IInv, (Take \/ ReadSucceeds \/ ReadFails \/ ReadDiscarded)
  PROVE  IInv' /\ mon' = mon
<1>t. shell \in Shells /\ {"none", "started"} \subseteq Reads
  BY DEF IInv, TypeOK, Reads
<1>1. CASE Take
  <2>1. PICK phase \in Phases :
          Acts([shell EXCEPT !.phase = phase, !.again = FALSE, !.read = "started"])
    BY <1>1 DEF Take, Phases
  <2>2. Handles(shell, [shell EXCEPT !.phase = phase, !.again = FALSE, !.read = "started"])
    BY <1>t, CompletedSteady DEF Handles, Pages
  <2> QED BY <2>1, <2>2, ActsKeeps
<1>2. CASE ReadSucceeds
  <2>1. PICK shown \in Pages : Acts([Completed(shell) EXCEPT !.shown = shown, !.read = "none"])
    BY <1>2 DEF ReadSucceeds, Pages
  <2>2. Handles(shell, [Completed(shell) EXCEPT !.shown = shown, !.read = "none"])
    BY <1>t, CompletedSteady DEF Handles
  <2> QED BY <2>1, <2>2, ActsKeeps
<1>3. CASE ReadFails
  <2>1. Handles(shell, [shell EXCEPT !.unresolved = TRUE, !.phase = "blocked", !.read = "none"])
    BY <1>t, CompletedSteady DEF Handles, Pages
  <2> QED BY <1>3, <2>1, ActsKeeps DEF ReadFails
<1>4. CASE ReadDiscarded
  <2>1. Handles(shell, [shell EXCEPT !.read = "none"])
    BY <1>t, CompletedSteady DEF Handles, Pages
  <2> QED BY <1>4, <2>1, ActsKeeps DEF ReadDiscarded
<1> QED BY <1>1, <1>2, <1>3, <1>4

(* A "stopped" that was awaited frees the hub to start again.              *)
LEMMA RouteKeeps ==
  ASSUME IInv, Route
  PROVE  IInv' /\ mon' = mon
<1>t. TypeOK /\ InOnePlace /\ Accounted /\ shell.out = <<>> /\ shell \in Shells
  BY DEF IInv, TypeOK
<1> DEFINE record == Head(stdout)
           t == Routed(shell, record)
<1>1. Turn(t) /\ stdout # <<>> /\ stdout' = Tail(stdout) /\ UNCHANGED <<busVars, mon>>
  BY DEF Route
<1>2. /\ stdout' \in Seq(Records) /\ Once(stdout', "stopped")
      /\ Ended' => Ended
      /\ record = "stopped" => Ended /\ ~ Ended'
  <2>1. stdout \in Seq(Records) /\ Once(stdout, "stopped")
    BY <1>t DEF TypeOK, InOnePlace
  <2> QED BY <1>1, <2>1, TailHas DEF Ended
<1>3. CASE Handles(shell, t)
  BY <1>1, <1>2, <1>3, TurnKeeps
<1>4. CASE shell.stopping
  <2>1. t = shell
    BY <1>4 DEF Routed
  <2> QED BY <1>t, <1>3, <2>1, ClientSteady DEF Handles
<1>5. CASE ~ shell.stopping /\ record # "stopped"
  <2> DEFINE k == [shell EXCEPT !.known = @ \/ record = "ready"]
  <2>1. t = Deliver(k, record)
    BY <1>5 DEF Routed
  <2>2. PICK b \in BOOLEAN : k = [shell EXCEPT !.known = b]
    BY <1>t DEF Shells
  <2>3. Steady(shell, k)
    BY <1>t, <2>2, ClientSteady
  <2>4. Handles(k, Deliver(k, record))
    BY <1>t, <2>3, DeliverHandles DEF Steady
  <2>5. Handles(shell, t)
    BY <2>1, <2>3, <2>4, SteadyFirst
  <2> QED BY <1>3, <2>5
<1>6. CASE ~ shell.stopping /\ record = "stopped"
  <2>0. ~ Starting /\ ~ Watched /\ ~ Ended' /\ shell.started
    BY <1>t, <1>2, <1>6 DEF InOnePlace, Accounted
  <2>1. /\ t \in Shells /\ t.started /\ ~ t.stopping
        /\ \/ ~ t.subscribed /\ ~ t.retiring /\ t.out = <<>>
           \/ t.subscribed /\ ~ t.retiring /\ t.out = <<"start">>
    <3>1. CASE shell.retiring
      <4> DEFINE r == [shell EXCEPT !.retiring = FALSE]
      <4>1. r \in Shells /\ r.started /\ ~ r.stopping /\ ~ r.subscribed /\ ~ r.retiring /\ r.out = <<>>
        BY <1>t, <1>6, <2>0, <3>1 DEF Shells, Accounted
      <4> HIDE DEF r
      <4>2. Starts(r, Subscribe(r))
        BY <4>1, SubscribeStarts
      <4>3. t = IF r.attached THEN Subscribe(r) ELSE r
        BY <1>6, <3>1 DEF Routed, r
      <4> QED BY <4>1, <4>2, <4>3 DEF Starts
    <3>2. CASE ~ shell.retiring
      <4> DEFINE r == [shell EXCEPT !.subscribed = FALSE, !.known = FALSE]
      <4>1. r \in Shells /\ r.started /\ ~ r.stopping /\ ~ r.subscribed /\ ~ r.retiring /\ r.out = <<>>
        BY <1>t, <1>6, <2>0, <3>2 DEF Shells
      <4> HIDE DEF r
      <4>2. t = End(r)
        BY <1>6, <3>2 DEF Routed, r
      <4> QED BY <4>1, <4>2, EndSteady
    <3> QED BY <3>1, <3>2
  <2> HIDE DEF t
  <2> QED BY <1>1, <1>2, <2>0, <2>1, AfreshKeeps
<1> QED BY <1>4, <1>5, <1>6

LEMMA ProcessStartedKeeps ==
  ASSUME IInv, ProcessStarted
  PROVE  IInv' /\ mon' = mon
<1>t. TypeOK /\ InOnePlace /\ Accounted /\ shell.out = <<>> /\ shell \in Shells
  BY DEF IInv, TypeOK
<1> DEFINE s == [shell EXCEPT !.started = TRUE, !.stopping = FALSE, !.retiring = FALSE]
<1>1. ~ shell.started /\ UNCHANGED <<busVars, mon, stdout>>
  BY DEF ProcessStarted
<1>2. ~ Starting /\ ~ Watched /\ ~ Ended
  BY <1>t, <1>1 DEF Accounted
<1>3. PICK t : Turn(t) /\ t = IF s.queued THEN Subscribe([s EXCEPT !.queued = FALSE]) ELSE s
  BY DEF ProcessStarted
<1>4. s \in Shells /\ s.started /\ ~ s.stopping /\ ~ s.retiring /\ s.subscribed = shell.subscribed /\ s.out = <<>>
  BY <1>t DEF Shells
<1> HIDE DEF s
<1>5. ~ shell.subscribed
  BY <1>t, <1>1 DEF Accounted
<1>6. /\ t \in Shells /\ t.started /\ ~ t.retiring
      /\ (~ t.subscribed /\ t.out = <<>>) \/ (t.subscribed /\ t.out = <<"start">>)
  <2> DEFINE q == [s EXCEPT !.queued = FALSE]
  <2>1. Steady(s, q)
    BY <1>4, ClientSteady
  <2>2. Starts(q, Subscribe(q))
    BY <1>4, <1>5, <2>1, SubscribeStarts DEF Steady
  <2>3. t = s \/ t = Subscribe(q)
    BY <1>3
  <2> QED BY <1>4, <1>5, <2>2, <2>3 DEF Starts
<1>7. stdout' \in Seq(Records) /\ Once(stdout', "stopped") /\ ~ Ended'
  BY <1>t, <1>1, <1>2 DEF TypeOK, InOnePlace, Ended
<1> QED BY <1>1, <1>2, <1>3, <1>6, <1>7, AfreshKeeps

(* Whatever ends the process ends its subscriptions.                       *)
LEMMA ProcessExitsKeeps ==
  ASSUME IInv, ProcessExits
  PROVE  IInv' /\ mon' = NoMonitor
<1>t. TypeOK /\ shell.out = <<>> /\ shell \in Shells
  BY DEF IInv, TypeOK
<1> DEFINE over == [shell EXCEPT !.started = FALSE, !.stopping = FALSE, !.subscribed = FALSE,
                                 !.known = FALSE, !.retiring = FALSE]
<1>1. over \in Shells /\ ~ over.subscribed /\ ~ over.retiring /\ over.out = <<>>
  BY <1>t DEF Shells
<1>2. shell' \in Shells /\ ~ shell'.subscribed /\ shell'.out = <<>>
  <2>1. shell.attached \in BOOLEAN
    BY <1>t DEF Shells
  <2>2. \A b \in BOOLEAN : Steady(over, [over EXCEPT !.queued = b])
    BY <1>1, ClientSteady
  <2>3. Steady(over, [over EXCEPT !.queued = FALSE, !.others = FALSE])
    BY <1>1, ZenonT(60) DEF Steady, Shells
  <2> DEFINE gone == [over EXCEPT !.queued = FALSE, !.others = FALSE]
  <2>4. Steady(gone, End(gone))
    BY <2>3, ClientSteady DEF Steady
  <2>5. shell' = ProcessEnded(shell)
    BY DEF ProcessExits
  <2>6. shell' \in {[over EXCEPT !.queued = FALSE], [over EXCEPT !.queued = shell.attached], End(gone)}
    BY <2>5 DEF ProcessEnded
  <2> HIDE DEF over, gone
  <2>7. gone \in Shells /\ ~ gone.subscribed /\ gone.out = <<>>
    BY <1>1, <2>3 DEF gone, Steady
  <2> QED BY <1>1, <2>1, <2>2, <2>4, <2>6, <2>7 DEF Steady
<1>3. /\ stdin' = <<>> /\ stdout' = <<>> /\ mon' = NoMonitor /\ Disconnect
      /\ UNCHANGED <<service, births>> /\ process' \in {"off", "spawned", "up", "term"}
  BY DEF ProcessExits
<1>4. NoMonitor \in Monitors /\ NoMonitor.stage = "none" /\ ~ NoMonitor.stopped
  BY DEF NoMonitor, Monitors
<1>5. TypeOK'
  BY <1>t, <1>2, <1>3, <1>4, EmptySeq DEF TypeOK, Disconnect
<1>6. ~ Starting' /\ ~ Ended' /\ Once(<<>>, "start") /\ Once(<<>>, "stopped")
  BY <1>3, Few DEF Starting, Ended
<1>7. InOnePlace' /\ Accounted' /\ Silent' /\ (mon'.stopped => Watched')
  BY <1>2, <1>3, <1>4, <1>6 DEF InOnePlace, Accounted, Silent, Watched, Disconnect
<1> QED BY <1>2, <1>3, <1>5, <1>7 DEF IInv

-----------------------------------------------------------------------------
(* Steps of the bus, the service and the helper's reads.                   *)

LEMMA HeardTypes ==
  ASSUME NEW rule, NEW type \in {"owner", "changed", "match", "name"}, NEW who \in Nat
  PROVE  Heard(rule, Message(type, who)) \in Seq(Messages) /\ Message(type, who) \in Messages
<1>1. Message(type, who) \in Messages
  BY DEF Message, Messages
<1> HIDE DEF Message
<1> QED BY <1>1, EmptySeq DEF Heard

(* Nothing of theirs touches a subscription.                               *)
LEMMA ElsewhereKeeps ==
  ASSUME IInv, TypeOK', Silent', Steady(shell, shell'), UNCHANGED <<mon, stdin, stdout>>
  PROVE  IInv'
<1>1. (Starting' <=> Starting) /\ (Ended' <=> Ended) /\ (Watched' <=> Watched)
  BY DEF Starting, Ended, Watched
<1>2. InOnePlace'
  BY <1>1 DEF IInv, InOnePlace
<1>3. Accounted' /\ (mon'.stopped => Watched') /\ shell'.out = <<>>
  BY <1>1 DEF IInv, Accounted, Steady
<1> QED BY <1>2, <1>3 DEF IInv

LEMMA ArrivalTypes ==
  ASSUME TypeOK, Serves
  PROVE  /\ service' \in Nat /\ births' \in Nat /\ Arrival \in Seq(Messages)
         /\ rules = {} => Arrival = <<>>
<1>1. service' \in Nat /\ births' \in Nat
  BY DEF Serves, TypeOK
<1>2. Heard("owner", Message("owner", service')) \in Seq(Messages)
  BY <1>1, HeardTypes
<1> QED BY <1>1, <1>2, EmptySeq DEF Arrival, Heard

LEMMA BusKeeps ==
  ASSUME IInv, (Changes \/ ServiceExits \/ BusAnswers \/ Sample)
  PROVE  IInv' /\ mon' = mon
<1>t. TypeOK /\ Silent /\ shell \in Shells /\ wire \in Seq(Messages) /\ shell.read \in Reads
      /\ {"old", "current"} \subseteq Reads /\ "old" \in Pages
  BY DEF IInv, TypeOK, Shells, Reads, Pages
<1>1. CASE Changes
  <2>1. /\ service' \in Nat /\ births' \in Nat /\ Arrival \in Seq(Messages)
        /\ rules = {} => Arrival = <<>>
    BY <1>1, <1>t, ArrivalTypes DEF Changes
  <2>2. Heard("properties", Message("changed", service')) \in Seq(Messages)
    BY <2>1, HeardTypes
  <2>3. PICK told \in Seq(Messages) : /\ wire' = wire \o Arrival \o told
                                      /\ rules = {} => told = <<>>
    BY <1>1, <2>2 DEF Changes, Heard
  <2>4. wire' \in Seq(Messages)
    BY <1>t, <2>1, <2>3, ConcatProperties
  <2>5. PICK read \in Reads : shell' = [shell EXCEPT !.shown = "old", !.read = read]
    BY <1>1, <1>t DEF Changes
  <2>6. Steady(shell, shell')
    BY <1>t, <2>5, CompletedSteady
  <2>7. UNCHANGED <<rules, asked, mon, process, stdin, stdout>>
    BY <1>1 DEF Changes
  <2>8. TypeOK'
    BY <1>t, <2>1, <2>4, <2>6, <2>7 DEF TypeOK, Steady
  <2>9. Silent'
    <3>1. wire = <<>> /\ rules = {} => wire' = <<>>
      BY <2>1, <2>3
    <3> QED BY <1>t, <2>7, <3>1 DEF Silent
  <2> QED BY <2>6, <2>7, <2>8, <2>9, ElsewhereKeeps
<1>2. CASE ServiceExits
  <2>1. Heard("owner", Message("owner", 0)) \in Seq(Messages)
    BY HeardTypes
  <2>2. PICK told \in Seq(Messages) : wire' = wire \o told /\ (rules = {} => told = <<>>)
    BY <1>2, <2>1 DEF ServiceExits, Heard
  <2>3. wire' \in Seq(Messages)
    BY <1>t, <2>2, ConcatProperties
  <2>4. service' = 0 /\ UNCHANGED <<births, rules, asked, mon, process, stdin, stdout, shell>>
    BY <1>2 DEF ServiceExits
  <2>5. TypeOK' /\ Steady(shell, shell')
    BY <1>t, <2>3, <2>4 DEF TypeOK, Steady
  <2>6. Silent'
    BY <1>t, <2>2, <2>4 DEF Silent
  <2> QED BY <2>4, <2>5, <2>6, ElsewhereKeeps
<1>3. CASE BusAnswers
  <2>1. PICK answer \in Messages : wire' = Append(wire, answer)
    BY <1>3, <1>t, HeardTypes DEF BusAnswers, TypeOK
  <2>2. wire' \in Seq(Messages)
    BY <1>t, <2>1
  <2>3. /\ asked /\ ~ asked' /\ rules' \subseteq {"owner", "properties"} /\ asked' \in BOOLEAN
        /\ UNCHANGED <<service, births, mon, process, stdin, stdout, shell>>
    BY <1>3, <1>t DEF BusAnswers, TypeOK
  <2>4. TypeOK' /\ Steady(shell, shell')
    BY <1>t, <2>2, <2>3 DEF TypeOK, Steady
  <2>5. Silent'
    BY <1>t, <2>3 DEF Silent
  <2> QED BY <2>3, <2>4, <2>5, ElsewhereKeeps
<1>4. CASE Sample
  <2>1. /\ service' \in Nat /\ births' \in Nat /\ Arrival \in Seq(Messages)
        /\ rules = {} => Arrival = <<>>
    BY <1>4, <1>t, ArrivalTypes DEF Sample
  <2>2. wire' = wire \o Arrival /\ UNCHANGED <<rules, asked, mon, process, stdin, stdout>>
        /\ shell' = [shell EXCEPT !.read = "current"]
    BY <1>4 DEF Sample
  <2>3. wire' \in Seq(Messages)
    BY <1>t, <2>1, <2>2, ConcatProperties
  <2>4. Steady(shell, shell')
    BY <1>t, <2>2, CompletedSteady
  <2>5. TypeOK'
    BY <1>t, <2>1, <2>2, <2>3, <2>4 DEF TypeOK, Steady
  <2>6. Silent'
    BY <1>t, <2>1, <2>2 DEF Silent
  <2> QED BY <2>2, <2>4, <2>5, <2>6, ElsewhereKeeps
<1> QED BY <1>1, <1>2, <1>3, <1>4

-----------------------------------------------------------------------------
(* Steps of the monitor, which tells of its end nowhere but in Retire.     *)

(* What it writes otherwise: a change, or that it is ready.                *)
Says(words) == stdout' = stdout \o words /\ words \in {<<>>, <<"changed">>, <<"ready">>, <<"ready", "changed">>}

LEMMA SaysMore ==
  ASSUME IInv, NEW words, Says(words)
  PROVE  /\ stdout' \in Seq(Records) /\ Once(stdout', "stopped") /\ (Ended' <=> Ended)
<1>1. words \in Seq(Records)
  <2>1. /\ <<>> \in Seq(Records) /\ <<"changed">> \in Seq(Records)
        /\ <<"ready">> \in Seq(Records) /\ <<"ready", "changed">> \in Seq(Records)
    BY EmptySeq DEF Records
  <2> QED BY <2>1 DEF Says
<1>2. Once(words, "stopped") /\ ~ Has(words, "stopped")
  <2>1. "changed" # "stopped" /\ "ready" # "stopped"
    OBVIOUS
  <2>2. CASE words = <<>>
    BY <2>2, Few
  <2>3. CASE words = <<"changed">>
    BY <2>1, <2>3, Few
  <2>4. CASE words = <<"ready">>
    BY <2>1, <2>4, Few
  <2>5. CASE words = <<"ready", "changed">>
    BY <2>1, <2>5, Few
  <2> QED BY <2>2, <2>3, <2>4, <2>5 DEF Says
<1>3. stdout \in Seq(Records) /\ Once(stdout, "stopped")
  BY DEF IInv, TypeOK, InOnePlace
<1>4. /\ stdout \o words \in Seq(Records) /\ Once(stdout \o words, "stopped")
      /\ Has(stdout \o words, "stopped") <=> Has(stdout, "stopped") \/ Has(words, "stopped")
  BY <1>1, <1>2, <1>3, MoreHas
<1> QED BY <1>2, <1>4 DEF Says, Ended

LEMMA WatchingKeeps ==
  ASSUME IInv, Watched, Watched', mon' \in Monitors,
         asked' \in BOOLEAN, wire' \in Seq(Messages),
         stdout' \in Seq(Records), Once(stdout', "stopped"), Ended' <=> Ended,
         UNCHANGED <<service, births, rules, process, stdin, shell>>
  PROVE  IInv'
<1>1. Starting' <=> Starting
  BY DEF Starting
<1>2. TypeOK'
  BY DEF IInv, TypeOK
<1>3. InOnePlace'
  BY <1>1 DEF IInv, InOnePlace
<1>4. Accounted' /\ Silent' /\ (mon'.stopped => Watched') /\ shell'.out = <<>>
  BY <1>1 DEF IInv, Accounted, Silent, Watched
<1> QED BY <1>2, <1>3, <1>4 DEF IInv

LEMMA StoppedSame ==
  ASSUME NEW m \in Monitors
  PROVE  /\ [m EXCEPT !.stopped = TRUE] \in Monitors
         /\ [m EXCEPT !.stopped = TRUE].stage = m.stage
         /\ m.stopped => [m EXCEPT !.stopped = TRUE] = m
BY DEF Monitors

LEMMA ResolvedTypes ==
  ASSUME NEW m \in Monitors, NEW who \in Nat
  PROVE  /\ Resolved(m, who) \in Monitors
         /\ [Resolved(m, who) EXCEPT !.stage = "match2"] \in Monitors
         /\ [Resolved(m, who) EXCEPT !.stage = "match2"].stage # "none"
         /\ [Resolved(m, who) EXCEPT !.stage = "live", !.dirty = FALSE] \in Monitors
         /\ [Resolved(m, who) EXCEPT !.stage = "live", !.dirty = FALSE].stage # "none"
<1>1. Resolved(m, who) \in Monitors
  BY DEF Resolved, Monitors
<1>2. ASSUME NEW r \in Monitors
      PROVE  /\ [r EXCEPT !.stage = "match2"] \in Monitors
             /\ [r EXCEPT !.stage = "match2"].stage # "none"
             /\ [r EXCEPT !.stage = "live", !.dirty = FALSE] \in Monitors
             /\ [r EXCEPT !.stage = "live", !.dirty = FALSE].stage # "none"
  BY DEF Monitors
<1> QED BY <1>1, <1>2

LEMMA ToldTypes ==
  ASSUME TypeOK, NEW m \in Monitors, m.stage # "none", Told(m)
  PROVE  mon' \in Monitors /\ mon'.stage # "none" /\ \E words : Says(words)
<1>1. [m EXCEPT !.dirty = TRUE] \in Monitors /\ [m EXCEPT !.dirty = TRUE].stage # "none"
  BY DEF Monitors
<1>2. CASE m.stage = "live"
  <2>1. mon' = m /\ stdout' = Append(stdout, "changed")
    BY <1>2 DEF Told
  <2>2. stdout' = stdout \o <<"changed">>
    BY <2>1, AppendIsConcat DEF TypeOK, Records
  <2>3. Says(<<"changed">>)
    BY <2>2 DEF Says
  <2> QED BY <2>1, <2>3
<1>3. CASE m.stage # "live"
  <2>1. mon' = [m EXCEPT !.dirty = TRUE] /\ stdout' = stdout
    BY <1>3 DEF Told
  <2>2. stdout' = stdout \o <<>>
    BY <2>1, ConcatEmptySeq DEF TypeOK
  <2>3. Says(<<>>)
    BY <2>2 DEF Says
  <2> QED BY <1>1, <2>1, <2>3
<1> QED BY <1>2, <1>3

LEMMA MonitorKeeps ==
  ASSUME IInv, (Monitor \/ SetupFails \/ MonitorFails)
  PROVE  IInv' /\ (mon.stopped => mon' = mon)
<1>t. TypeOK /\ Silent /\ mon \in Monitors /\ wire \in Seq(Messages) /\ asked \in BOOLEAN
  BY DEF IInv, TypeOK
<1>s. Says(<<>>) <=> stdout' = stdout
  BY <1>t, ConcatEmptySeq DEF Says, TypeOK
<1>k. ASSUME Watched, mon' \in Monitors, mon'.stage # "none", asked' \in BOOLEAN, wire' \in Seq(Messages),
             NEW words, Says(words), UNCHANGED <<service, births, rules, process, stdin, shell>>
      PROVE  IInv'
  <2>1. stdout' \in Seq(Records) /\ Once(stdout', "stopped") /\ (Ended' <=> Ended)
    BY <1>k, SaysMore
  <2> QED BY <1>k, <2>1, WatchingKeeps DEF Watched
<1>a. ASSUME NEW type, Arrived(type)
      PROVE  Watched /\ Head(wire).who \in Nat /\ Tail(wire) \in Seq(Messages)
  <2>1. wire # <<>>
    BY <1>a DEF Arrived
  <2>2. Head(wire) \in Messages /\ Tail(wire) \in Seq(Messages)
    BY <1>t, <2>1, HeadTailProperties
  <2> QED BY <1>t, <2>1, <2>2 DEF Silent, Watched, Messages
<1>1. CASE Connected
  <2>1. mon' = [mon EXCEPT !.stage = "match1"] /\ asked' = TRUE /\ wire' = wire /\ ~ mon.stopped /\ Watched
        /\ UNCHANGED <<service, births, rules, process, stdin, shell>> /\ stdout' = stdout
    BY <1>1 DEF Connected, Watched
  <2>2. mon' \in Monitors /\ mon'.stage # "none"
    BY <1>t, <2>1 DEF Monitors
  <2> QED BY <1>k, <1>s, <1>t, <2>1, <2>2
<1>2. CASE MatchFinished
  <2>1. Watched /\ wire' \in Seq(Messages) /\ stdout' = stdout
        /\ UNCHANGED <<service, births, rules, process, stdin, shell>>
    BY <1>2, <1>a DEF MatchFinished
  <2>2. PICK stage \in {"name1", "name2"} :
          \/ mon.stopped /\ mon' = mon /\ asked' = asked
          \/ ~ mon.stopped /\ mon' = [mon EXCEPT !.stage = stage, !.moved = FALSE] /\ asked' = TRUE
    BY <1>2 DEF MatchFinished
  <2>3. mon' \in Monitors /\ mon'.stage # "none" /\ asked' \in BOOLEAN /\ (mon.stopped => mon' = mon)
    BY <1>t, <2>1, <2>2 DEF Monitors, Watched
  <2> QED BY <1>k, <1>s, <2>1, <2>3
<1>3. CASE NameResolved
  <2>1. Watched /\ wire' \in Seq(Messages) /\ Head(wire).who \in Nat
        /\ UNCHANGED <<service, births, rules, process, stdin, shell>>
    BY <1>3, <1>a DEF NameResolved
  <2>2. CASE mon.stopped
    <3>1. mon' = mon /\ asked' = asked /\ stdout' = stdout
      BY <1>3, <2>2 DEF NameResolved
    <3> QED BY <1>k, <1>s, <1>t, <2>1, <3>1 DEF Watched
  <2>3. CASE ~ mon.stopped /\ mon.stage = "name1"
    <3>1. /\ mon' = [Resolved(mon, Head(wire).who) EXCEPT !.stage = "match2"]
          /\ asked' = TRUE /\ stdout' = stdout
      BY <1>3, <2>3 DEF NameResolved
    <3>2. mon' \in Monitors /\ mon'.stage # "none"
      BY <1>t, <2>1, <3>1, ResolvedTypes
    <3> QED BY <1>k, <1>s, <2>1, <2>3, <3>1, <3>2
  <2>4. CASE ~ mon.stopped /\ mon.stage # "name1"
    <3>1. /\ mon' = [Resolved(mon, Head(wire).who) EXCEPT !.stage = "live", !.dirty = FALSE]
          /\ asked' = asked
          /\ stdout' = stdout \o (IF mon.dirty THEN <<"ready", "changed">> ELSE <<"ready">>)
      BY <1>3, <2>4 DEF NameResolved
    <3>2. mon' \in Monitors /\ mon'.stage # "none"
      BY <1>t, <2>1, <3>1, ResolvedTypes
    <3>3. Says(IF mon.dirty THEN <<"ready", "changed">> ELSE <<"ready">>)
      BY <3>1 DEF Says
    <3> QED BY <1>k, <1>t, <2>1, <2>4, <3>1, <3>2, <3>3
  <2> QED BY <2>2, <2>3, <2>4
<1>4. CASE OwnerChanged
  <2>1. Watched /\ wire' \in Seq(Messages) /\ Head(wire).who \in Nat /\ asked' = asked
        /\ UNCHANGED <<service, births, rules, process, stdin, shell>>
    BY <1>4, <1>a DEF OwnerChanged
  <2> DEFINE m == [mon EXCEPT !.owner = Head(wire).who, !.moved = TRUE]
  <2>2. m \in Monitors /\ m.stage # "none"
    BY <1>t, <2>1 DEF Monitors, Watched
  <2>3. (mon.stopped /\ mon' = mon /\ stdout' = stdout) \/ (~ mon.stopped /\ Told(m))
        \/ (~ mon.stopped /\ mon' = m /\ stdout' = stdout)
    BY <1>4 DEF OwnerChanged
  <2> HIDE DEF m
  <2>4. CASE stdout' = stdout /\ mon' \in {mon, m} /\ (mon.stopped => mon' = mon)
    BY <1>k, <1>s, <1>t, <2>1, <2>2, <2>4 DEF Watched
  <2>5. CASE ~ mon.stopped /\ Told(m)
    <3>1. mon' \in Monitors /\ mon'.stage # "none" /\ \E words : Says(words)
      BY <1>t, <2>2, <2>5, ToldTypes
    <3> QED BY <1>k, <1>t, <2>1, <2>5, <3>1
  <2> QED BY <2>3, <2>4, <2>5
<1>5. CASE PropertiesChanged
  <2>1. Watched /\ wire' \in Seq(Messages) /\ asked' = asked
        /\ UNCHANGED <<service, births, rules, process, stdin, shell>>
    BY <1>5, <1>a DEF PropertiesChanged
  <2>2. (~ mon.stopped /\ Told(mon)) \/ (mon' = mon /\ stdout' = stdout)
    BY <1>5 DEF PropertiesChanged
  <2>3. CASE mon' = mon /\ stdout' = stdout
    BY <1>k, <1>s, <1>t, <2>1, <2>3 DEF Watched
  <2>4. CASE ~ mon.stopped /\ Told(mon)
    <3>1. mon' \in Monitors /\ mon'.stage # "none" /\ \E words : Says(words)
      BY <1>t, <2>1, <2>4, ToldTypes DEF Watched
    <3> QED BY <1>k, <1>t, <2>1, <2>4, <3>1
  <2> QED BY <2>2, <2>3, <2>4
<1>6. CASE SetupFails \/ MonitorFails
  <2>1. /\ mon' = [mon EXCEPT !.stopped = TRUE] /\ ~ mon.stopped /\ Watched /\ stdout' = stdout
        /\ UNCHANGED <<service, births, rules, process, stdin, shell, asked, wire>>
    BY <1>6 DEF SetupFails, MonitorFails, Stopped, Watched, busVars
  <2>2. mon' \in Monitors /\ mon'.stage # "none"
    BY <1>t, <2>1, StoppedSame DEF Watched
  <2> QED BY <1>k, <1>s, <1>t, <2>1, <2>2
<1> QED BY <1>1, <1>2, <1>3, <1>4, <1>5, <1>6 DEF Monitor

-----------------------------------------------------------------------------
(* Steps of watch_domains: a subscription goes from one place to the next. *)

LEMMA CommandTakes ==
  ASSUME IInv, NEW word, Command(word)
  PROVE  /\ stdin' \in Seq(Words) /\ Once(stdin', "start") /\ (Starting' => Starting)
         /\ word = "start" => Starting /\ ~ Starting'
<1>1. stdin \in Seq(Words) /\ Once(stdin, "start")
  BY DEF IInv, TypeOK, InOnePlace
<1>2. stdin # <<>> /\ Head(stdin) = word /\ stdin' = Tail(stdin)
  BY DEF Command
<1> QED BY <1>1, <1>2, TailHas DEF Starting

LEMMA StartKeeps ==
  ASSUME IInv, StartDomain
  PROVE  IInv' /\ ~ mon.stopped
<1>t. TypeOK /\ InOnePlace /\ Accounted /\ (mon.stopped => Watched) /\ shell.out = <<>>
  BY DEF IInv
<1>1. stdin' \in Seq(Words) /\ Once(stdin', "start") /\ Starting /\ ~ Starting'
  BY CommandTakes DEF StartDomain
<1>2. ~ Watched /\ ~ Ended /\ ~ mon.stopped
  BY <1>t, <1>1 DEF InOnePlace
<1>3. mon' = NewMonitor /\ Disconnect /\ UNCHANGED <<service, births, process, stdout, shell>>
  BY <1>2 DEF StartDomain, Watched
<1>4. NewMonitor \in Monitors /\ NewMonitor.stage # "none"
  BY DEF NewMonitor, NoMonitor, Monitors
<1>5. TypeOK'
  BY <1>t, <1>1, <1>3, <1>4, EmptySeq DEF TypeOK, Disconnect
<1>6. InOnePlace' /\ Accounted' /\ Silent' /\ (mon'.stopped => Watched')
  BY <1>t, <1>1, <1>2, <1>3, <1>4 DEF InOnePlace, Accounted, Silent, Watched, Ended
<1> QED BY <1>t, <1>2, <1>3, <1>5, <1>6 DEF IInv

LEMMA StopKeeps ==
  ASSUME IInv, StopDomain
  PROVE  IInv' /\ (mon.stopped => mon' = mon)
<1>t. TypeOK /\ InOnePlace /\ Accounted /\ Silent /\ (mon.stopped => Watched) /\ shell.out = <<>>
      /\ mon \in Monitors
  BY DEF IInv, TypeOK
<1>1. stdin' \in Seq(Words) /\ Once(stdin', "start") /\ (Starting' => Starting)
  BY CommandTakes DEF StopDomain
<1>2. UNCHANGED <<busVars, process, stdout, shell>> /\ mon' \in {mon, Stopped} /\ (mon' # mon => Watched)
  BY DEF StopDomain, Watched
<1>3. mon' \in Monitors /\ (mon.stopped => mon' = mon) /\ mon'.stage = mon.stage
  BY <1>t, <1>2, StoppedSame DEF Stopped
<1>4. TypeOK'
  BY <1>t, <1>1, <1>2, <1>3 DEF TypeOK, busVars
<1>5. InOnePlace' /\ Accounted' /\ Silent' /\ (mon'.stopped => Watched')
  BY <1>t, <1>1, <1>2, <1>3 DEF InOnePlace, Accounted, Silent, Watched, Ended, busVars
<1> QED BY <1>t, <1>2, <1>3, <1>4, <1>5 DEF IInv

LEMMA RetireKeeps ==
  ASSUME IInv, Retire
  PROVE  IInv' /\ mon' = NoMonitor
<1>t. TypeOK /\ InOnePlace /\ Accounted /\ (mon.stopped => Watched) /\ shell.out = <<>>
      /\ stdout \in Seq(Records) /\ "stopped" \in Records
  BY DEF IInv, TypeOK, Records
<1>1. /\ mon.stopped /\ mon' = NoMonitor /\ stdout' = Append(stdout, "stopped") /\ Disconnect
      /\ UNCHANGED <<service, births, process, stdin, shell>>
  BY DEF Retire
<1>2. Watched /\ ~ Starting /\ ~ Ended
  BY <1>t, <1>1 DEF InOnePlace
<1>3. NoMonitor \in Monitors /\ NoMonitor.stage = "none" /\ ~ NoMonitor.stopped
  BY DEF NoMonitor, Monitors
<1>4. stdout' \in Seq(Records) /\ Once(stdout', "stopped")
  <2>1. stdout' = stdout \o <<"stopped">> /\ <<"stopped">> \in Seq(Records)
    BY <1>t, <1>1, AppendIsConcat
  <2>2. Once(<<"stopped">>, "stopped") /\ Once(stdout, "stopped") /\ ~ Has(stdout, "stopped")
    BY <1>t, <1>2, Few DEF InOnePlace, Ended
  <2> QED BY <1>t, <2>1, <2>2, MoreHas
<1>5. TypeOK'
  BY <1>t, <1>1, <1>3, <1>4, EmptySeq DEF TypeOK, Disconnect
<1>6. ~ Starting' /\ ~ Watched'
  BY <1>1, <1>2, <1>3 DEF Starting, Watched
<1>7. InOnePlace' /\ Accounted' /\ Silent' /\ (mon'.stopped => Watched')
  BY <1>t, <1>1, <1>2, <1>3, <1>4, <1>6 DEF InOnePlace, Accounted, Silent, Disconnect
<1> QED BY <1>t, <1>1, <1>5, <1>7 DEF IInv

-----------------------------------------------------------------------------
LEMMA IInvInit == ASSUME Init PROVE IInv
<1>1. NoMonitor \in Monitors /\ NoMonitor.stage = "none" /\ ~ NoMonitor.stopped
  BY DEF NoMonitor, Monitors
<1>2. Quiet \in Shells /\ ~ Quiet.subscribed /\ ~ Quiet.retiring /\ Quiet.out = <<>>
  BY DEF Quiet, Shells, Phases, Reads, Pages, Orders, Words
<1>3. TypeOK
  BY <1>1, <1>2, EmptySeq DEF Init, TypeOK
<1>4. ~ Starting /\ ~ Ended /\ ~ Watched /\ Once(stdin, "start") /\ Once(stdout, "stopped")
  BY <1>1, Few DEF Init, Starting, Ended, Watched
<1>5. InOnePlace /\ Accounted /\ Silent /\ ~ mon.stopped /\ shell.out = <<>>
  BY <1>1, <1>2, <1>4 DEF Init, InOnePlace, Accounted, Silent
<1> QED BY <1>3, <1>5 DEF IInv

LEMMA IInvStep ==
  ASSUME IInv, [Next]_vars
  PROVE  IInv' /\ (mon.stopped => mon' \in {mon, NoMonitor})
<1>1. CASE Changes \/ ServiceExits \/ BusAnswers \/ Sample
  BY <1>1, BusKeeps
<1>2. CASE Monitor \/ SetupFails \/ MonitorFails
  BY <1>2, MonitorKeeps
<1>3. CASE StartDomain
  BY <1>3, StartKeeps
<1>4. CASE StopDomain
  BY <1>4, StopKeeps
<1>5. CASE Retire
  BY <1>5, RetireKeeps
<1>6. CASE Route
  BY <1>6, RouteKeeps
<1>7. CASE User \/ SetupExpired \/ OthersEnd
  BY <1>7, ClientKeeps
<1>8. CASE ProcessStarted
  BY <1>8, ProcessStartedKeeps
<1>9. CASE ProcessExits
  BY <1>9, ProcessExitsKeeps
<1>10. CASE Take \/ ReadSucceeds \/ ReadFails \/ ReadDiscarded
  BY <1>10, ReadKeeps
<1>11. CASE UNCHANGED vars
  BY <1>11 DEF vars, busVars, IInv, TypeOK, InOnePlace, Accounted, Silent, Starting, Watched, Ended
<1> QED BY <1>1, <1>2, <1>3, <1>4, <1>5, <1>6, <1>7, <1>8, <1>9, <1>10, <1>11 DEF Next

LEMMA Invariance == Spec => []IInv
<1>1. IInv /\ [Next]_vars => IInv'
  BY IInvStep
<1> QED BY <1>1, IInvInit, PTL DEF Spec

(* Every message, record and command is one its reader knows, and the      *)
(* monitor and the shell stay well typed, for any bounds.                  *)
THEOREM TypeCorrect == Spec => []TypeOK
<1>1. IInv => TypeOK
  BY DEF IInv
<1> QED BY <1>1, Invariance, PTL

(* Whatever the page, the bus and the process do, and however they         *)
(* interleave: a monitor that has stopped is removed, and its end told,    *)
(* before the domain gets another (StoppedIsRetired).                      *)
THEOREM RetiredBeforeRestart == Spec => StoppedIsRetired
<1>1. IInv /\ [Next]_vars => [mon.stopped => mon' \in {mon, NoMonitor}]_vars
  BY IInvStep
<1> QED BY <1>1, Invariance, PTL DEF Spec, StoppedIsRetired
=============================================================================
