------------------------ MODULE BoundServicesProofs -------------------------
(***************************************************************************)
(* Proofs about BoundServices, for any connections, services, clients and  *)
(* bounds: a process follows its binds, and a service lives once.          *)
(***************************************************************************)
EXTENDS BoundServices, SequenceFacts

(***************************************************************************)
(* The inductive invariant, in parts.                                      *)
(***************************************************************************)

\* The bind tokens last for everyone who is promised one.
PromisesInv == nextBind + Cardinality(Waiting) + Cardinality(Coming) <= MaxBinds + 1

\* The bindings of a service.
Bound(s) == {b \in Binding : b.token = s /\ \E i \in DOMAIN bindings : bindings[i] = b}

BindOf(b) == [kind |-> "bind", bind |-> b.bind]

\* What a service process hears is a life.
Life(heard) ==
    \A i \in DOMAIN heard :
        LET m == heard[i] IN
        /\ m.kind \in {"bind", "unbind"} => heard[1].kind = "create"
        /\ m.kind = "create" => i = 1
        /\ m.kind = "stop" => i = Len(heard)
        /\ m.kind = "unbind" => \E j \in 1 .. i - 1 : heard[j] = [kind |-> "bind", bind |-> m.bind]
        /\ m.kind = "bind" => \A j \in 1 .. i - 1 : heard[j].bind # m.bind

Silent(heard) == \A i \in DOMAIN heard : heard[i].kind # "stop"

Older(heard, n) == \A i \in DOMAIN heard : heard[i].bind < n

\* Nothing is known of a process that was not launched.
FreshInv(s) ==
    s >= nextSeq =>
        /\ processes[s] = Absent /\ child[s] = "none" /\ s \notin leaving
        /\ log[s] = <<>> /\ Bound(s) = {}
        /\ \A c \in Connections : <<c, s>> \notin accepted

\* A process of the map has been told nothing until it is ready, and is not stopped.
MapInv(s) ==
    processes[s] # Absent =>
        /\ s \notin leaving /\ child[s] # "reaped"
        /\ ~processes[s].ready => log[s] = <<>> /\ Bound(s) = {}
        /\ processes[s].ready =>
              /\ child[s] \in {"up", "broken", "exited"}
              /\ log[s] # <<>> /\ log[s][1].kind = "create"
              /\ Silent(log[s])

\* A binding of a process outlives it only until it is unbound, and a process that
\* lives was sent its BIND.
BindingsInv(s) ==
    \A b \in Bound(s) :
        /\ (processes[s] # Absent /\ processes[s].ready) \/ child[s] = "reaped"
        /\ child[s] \in Alive => \E i \in DOMAIN log[s] : log[s][i] = BindOf(b)

\* The tokens a process heard of were given out before.
LogInv(s) == Life(log[s]) /\ Older(log[s], nextBind)

Waits(c, s) == \E i \in DOMAIN processes[s].pending : processes[s].pending[i] = c

Holds(c, s) ==
    /\ processes[s] # Absent
    /\ Waits(c, s) \/ \E b \in Bound(s) : b.conn = c

\* A process that lives has the connections it was bound for, and has one unless the
\* last unbindService gave up.
ConnectionsInv(s) ==
    child[s] \in Alive =>
        /\ \A c \in Connections : <<c, s>> \in accepted => Holds(c, s)
        /\ processes[s] # Absent /\ (\A c \in Connections : ~Holds(c, s)) => sweepFailed

ProcessInv(s) ==
    FreshInv(s) /\ MapInv(s) /\ BindingsInv(s) /\ LogInv(s) /\ ConnectionsInv(s)

KeysInv == \A r, s \in Launched : processes[r].key = processes[s].key => r = s

\* A token of a service of the app that was not given out is unknown, so a service that
\* is started has not been told to stop.
LocalInv ==
    /\ \A token \in Locals : token >= MaxSeq + nextLocal =>
          /\ "create" \notin Heard(token) /\ "stop" \notin Heard(token)
          /\ \A t \in Clients : call[t].at \in {"create", "stop"} => call[t].token # token
    /\ \A t \in Clients : call[t].at = "send" => call[t].binding.token \in Locals
    /\ StoppedServicesAreGone

IInv ==
    /\ TypeOK /\ PromisesInv
    /\ \A s \in Processes : ProcessInv(s)
    /\ KeysInv /\ LocalInv

-----------------------------------------------------------------------------
(***************************************************************************)
(* Messages and bindings.                                                  *)
(***************************************************************************)

\* Messages of one kind for a list of bindings.
LEMMA MsgsFacts ==
    ASSUME NEW kind \in {"create", "bind", "unbind", "stop", "args"}, NEW bs \in Seq(Binding)
    PROVE  /\ Msgs(kind, bs) \in Seq(Message)
           /\ Len(Msgs(kind, bs)) = Len(bs)
           /\ \A i \in 1 .. Len(bs) : Msgs(kind, bs)[i] = [kind |-> kind, bind |-> bs[i].bind]
<1>1. DOMAIN bs = 1 .. Len(bs) /\ Len(bs) \in Nat /\ \A i \in 1 .. Len(bs) : bs[i] \in Binding
  OBVIOUS
<1>2. \A i \in 1 .. Len(bs) : [kind |-> kind, bind |-> bs[i].bind] \in Message
  BY <1>1 DEF Message, Binding
<1>3. Msgs(kind, bs) \in [1 .. Len(bs) -> Message]
  BY <1>1, <1>2 DEF Msgs
<1>4. QED
  BY <1>1, <1>3 DEF Msgs

\* One message without a binding.
LEMMA MsgFacts ==
    ASSUME NEW kind \in {"create", "stop", "args"}
    PROVE  /\ Msg(kind) \in Seq(Message) /\ Len(Msg(kind)) = 1
           /\ Msg(kind)[1] = [kind |-> kind, bind |-> 0]
BY DEF Msg, Message

\* The bindings of connections take the next bind tokens.
LEMMA NewBindingsFacts ==
    ASSUME TypeOK, NEW token \in Tokens, NEW cs \in Seq(Connections),
           nextBind + Len(cs) <= MaxBinds + 1
    PROVE  /\ NewBindings(token, cs) \in Seq(Binding)
           /\ Len(NewBindings(token, cs)) = Len(cs)
           /\ \A i \in 1 .. Len(cs) :
                NewBindings(token, cs)[i] =
                    [bind |-> nextBind + i - 1, token |-> token, conn |-> cs[i]]
<1>1. DOMAIN cs = 1 .. Len(cs) /\ Len(cs) \in Nat /\ \A i \in 1 .. Len(cs) : cs[i] \in Connections
  OBVIOUS
<1>2. nextBind \in Nat \ {0} /\ MaxBinds \in Nat
  BY BoundsAssumption DEF TypeOK
<1>3. \A i \in 1 .. Len(cs) : nextBind + i - 1 \in Binds
  BY <1>1, <1>2 DEF Binds
<1>4. \A i \in 1 .. Len(cs) :
        [bind |-> nextBind + i - 1, token |-> token, conn |-> cs[i]] \in Binding
  BY <1>1, <1>3 DEF Binding
<1>5. NewBindings(token, cs) \in [1 .. Len(cs) -> Binding]
  BY <1>1, <1>4 DEF NewBindings
<1>6. QED
  BY <1>1, <1>5 DEF NewBindings

\* The binding of one connection.
LEMMA OneBinding ==
    ASSUME TypeOK, NEW token \in Tokens, NEW c \in Connections, nextBind <= MaxBinds
    PROVE  /\ NewBindings(token, <<c>>) \in Seq(Binding)
           /\ Len(NewBindings(token, <<c>>)) = 1
           /\ NewBindings(token, <<c>>)[1] = [bind |-> nextBind, token |-> token, conn |-> c]
           /\ [bind |-> nextBind, token |-> token, conn |-> c] \in Binding
           /\ Msgs("bind", NewBindings(token, <<c>>)) \in Seq(Message)
           /\ Len(Msgs("bind", NewBindings(token, <<c>>))) = 1
           /\ Msgs("bind", NewBindings(token, <<c>>))[1] = [kind |-> "bind", bind |-> nextBind]
<1>1. <<c>> \in Seq(Connections) /\ Len(<<c>>) = 1 /\ <<c>>[1] = c
  OBVIOUS
<1>2. nextBind \in Nat /\ nextBind + 1 - 1 = nextBind /\ MaxBinds \in Nat
  BY BoundsAssumption DEF TypeOK
<1>3. nextBind + Len(<<c>>) <= MaxBinds + 1
  BY <1>1, <1>2
<1> DEFINE new == NewBindings(token, <<c>>)
<1>4. new \in Seq(Binding) /\ Len(new) = 1
      /\ new[1] = [bind |-> nextBind, token |-> token, conn |-> c]
  <2>1. /\ new \in Seq(Binding) /\ Len(new) = Len(<<c>>)
        /\ \A i \in 1 .. Len(<<c>>) :
             new[i] = [bind |-> nextBind + i - 1, token |-> token, conn |-> <<c>>[i]]
    BY <1>1, <1>3, NewBindingsFacts
  <2>2. 1 \in 1 .. Len(<<c>>)
    OBVIOUS
  <2>3. QED
    BY <1>1, <1>2, <2>1, <2>2
<1> HIDE DEF new
<1>5. /\ Msgs("bind", new) \in Seq(Message) /\ Len(Msgs("bind", new)) = 1
      /\ Msgs("bind", new)[1] = [kind |-> "bind", bind |-> new[1].bind]
  <2>1. PICK q \in Seq(Binding) : q = new
    BY <1>4
  <2>2. /\ Msgs("bind", q) \in Seq(Message) /\ Len(Msgs("bind", q)) = Len(q)
        /\ \A i \in 1 .. Len(q) : Msgs("bind", q)[i] = [kind |-> "bind", bind |-> q[i].bind]
    BY MsgsFacts
  <2>3. 1 \in 1 .. Len(q)
    BY <1>4, <2>1
  <2>4. QED
    BY <1>4, <2>1, <2>2, <2>3
<1>6. new[1] \in Binding
  BY SMTT(30), <1>4
<1>7. QED
  BY <1>4, <1>5, <1>6 DEF new

\* What Told does to the log.
LEMMA ToldFacts ==
    ASSUME log \in [Tokens -> Seq(Message)], NEW token \in Tokens, NEW msgs \in Seq(Message)
    PROVE  /\ Told(token, msgs) \in [Tokens -> Seq(Message)]
           /\ Told(token, msgs)[token] = log[token] \o msgs
           /\ \A t \in Tokens \ {token} : Told(token, msgs)[t] = log[t]
<1>1. log[token] \o msgs \in Seq(Message)
  OBVIOUS
<1>2. QED
  BY <1>1 DEF Told

\* The elements of two sequences, one behind the other.
LEMMA ConcatFacts ==
    ASSUME NEW S, NEW p \in Seq(S), NEW q \in Seq(S)
    PROVE  /\ p \o q \in Seq(S) /\ Len(p \o q) = Len(p) + Len(q)
           /\ DOMAIN (p \o q) = 1 .. Len(p) + Len(q)
           /\ \A i \in DOMAIN p : (p \o q)[i] = p[i] /\ i \in 1 .. Len(p) + Len(q)
           /\ \A i \in DOMAIN q : (p \o q)[Len(p) + i] = q[i] /\ Len(p) + i \in 1 .. Len(p) + Len(q)
           /\ \A i \in DOMAIN (p \o q) : i \in DOMAIN p \/ i - Len(p) \in DOMAIN q
           /\ DOMAIN p = 1 .. Len(p) /\ DOMAIN q = 1 .. Len(q)
           /\ Len(p) \in Nat /\ Len(q) \in Nat
           /\ \A i \in DOMAIN (p \o q) :
                (p \o q)[i] = IF i \in DOMAIN p THEN p[i] ELSE q[i - Len(p)]
<1>1. /\ p \o q \in Seq(S) /\ Len(p \o q) = Len(p) + Len(q)
      /\ DOMAIN p = 1 .. Len(p) /\ DOMAIN q = 1 .. Len(q) /\ Len(p) \in Nat /\ Len(q) \in Nat
  OBVIOUS
<1>2. DOMAIN (p \o q) = 1 .. Len(p) + Len(q)
  BY <1>1
<1>3. \A i \in 1 .. Len(p) + Len(q) : (p \o q)[i] = IF i <= Len(p) THEN p[i] ELSE q[i - Len(p)]
  BY <1>1
<1>4. QED
  BY <1>1, <1>2, <1>3

\* A sequence without elements.
LEMMA EmptyIfNoElement ==
    ASSUME NEW S, NEW q \in Seq(S), \A i \in DOMAIN q : FALSE
    PROVE  q = <<>>
<1>1. Len(q) \in Nat /\ DOMAIN q = 1 .. Len(q)
  OBVIOUS
<1>2. Len(q) = 0
  <2> SUFFICES ASSUME Len(q) # 0 PROVE FALSE
    OBVIOUS
  <2>1. 1 \in 1 .. Len(q)
    BY <1>1
  <2>2. QED
    BY <1>1, <2>1
<1>3. QED
  BY <1>2

\* The services that unbindService tells are those before the first that is gone.
LEMMA ToldOfFacts ==
    ASSUME NEW bs \in Seq(Binding)
    PROVE  /\ ToldOf(bs) \in Seq(Binding)
           /\ \A i \in DOMAIN ToldOf(bs) :
                 Reachable(ToldOf(bs)[i]) /\ \E j \in DOMAIN bs : bs[j] = ToldOf(bs)[i]
<1> DEFINE gone == {i \in DOMAIN bs : ~Reachable(bs[i])}
<1>1. DOMAIN bs = 1 .. Len(bs) /\ Len(bs) \in Nat
  OBVIOUS
<1>2. CASE gone = {}
  BY <1>2 DEF ToldOf
<1>3. CASE gone # {}
  <2> DEFINE first == CHOOSE i \in gone : \A j \in gone : i <= j
  <2>1. gone \in SUBSET Nat
    BY <1>1
  <2> HIDE DEF gone
  <2>2. first \in gone /\ \A j \in gone : first <= j
    BY <1>3, <2>1, LeastNatural
  <2> USE DEF gone
  <2>3. ToldOf(bs) = SubSeq(bs, 1, first - 1)
    BY <1>3 DEF ToldOf
  <2> HIDE DEF first
  <2>4. first \in 1 .. Len(bs)
    BY <1>1, <2>2
  <2>5. /\ ToldOf(bs) \in Seq(Binding) /\ DOMAIN ToldOf(bs) = 1 .. first - 1
        /\ \A i \in 1 .. first - 1 : ToldOf(bs)[i] = bs[i]
    BY <1>1, <2>3, <2>4
  <2>6. \A i \in 1 .. first - 1 : i \in DOMAIN bs /\ i \notin gone
    BY <1>1, <2>2, <2>4
  <2>7. QED
    BY <2>5, <2>6
<1>4. QED
  BY <1>2, <1>3

-----------------------------------------------------------------------------
(***************************************************************************)
(* The bind tokens that are promised.                                      *)
(***************************************************************************)

\* Where a client is determines what its call knows.
LEMMA CallFacts ==
    ASSUME TypeOK, NEW t \in Clients
    PROVE  /\ call[t].at \in {"create", "use"} =>
                /\ call[t] \in Use /\ call[t].token \in Locals
                /\ call[t].conn \in Connections \cup {Absent}
           /\ call[t].at = "send" => call[t].binding \in Binding
           /\ call[t].at = "stop" => call[t].token \in Locals
<1>1. call[t] \in Calls
  BY DEF TypeOK
<1>2. QED
  BY <1>1 DEF Calls, Idle, Use

\* The entry of a process of the map.
LEMMA EntryFacts ==
    ASSUME TypeOK, NEW s \in Launched
    PROVE  /\ s \in Processes /\ processes[s] # Absent
           /\ processes[s] \in Entry /\ processes[s].pending \in Seq(Connections)
           /\ processes[s].key \in Keys
BY DEF TypeOK, Launched, Entry

\* The promises are finitely many.
LEMMA PromisesFinite ==
    ASSUME TypeOK
    PROVE  /\ IsFiniteSet(Waiting) /\ Cardinality(Waiting) \in Nat
           /\ IsFiniteSet(Coming) /\ Cardinality(Coming) \in Nat
<1>1. IsFiniteSet(Coming)
  <2>1. Coming \subseteq Clients
    BY DEF Coming
  <2>2. QED
    BY <2>1, BoundsAssumption, FS_Subset
<1>2. IsFiniteSet(Waiting)
  <2> DEFINE W == {{s} \X DOMAIN processes[s].pending : s \in Launched}
  <2>1. IsFiniteSet(Launched)
    <3>1. IsFiniteSet(1 .. MaxSeq)
      BY BoundsAssumption, FS_Interval
    <3>2. Launched \subseteq 1 .. MaxSeq
      BY DEF Launched, Processes
    <3>3. QED
      BY <3>1, <3>2, FS_Subset
  <2>2. IsFiniteSet(W)
    <3> DEFINE f == [s \in Launched |-> {s} \X DOMAIN processes[s].pending]
    <3>1. f \in Surjection(Launched, W)
      BY DEF Surjection
    <3>2. QED
      BY <2>1, <3>1, FS_Surjection
  <2>3. ASSUME NEW s \in Launched
        PROVE  IsFiniteSet({s} \X DOMAIN processes[s].pending)
    <3>1. processes[s].pending \in Seq(Connections)
      BY DEF TypeOK, Entry, Launched
    <3>2. DOMAIN processes[s].pending = 1 .. Len(processes[s].pending)
          /\ Len(processes[s].pending) \in Nat
      BY <3>1
    <3>3. IsFiniteSet(1 .. Len(processes[s].pending))
      BY <3>2, FS_Interval
    <3>4. IsFiniteSet({s})
      BY FS_Singleton
    <3>5. QED
      BY <3>2, <3>3, <3>4, FS_Product
  <2>4. \A w \in W : IsFiniteSet(w)
    BY <2>3
  <2> HIDE DEF W
  <2>5. IsFiniteSet(UNION W)
    BY <2>2, <2>4, FS_UNION
  <2>6. QED
    BY <2>5 DEF W, Waiting
<1>3. QED
  BY <1>1, <1>2, FS_CardinalityType

\* A set that gains one element at most.
LEMMA OneMore ==
    ASSUME NEW S, NEW T, NEW e, IsFiniteSet(S), T \subseteq S \cup {e}
    PROVE  IsFiniteSet(T) /\ Cardinality(T) \in Nat /\ Cardinality(T) <= Cardinality(S) + 1
<1>1. IsFiniteSet(S \cup {e}) /\ Cardinality(S \cup {e}) <= Cardinality(S) + 1
      /\ Cardinality(S \cup {e}) \in Nat /\ Cardinality(S) \in Nat
  BY FS_AddElement, FS_CardinalityType
<1>2. IsFiniteSet(T) /\ Cardinality(T) <= Cardinality(S \cup {e}) /\ Cardinality(T) \in Nat
  BY <1>1, FS_Subset, FS_CardinalityType
<1>3. QED
  BY <1>1, <1>2

-----------------------------------------------------------------------------
(***************************************************************************)
(* Type correctness.                                                       *)
(***************************************************************************)

\* The initial state has the declared types.
LEMMA TypeInit == Init => TypeOK
<1> SUFFICES ASSUME Init PROVE TypeOK
  OBVIOUS
<1> USE BoundsAssumption
<1>1. /\ 1 \in 1 .. MaxSeq + 1 /\ 1 \in 1 .. MaxBinds + 1 /\ 1 \in 1 .. MaxLocal + 1
  OBVIOUS
<1>2. <<>> \in Seq(Binding) /\ <<>> \in Seq(Message)
  OBVIOUS
<1>3. QED
  BY <1>1, <1>2 DEF Init, TypeOK, Calls

\* A bind takes a token only while there are tokens for everyone.
LEMMA TokenLeft ==
    ASSUME TypeOK, TokensLast
    PROVE  nextBind <= MaxBinds
<1>1. /\ Cardinality(Waiting) \in Nat /\ Cardinality(Coming) \in Nat
      /\ nextBind \in Nat /\ MaxBinds \in Nat
  BY PromisesFinite, BoundsAssumption DEF TypeOK
<1>2. QED
  BY <1>1 DEF TokensLast

\* The connections that wait for one process.
LEMMA WaitersCount ==
    ASSUME TypeOK, NEW s \in Launched, NEW n, n = Len(processes[s].pending)
    PROVE  /\ n \in Nat /\ {s} \X (1 .. n) \subseteq Waiting
           /\ DOMAIN processes[s].pending = 1 .. n
           /\ Cardinality({s} \X (1 .. n)) = n
<1>1. n \in Nat /\ DOMAIN processes[s].pending = 1 .. n
  BY EntryFacts
<1>2. {s} \X (1 .. n) \subseteq Waiting
  BY <1>1 DEF Waiting
<1>3. IsFiniteSet(1 .. n) /\ Cardinality(1 .. n) = n
  BY <1>1, FS_Interval
<1>4. IsFiniteSet({s}) /\ Cardinality({s}) = 1
  BY FS_Singleton
<1>5. Cardinality({s} \X (1 .. n)) = Cardinality({s}) * Cardinality(1 .. n)
  BY <1>3, <1>4, FS_Product
<1>6. QED
  BY <1>1, <1>2, <1>3, <1>4, <1>5

\* Everyone who waits for a process gets a token.
LEMMA WaitersTokens ==
    ASSUME TypeOK, PromisesInv, NEW s \in Launched
    PROVE  nextBind + Len(processes[s].pending) <= MaxBinds + 1
<1> DEFINE n == Len(processes[s].pending)
<1>1. n \in Nat /\ {s} \X (1 .. n) \subseteq Waiting /\ Cardinality({s} \X (1 .. n)) = n
  BY WaitersCount
<1> HIDE DEF n
<1>2. n <= Cardinality(Waiting)
  BY <1>1, PromisesFinite, FS_Subset
<1>3. /\ Cardinality(Waiting) \in Nat /\ Cardinality(Coming) \in Nat
      /\ nextBind \in Nat /\ MaxBinds \in Nat
  BY PromisesFinite, BoundsAssumption DEF TypeOK
<1>4. nextBind + n <= MaxBinds + 1
  BY <1>1, <1>2, <1>3 DEF PromisesInv
<1>5. QED
  BY <1>4 DEF n

\* A client on its way to a binding gets a token.
LEMMA ComersToken ==
    ASSUME TypeOK, PromisesInv, NEW t \in Coming
    PROVE  nextBind <= MaxBinds
<1>1. IsFiniteSet({t}) /\ Cardinality({t}) = 1
  BY FS_Singleton
<1>2. 1 <= Cardinality(Coming)
  BY <1>1, PromisesFinite, FS_Subset
<1>3. /\ Cardinality(Waiting) \in Nat /\ Cardinality(Coming) \in Nat
      /\ nextBind \in Nat /\ MaxBinds \in Nat
  BY PromisesFinite, BoundsAssumption DEF TypeOK
<1>4. QED
  BY <1>2, <1>3 DEF PromisesInv

\* The map without the processes that were found dead.
LEMMA KeptFacts ==
    ASSUME TypeOK, NEW k \in Keys
    PROVE  /\ Kept(k) \in [Processes -> Entry \cup {Absent}]
           /\ Waited(k) \in [Processes -> Alive \cup {"none", "broken", "exited", "reaped"}]
           /\ \A s \in Processes :
                \/ Kept(k)[s] = processes[s] /\ Waited(k)[s] = child[s]
                \/ /\ Kept(k)[s] = Absent /\ Waited(k)[s] = "reaped" /\ child[s] = "exited"
                   /\ processes[s] # Absent /\ processes[s].key = k
BY DEF Kept, Waited, Forgotten, Existing, Exited, TypeOK, Launched

\* bindService for a service with a process keeps the types.
LEMMA TypeBindRemote ==
    ASSUME TypeOK, NEW c \in Connections, NEW k \in Keys, BindRemote(c, k)
    PROVE  TypeOK'
<1> USE BoundsAssumption
<1>1. nextBind <= MaxBinds /\ nextBind + 1 \in 1 .. MaxBinds + 1
  BY TokenLeft DEF BindRemote, TypeOK
<1>2. ASSUME NEW s \in Existing(k), BindReady(c, s)
      PROVE  TypeOK'
  <2>1. s \in Processes /\ s \in Tokens
    BY DEF Existing, Launched, Tokens
  <2> DEFINE new == NewBindings(s, <<c>>)
  <2>a. new \in Seq(Binding) /\ Msgs("bind", new) \in Seq(Message)
    BY <1>1, <2>1, OneBinding
  <2> HIDE DEF new
  <2>b. bindings \in Seq(Binding) /\ log \in [Tokens -> Seq(Message)]
    BY DEF TypeOK
  <2>2. bindings' \in Seq(Binding) /\ nextBind' \in 1 .. MaxBinds + 1
    <3>1. bindings' = bindings \o new /\ nextBind' = nextBind + 1
      BY <1>2 DEF BindReady, new
    <3>2. QED
      BY <1>1, <2>a, <2>b, <3>1
  <2>3. log' \in [Tokens -> Seq(Message)]
    <3>1. log' = log \/ log' = Told(s, Msgs("bind", new))
      BY <1>2 DEF BindReady, new
    <3>2. QED
      BY <2>1, <2>a, <2>b, <3>1, ToldFacts
  <2>4. accepted' \subseteq Connections \X Tokens
    BY <1>2, <2>1 DEF BindReady, TypeOK
  <2>5. QED
    BY <1>2, <2>2, <2>3, <2>4
    DEF BindReady, BindRemote, TypeOK, remoteVars, localVars
<1>3. ASSUME NEW s \in Existing(k), BindPending(c, s)
      PROVE  TypeOK'
  <2>1. s \in Processes /\ s \in Tokens /\ processes[s] \in Entry
    BY EntryFacts DEF Existing, Tokens
  <2>2. [processes[s] EXCEPT !.pending = Append(@, c)] \in Entry
    <3>1. Append(processes[s].pending, c) \in Seq(Connections)
      BY EntryFacts DEF Existing
    <3>2. QED
      BY <2>1, <3>1 DEF Entry
  <2>3. processes' \in [Processes -> Entry \cup {Absent}]
    BY <1>3, <2>1, <2>2 DEF BindPending, TypeOK
  <2>4. accepted' \subseteq Connections \X Tokens
    BY <1>3, <2>1 DEF BindPending, TypeOK
  <2>5. UNCHANGED <<child, leaving, nextSeq, bindings, nextBind, log, localVars,
                    publishing, connected, sweepFailed>>
    BY <1>3 DEF BindPending, BindRemote, bindVars
  <2>6. QED
    BY <2>3, <2>4, <2>5 DEF TypeOK, localVars
<1>4. CASE Launch(c, k)
  <2>1. nextSeq \in Processes /\ nextSeq \in Tokens /\ nextSeq + 1 \in 1 .. MaxSeq + 1
    BY <1>4 DEF Launch, TypeOK, Processes, Tokens
  <2>2. [key |-> k, attached |-> FALSE, ready |-> FALSE, pending |-> <<c>>] \in Entry
    BY DEF Entry
  <2>3. processes' \in [Processes -> Entry \cup {Absent}]
    BY <1>4, <2>1, <2>2, KeptFacts DEF Launch
  <2>4. child' \in [Processes -> Alive \cup {"none", "broken", "exited", "reaped"}]
    BY <1>4, <2>1, KeptFacts DEF Launch, Alive
  <2>5. accepted' \subseteq Connections \X Tokens
    BY <1>4, <2>1 DEF Launch, TypeOK
  <2>6. nextSeq' \in 1 .. MaxSeq + 1
    BY <1>4, <2>1 DEF Launch
  <2>7. QED
    BY <1>4, <2>3, <2>4, <2>5, <2>6 DEF Launch, BindRemote, TypeOK, bindVars, localVars
<1>5. CASE LaunchFails(k)
  <2>1. nextSeq' \in 1 .. MaxSeq + 1
    BY <1>5 DEF LaunchFails, TypeOK
  <2>2. QED
    BY <1>5, <2>1, KeptFacts DEF LaunchFails, BindRemote, TypeOK, bindVars, localVars
<1>6. QED
  BY <1>2, <1>3, <1>4, <1>5 DEF BindRemote

\* The bindings of the connections that waited, and the messages about the first n.
LEMMA AttachFacts ==
    ASSUME TypeOK, PromisesInv, NEW s \in Launched, NEW all,
           all = NewBindings(s, processes[s].pending)
    PROVE  /\ all \in Seq(Binding) /\ Len(all) = Len(processes[s].pending)
           /\ DOMAIN all = 1 .. Len(all) /\ Len(all) \in Nat
           /\ nextBind + Len(all) \in 1 .. MaxBinds + 1
           /\ \A i \in 1 .. Len(all) :
                all[i] = [bind |-> nextBind + i - 1, token |-> s, conn |-> processes[s].pending[i]]
           /\ \A n \in 0 .. Len(all) :
                /\ SubSeq(all, 1, n) \in Seq(Binding) /\ Len(SubSeq(all, 1, n)) = n
                /\ \A i \in 1 .. n : SubSeq(all, 1, n)[i] = all[i]
                /\ nextBind + n \in 1 .. MaxBinds + 1
                /\ Msg("create") \o Msgs("bind", SubSeq(all, 1, n)) \in Seq(Message)
           /\ SubSeq(all, 1, Len(all)) = all
           /\ Msg("create") \o Msgs("bind", all) \in Seq(Message)
<1>1. s \in Tokens /\ processes[s].pending \in Seq(Connections)
      /\ DOMAIN processes[s].pending = 1 .. Len(processes[s].pending)
  BY EntryFacts DEF Tokens
<1>2. nextBind + Len(processes[s].pending) <= MaxBinds + 1
  BY WaitersTokens
<1>3. /\ all \in Seq(Binding) /\ Len(all) = Len(processes[s].pending)
      /\ \A i \in 1 .. Len(all) :
           all[i] = [bind |-> nextBind + i - 1, token |-> s, conn |-> processes[s].pending[i]]
  BY <1>1, <1>2, NewBindingsFacts
<1>4. DOMAIN all = 1 .. Len(all) /\ Len(all) \in Nat
  BY <1>3
<1>5. nextBind \in Nat \ {0} /\ MaxBinds \in Nat
  BY BoundsAssumption DEF TypeOK
<1>6. nextBind + Len(all) \in 1 .. MaxBinds + 1
  BY <1>2, <1>3, <1>4, <1>5
<1>7. ASSUME NEW n \in 0 .. Len(all)
      PROVE  /\ SubSeq(all, 1, n) \in Seq(Binding) /\ Len(SubSeq(all, 1, n)) = n
             /\ \A i \in 1 .. n : SubSeq(all, 1, n)[i] = all[i]
             /\ nextBind + n \in 1 .. MaxBinds + 1
             /\ Msg("create") \o Msgs("bind", SubSeq(all, 1, n)) \in Seq(Message)
  <2>1. n \in Nat /\ n <= Len(all)
    BY <1>4
  <2>2. /\ SubSeq(all, 1, n) \in Seq(Binding) /\ Len(SubSeq(all, 1, n)) = n
        /\ \A i \in 1 .. n : SubSeq(all, 1, n)[i] = all[i]
    BY <1>3, <1>4, <2>1
  <2>3. nextBind + n \in 1 .. MaxBinds + 1
    BY <1>4, <1>5, <1>6, <2>1
  <2>4. Msg("create") \in Seq(Message) /\ Msgs("bind", SubSeq(all, 1, n)) \in Seq(Message)
    BY <2>2, MsgFacts, MsgsFacts
  <2>5. Msg("create") \o Msgs("bind", SubSeq(all, 1, n)) \in Seq(Message)
    BY <2>4
  <2>6. QED
    BY <2>2, <2>3, <2>5
<1>8. SubSeq(all, 1, Len(all)) = all /\ Len(all) \in 0 .. Len(all)
  BY <1>3, <1>4
<1>9. QED
  BY <1>3, <1>4, <1>6, <1>7, <1>8

\* The end of an attach, told as one: it got to the n-th connection that waited, and
\* the last BIND may have failed.
LEMMA FinishAttachFacts ==
    ASSUME TypeOK, PromisesInv, NEW s \in Processes, FinishAttach(s),
           NEW all, all = NewBindings(s, processes[s].pending)
    PROVE  /\ s \in Launched /\ child[s] = "bound"
           /\ \/ child' = [child EXCEPT ![s] = "broken"] /\ UNCHANGED <<processes, bindVars>>
              \/ \E n, m \in 0 .. Len(all) :
                   /\ m <= n
                   /\ processes' = [processes EXCEPT ![s].ready = TRUE, ![s].pending = <<>>]
                   /\ bindings' = bindings \o SubSeq(all, 1, n)
                   /\ log' = Told(s, Msg("create") \o Msgs("bind", SubSeq(all, 1, m)))
                   /\ nextBind' = nextBind + n
                   /\ \/ child' = [child EXCEPT ![s] = "up"] /\ n = Len(all) /\ m = Len(all)
                      \/ child' = [child EXCEPT ![s] = "broken"]
           /\ UNCHANGED <<leaving, nextSeq, localVars, publishing, history>>
<1>1. s \in Launched /\ child[s] = "bound"
  BY DEF FinishAttach
<1>2. /\ SubSeq(all, 1, Len(all)) = all /\ Len(all) \in 0 .. Len(all)
      /\ DOMAIN all = 1 .. Len(all) /\ Len(all) \in Nat
  BY <1>1, AttachFacts
<1>3. \A n \in DOMAIN all : n - 1 \in 0 .. Len(all) /\ n \in 0 .. Len(all) /\ n - 1 <= n
  BY <1>2
<1>4. Len(all) <= Len(all)
  BY <1>2
<1>5. QED
  BY <1>1, <1>2, <1>3, <1>4 DEF FinishAttach

\* The steps of a service process keep the types.
LEMMA TypeProcess ==
    ASSUME TypeOK, PromisesInv, NEW s \in Processes, ProcessStep(s)
    PROVE  TypeOK'
<1>1. CASE AttachApplication(s)
  <2>1. processes' \in [Processes -> Entry \cup {Absent}]
    <3>1. s \in Launched => [processes[s] EXCEPT !.attached = TRUE] \in Entry
      BY EntryFacts DEF Entry
    <3>2. processes \in [Processes -> Entry \cup {Absent}]
      BY DEF TypeOK
    <3>3. processes' = [processes EXCEPT ![s] = IF s \in Launched THEN [@ EXCEPT !.attached = TRUE] ELSE @]
      BY <1>1 DEF AttachApplication
    <3>4. QED
      BY <3>1, <3>2, <3>3
  <2>2. child' \in [Processes -> Alive \cup {"none", "broken", "exited", "reaped"}]
    BY <1>1 DEF AttachApplication, TypeOK, Alive
  <2>3. QED
    BY <1>1, <2>1, <2>2 DEF AttachApplication, TypeOK, localVars, bindVars, history
<1>2. CASE BindApplication(s)
  BY <1>2 DEF BindApplication, TypeOK, Alive, localVars, bindVars, history
<1>3. CASE FinishAttach(s)
  <2> DEFINE all == NewBindings(s, processes[s].pending)
  <2>1. /\ s \in Launched
        /\ \/ child' = [child EXCEPT ![s] = "broken"] /\ UNCHANGED <<processes, bindVars>>
           \/ \E n, m \in 0 .. Len(all) :
                   /\ m <= n
                   /\ processes' = [processes EXCEPT ![s].ready = TRUE, ![s].pending = <<>>]
                   /\ bindings' = bindings \o SubSeq(all, 1, n)
                   /\ log' = Told(s, Msg("create") \o Msgs("bind", SubSeq(all, 1, m)))
                   /\ nextBind' = nextBind + n
                   /\ \/ child' = [child EXCEPT ![s] = "up"] /\ n = Len(all) /\ m = Len(all)
                      \/ child' = [child EXCEPT ![s] = "broken"]
        /\ UNCHANGED <<leaving, nextSeq, localVars, publishing, history>>
    BY <1>3, FinishAttachFacts
  <2> HIDE DEF all
  <2>2. CASE child' = [child EXCEPT ![s] = "broken"] /\ UNCHANGED <<processes, bindVars>>
    BY <2>1, <2>2 DEF TypeOK, localVars, bindVars, history
  <2>3. ASSUME NEW n \in 0 .. Len(all), NEW m \in 0 .. Len(all),
               processes' = [processes EXCEPT ![s].ready = TRUE, ![s].pending = <<>>],
               bindings' = bindings \o SubSeq(all, 1, n),
               log' = Told(s, Msg("create") \o Msgs("bind", SubSeq(all, 1, m))),
               nextBind' = nextBind + n,
               child' = [child EXCEPT ![s] = "up"] \/ child' = [child EXCEPT ![s] = "broken"]
        PROVE  TypeOK'
    <3>1. /\ SubSeq(all, 1, n) \in Seq(Binding) /\ nextBind + n \in 1 .. MaxBinds + 1
          /\ Msg("create") \o Msgs("bind", SubSeq(all, 1, m)) \in Seq(Message)
      BY <2>1, AttachFacts DEF all
    <3>2. processes' \in [Processes -> Entry \cup {Absent}]
      <4>1. [processes[s] EXCEPT !.ready = TRUE, !.pending = <<>>] \in Entry
        <5>1. processes[s] \in Entry /\ <<>> \in Seq(Connections)
          BY <2>1, EntryFacts
        <5>2. QED
          BY <5>1 DEF Entry
      <4>2. processes \in [Processes -> Entry \cup {Absent}]
        BY DEF TypeOK
      <4>3. processes' = [processes EXCEPT ![s] = [processes[s] EXCEPT !.ready = TRUE, !.pending = <<>>]]
        BY <2>1, <2>3, <4>2, EntryFacts DEF Entry
      <4>4. QED
        BY <4>1, <4>2, <4>3
    <3>3. bindings' \in Seq(Binding) /\ nextBind' \in 1 .. MaxBinds + 1
      BY <2>3, <3>1 DEF TypeOK
    <3>4. log' \in [Tokens -> Seq(Message)]
      BY <2>3, <3>1, ToldFacts DEF TypeOK, Tokens
    <3>5. child' \in [Processes -> Alive \cup {"none", "broken", "exited", "reaped"}]
      BY <2>3 DEF TypeOK, Alive
    <3>6. QED
      BY <2>1, <3>2, <3>3, <3>4, <3>5 DEF TypeOK, localVars, bindVars, history
  <2>4. QED
    BY <2>1, <2>2, <2>3
<1>4. CASE FinishAttachUnknown(s)
  BY <1>4 DEF FinishAttachUnknown, TypeOK, Alive, localVars, bindVars, history
<1>5. CASE Die(s)
  BY <1>5 DEF Die, TypeOK, localVars, bindVars, history
<1>6. CASE LauncherExits(s)
  BY <1>6 DEF LauncherExits, TypeOK, localVars, bindVars, history
<1>7. CASE Reap(s)
  BY <1>7 DEF Reap, TypeOK, localVars, bindVars, history
<1>8. QED
  BY <1>1, <1>2, <1>3, <1>4, <1>5, <1>6, <1>7 DEF ProcessStep

-----------------------------------------------------------------------------
(***************************************************************************)
(* What unbindService does.                                                *)
(***************************************************************************)

\* The connection no longer waits for any process; the others wait as before.
LEMMA WithdrawnFacts ==
    ASSUME TypeOK, NEW c \in Connections
    PROVE  /\ Withdrawn(c) \in [Processes -> Entry \cup {Absent}]
           /\ \A s \in Processes : processes[s] = Absent => Withdrawn(c)[s] = Absent
           /\ \A s \in Processes : processes[s] # Absent =>
                /\ Withdrawn(c)[s] # Absent /\ Withdrawn(c)[s] \in Entry
                /\ Withdrawn(c)[s].key = processes[s].key
                /\ Withdrawn(c)[s].ready = processes[s].ready
                /\ Len(Withdrawn(c)[s].pending) <= Len(processes[s].pending)
                /\ \A i \in DOMAIN processes[s].pending : processes[s].pending[i] # c =>
                     \E j \in DOMAIN Withdrawn(c)[s].pending :
                        Withdrawn(c)[s].pending[j] = processes[s].pending[i]
<1>1. ASSUME NEW s \in Processes, processes[s] = Absent
      PROVE  Withdrawn(c)[s] = Absent
  BY <1>1 DEF Withdrawn, Launched
<1>2. ASSUME NEW s \in Processes, processes[s] # Absent
      PROVE  /\ Withdrawn(c)[s] # Absent /\ Withdrawn(c)[s] \in Entry
             /\ Withdrawn(c)[s].key = processes[s].key
             /\ Withdrawn(c)[s].ready = processes[s].ready
             /\ Len(Withdrawn(c)[s].pending) <= Len(processes[s].pending)
             /\ \A i \in DOMAIN processes[s].pending : processes[s].pending[i] # c =>
                  \E j \in DOMAIN Withdrawn(c)[s].pending :
                     Withdrawn(c)[s].pending[j] = processes[s].pending[i]
  <2> DEFINE p == processes[s].pending
             others == Connections \ {c}
             q == Retain(p, others)
  <2>1. processes[s] \in Entry /\ p \in Seq(Connections) /\ s \in Launched
    BY <1>2, EntryFacts DEF Launched
  <2> HIDE DEF p, others
  <2>2. /\ q \in Seq(Connections) /\ Len(q) <= Len(p)
        /\ \A j \in DOMAIN p : p[j] \in others => \E i \in DOMAIN q : q[i] = p[j]
    BY <2>1, RetainFacts
  <2> USE DEF p, others
  <2>3. \A j \in DOMAIN p : p[j] \in Connections
    BY <2>1
  <2>4. Withdrawn(c)[s] = [processes[s] EXCEPT !.pending = q]
    BY <2>1 DEF Withdrawn
  <2> HIDE DEF q
  <2>5. [processes[s] EXCEPT !.pending = q] \in Entry
    BY <2>1, <2>2 DEF Entry
  <2>6. Withdrawn(c)[s] # Absent
    BY <2>4, <2>5, EntryAssumption
  <2>7. /\ Withdrawn(c)[s].pending = q /\ Withdrawn(c)[s].key = processes[s].key
        /\ Withdrawn(c)[s].ready = processes[s].ready
    BY <2>1, <2>4 DEF Entry
  <2> HIDE DEF p
  <2>8. \A i \in DOMAIN p : p[i] # c => \E j \in DOMAIN q : q[j] = p[i]
    BY <2>2, <2>3
  <2>9. QED
    BY <2>2, <2>4, <2>5, <2>6, <2>7, <2>8 DEF p
<1>3. Withdrawn(c) \in [Processes -> Entry \cup {Absent}]
  <2>1. DOMAIN Withdrawn(c) = Processes
    BY DEF Withdrawn
  <2>2. Withdrawn(c) = [s \in Processes |-> Withdrawn(c)[s]]
    BY DEF Withdrawn
  <2>3. QED
    BY <1>1, <1>2, <2>1, <2>2
<1>4. QED
  BY <1>1, <1>2, <1>3

\* What a service hears of an unbind: UNBIND for each of its bindings that leaves and can be
\* told, and STOP if it ends.
TellsUnbound(t, told, removed, finished) ==
    \E u \in Seq(Message) :
       /\ \A i \in DOMAIN u :
            /\ u[i].kind = "unbind"
            /\ \E j \in DOMAIN removed :
                 /\ removed[j].token = t /\ Reachable(removed[j])
                 /\ u[i].bind = removed[j].bind
       /\ \/ told = log[t] \o u
          \/ t \in finished /\ told = (log[t] \o u) \o Msg("stop")

\* What a service hears of an unbind: UNBIND for bindings it had, and then STOP if it
\* is finished.
LEMMA UnboundFacts ==
    ASSUME TypeOK, NEW removed \in Seq(Binding), NEW finished
    PROVE  /\ Unbound(removed, finished) \in [Tokens -> Seq(Message)]
           /\ \A t \in Tokens : TellsUnbound(t, Unbound(removed, finished)[t], removed, finished)
<1>1. ASSUME NEW t \in Tokens
      PROVE  /\ Unbound(removed, finished)[t] \in Seq(Message)
             /\ \E u \in Seq(Message) :
                /\ \A i \in DOMAIN u :
                     /\ u[i].kind = "unbind"
                     /\ \E j \in DOMAIN removed :
                          /\ removed[j].token = t /\ Reachable(removed[j])
                          /\ u[i].bind = removed[j].bind
                /\ \/ Unbound(removed, finished)[t] = log[t] \o u
                   \/ /\ t \in finished
                      /\ Unbound(removed, finished)[t] = (log[t] \o u) \o Msg("stop")
  <2> DEFINE told == ToldOf(removed)
             own  == {b \in Binding : b.token = t}
             mine == Retain(told, own)
             u == Msgs("unbind", mine)
             l == log[t]
             stop == t \in finished /\ processes[t].attached /\ child[t] \in Alive
  <2>1. /\ told \in Seq(Binding)
        /\ \A i \in DOMAIN told : Reachable(told[i]) /\ \E j \in DOMAIN removed : removed[j] = told[i]
    BY ToldOfFacts
  <2> HIDE DEF told, own
  <2>2. /\ mine \in Seq(Binding)
        /\ \A i \in DOMAIN mine : mine[i] \in own /\ \E j \in DOMAIN told : told[j] = mine[i]
    BY <2>1, RetainFacts
  <2> USE DEF own
  <2> HIDE DEF mine
  <2>3. /\ u \in Seq(Message) /\ Len(u) = Len(mine)
        /\ \A i \in 1 .. Len(mine) : u[i] = [kind |-> "unbind", bind |-> mine[i].bind]
    BY <2>2, MsgsFacts
  <2>4. DOMAIN u = 1 .. Len(mine) /\ DOMAIN mine = 1 .. Len(mine)
    BY <2>2, <2>3
  <2> HIDE DEF u
  <2>5. l \in Seq(Message) /\ l \o u \in Seq(Message) /\ Msg("stop") \in Seq(Message)
        /\ (l \o u) \o Msg("stop") \in Seq(Message)
    <3>1. l \in Seq(Message)
      BY DEF TypeOK
    <3>2. l \o u \in Seq(Message)
      BY <2>3, <3>1
    <3>3. Msg("stop") \in Seq(Message)
      BY MsgFacts
    <3>4. QED
      BY <3>1, <3>2, <3>3
  <2>6. Unbound(removed, finished)[t] = (l \o u) \o (IF stop THEN Msg("stop") ELSE <<>>)
    BY DEF Unbound, u, mine, told
  <2>7. CASE stop
    <3>1. Unbound(removed, finished)[t] = (l \o u) \o Msg("stop") /\ t \in finished
      BY <2>6, <2>7
    <3>2. \A i \in DOMAIN u :
            /\ u[i].kind = "unbind"
            /\ \E j \in DOMAIN removed :
                 removed[j].token = t /\ Reachable(removed[j]) /\ u[i].bind = removed[j].bind
      BY <2>1, <2>2, <2>3, <2>4
    <3>3. QED
      BY <2>3, <2>5, <3>1, <3>2
  <2>8. CASE ~stop
    <3>1. Unbound(removed, finished)[t] = l \o u
      <4>1. Unbound(removed, finished)[t] = (l \o u) \o <<>>
        BY <2>6, <2>8
      <4>2. (l \o u) \o <<>> = l \o u
        BY <2>5, ConcatEmptySeq
      <4>3. QED
        BY <4>1, <4>2
    <3>2. \A i \in DOMAIN u :
            /\ u[i].kind = "unbind"
            /\ \E j \in DOMAIN removed :
                 removed[j].token = t /\ Reachable(removed[j]) /\ u[i].bind = removed[j].bind
      BY <2>1, <2>2, <2>3, <2>4
    <3>3. QED
      BY <2>3, <2>5, <3>1, <3>2
  <2>9. QED
    BY <2>7, <2>8
<1>2. \A t \in Tokens : TellsUnbound(t, Unbound(removed, finished)[t], removed, finished)
  BY <1>1 DEF TellsUnbound
<1>3. Unbound(removed, finished) = [t \in Tokens |-> Unbound(removed, finished)[t]]
  BY DEF Unbound
<1>4. QED
  BY <1>1, <1>2, <1>3

\* What is left of the bindings.
LEMMA RetainedBindings ==
    ASSUME TypeOK, NEW keep
    PROVE  /\ Retain(bindings, keep) \in Seq(Binding)
           /\ \A i \in DOMAIN Retain(bindings, keep) :
                 /\ Retain(bindings, keep)[i] \in keep
                 /\ \E j \in DOMAIN bindings : bindings[j] = Retain(bindings, keep)[i]
           /\ \A j \in DOMAIN bindings : bindings[j] \in keep =>
                 \E i \in DOMAIN Retain(bindings, keep) : Retain(bindings, keep)[i] = bindings[j]
<1>1. bindings \in Seq(Binding)
  BY DEF TypeOK
<1>2. QED
  BY <1>1, RetainFacts

\* The bindings that leave with a connection, and those that stay.
Removed(c) == Retain(bindings, {b \in Binding : b.conn = c})
Remaining(c) == Retain(bindings, {b \in Binding : b.conn # c})

\* Whether unbindService fails, and the processes that end if it does not.
Fails(c) == ToldOf(Removed(c)) # Removed(c)
Ended(c) == IF Fails(c) THEN {} ELSE Finished(Withdrawn(c), Remaining(c))

\* The bindings are parted by their connection.
LEMMA PartedFacts ==
    ASSUME TypeOK, NEW c \in Connections
    PROVE  /\ Removed(c) \in Seq(Binding) /\ Remaining(c) \in Seq(Binding)
           /\ \A i \in DOMAIN Removed(c) : \E j \in DOMAIN bindings : bindings[j] = Removed(c)[i]
           /\ \A i \in DOMAIN Remaining(c) : \E j \in DOMAIN bindings : bindings[j] = Remaining(c)[i]
           /\ \A j \in DOMAIN bindings : bindings[j].conn # c =>
                \E i \in DOMAIN Remaining(c) : Remaining(c)[i] = bindings[j]
<1> DEFINE own    == {b \in Binding : b.conn = c}
           others == {b \in Binding : b.conn # c}
<1>1. Removed(c) = Retain(bindings, own) /\ Remaining(c) = Retain(bindings, others)
  BY DEF Removed, Remaining
<1>2. \A j \in DOMAIN bindings : bindings[j].conn # c => bindings[j] \in others
  BY DEF TypeOK
<1> HIDE DEF own, others
<1>3. QED
  BY <1>1, <1>2, RetainedBindings

\* What an unbind changes.
LEMMA UnbindFacts ==
    ASSUME NEW c \in Connections, Unbind(c)
    PROVE  /\ bindings' = Remaining(c) /\ log' = Unbound(Removed(c), Ended(c))
           /\ processes' = [s \in Processes |-> IF s \in Ended(c) THEN Absent ELSE Withdrawn(c)[s]]
           /\ leaving' = leaving \cup Ended(c) /\ Ended(c) \subseteq Processes
           /\ accepted' = {a \in accepted : a[1] # c}
           /\ sweepFailed' = Fails(c) /\ Fails(c) \in BOOLEAN
           /\ UNCHANGED <<child, nextSeq, nextBind, localVars, publishing, connected>>
BY DEF Unbind, Removed, Remaining, Fails, Ended, Finished

\* unbindService keeps the types.
LEMMA TypeUnbind ==
    ASSUME TypeOK, NEW c \in Connections, Unbind(c)
    PROVE  TypeOK'
<1>1. Removed(c) \in Seq(Binding) /\ Remaining(c) \in Seq(Binding)
  BY PartedFacts
<1>2. log' \in [Tokens -> Seq(Message)]
  BY <1>1, UnbindFacts, UnboundFacts
<1>3. processes' \in [Processes -> Entry \cup {Absent}]
  BY UnbindFacts, WithdrawnFacts
<1>4. accepted' \subseteq Connections \X Tokens
  BY UnbindFacts DEF TypeOK
<1>5. QED
  BY <1>1, <1>2, <1>3, <1>4, UnbindFacts DEF TypeOK, localVars

\* The steps of the app's threads keep the types.
LEMMA TypeClient ==
    ASSUME TypeOK, PromisesInv, NEW t \in Clients, ClientStep(t)
    PROVE  TypeOK'
<1> USE BoundsAssumption
<1>1. ASSUME NEW c \in Classes, NEW conn \in Connections \cup {Absent}, EnsureService(t, c, conn)
      PROVE  TypeOK'
  <2>1. CASE running[c] # Absent /\ UNCHANGED <<running, nextLocal>>
             /\ call' = [call EXCEPT ![t] = [at |-> "use", token |-> running[c], conn |-> conn]]
    <3>1. running[c] \in Locals
      BY <2>1 DEF TypeOK
    <3>2. [at |-> "use", token |-> running[c], conn |-> conn] \in Calls
      BY <3>1 DEF Calls, Use
    <3>3. call' \in [Clients -> Calls]
      BY <2>1, <3>2 DEF TypeOK
    <3>4. QED
      BY <1>1, <2>1, <3>3 DEF EnsureService, TypeOK, remoteVars, bindVars, history
  <2>2. CASE /\ nextLocal <= MaxLocal
             /\ running' = [running EXCEPT ![c] = MaxSeq + nextLocal]
             /\ nextLocal' = nextLocal + 1
             /\ call' = [call EXCEPT ![t] = [at |-> "create", token |-> MaxSeq + nextLocal, conn |-> conn]]
    <3>1. MaxSeq + nextLocal \in Locals /\ nextLocal + 1 \in 1 .. MaxLocal + 1
      BY <2>2 DEF TypeOK, Locals
    <3>2. [at |-> "create", token |-> MaxSeq + nextLocal, conn |-> conn] \in Calls
      BY <3>1 DEF Calls, Use
    <3>3. call' \in [Clients -> Calls] /\ running' \in [Classes -> Locals \cup {Absent}]
      BY <2>2, <3>1, <3>2 DEF TypeOK
    <3>4. QED
      BY <1>1, <2>2, <3>1, <3>3 DEF EnsureService, TypeOK, remoteVars, bindVars, history
  <2>3. QED
    BY <1>1, <2>1, <2>2 DEF EnsureService
<1>2. CASE SendCreate(t)
  <2>1. call[t] \in Use /\ call[t].token \in Tokens
    BY <1>2, CallFacts DEF SendCreate, Tokens
  <2>2. [call[t] EXCEPT !.at = "use"] \in Calls
    BY <2>1 DEF Use, Calls
  <2>3. call' \in [Clients -> Calls]
    BY <1>2, <2>2 DEF SendCreate, TypeOK
  <2>4. log' \in [Tokens -> Seq(Message)]
    BY <1>2, <2>1, ToldFacts, MsgFacts DEF SendCreate, TypeOK
  <2>5. QED
    BY <1>2, <2>3, <2>4 DEF SendCreate, TypeOK, remoteVars, history
<1>3. CASE SendArgs(t)
  <2>1. call[t].token \in Tokens /\ Idle \in Calls
    BY <1>3, CallFacts DEF SendArgs, Tokens, Calls
  <2>2. call' \in [Clients -> Calls]
    BY <1>3, <2>1 DEF SendArgs, TypeOK
  <2>3. log' \in [Tokens -> Seq(Message)]
    BY <1>3, <2>1, ToldFacts, MsgFacts DEF SendArgs, TypeOK
  <2>4. QED
    BY <1>3, <2>2, <2>3 DEF SendArgs, TypeOK, remoteVars, history
<1>4. CASE RecordBinding(t)
  <2>1. t \in Coming
    BY <1>4 DEF RecordBinding, Coming
  <2>2. nextBind <= MaxBinds /\ nextBind + 1 \in 1 .. MaxBinds + 1
    BY <2>1, ComersToken DEF TypeOK
  <2>3. call[t].token \in Tokens /\ call[t].conn \in Connections
    BY <1>4, CallFacts DEF RecordBinding, Tokens
  <2> DEFINE new == NewBindings(call[t].token, <<call[t].conn>>)
  <2>4. new \in Seq(Binding) /\ Len(new) = 1
    BY <2>2, <2>3, OneBinding
  <2>5. /\ bindings' = bindings \o new /\ nextBind' = nextBind + 1
        /\ call' = [call EXCEPT ![t] = [at |-> "send", binding |-> new[1]]]
    BY <1>4 DEF RecordBinding
  <2> HIDE DEF new
  <2>6. [at |-> "send", binding |-> new[1]] \in Calls
    BY <2>4 DEF Calls
  <2>7. /\ bindings' \in Seq(Binding) /\ nextBind' \in 1 .. MaxBinds + 1
        /\ call' \in [Clients -> Calls]
    BY <2>2, <2>4, <2>5, <2>6 DEF TypeOK
  <2>8. QED
    BY <1>4, <2>7 DEF RecordBinding, TypeOK, remoteVars, history
<1>5. CASE SendBind(t)
  <2>1. call[t].binding \in Binding
    BY <1>5, CallFacts DEF SendBind
  <2>2. call[t].binding.token \in Tokens /\ call[t].binding.conn \in Connections
    BY <2>1 DEF Binding
  <2>3. Msgs("bind", <<call[t].binding>>) \in Seq(Message)
    <3>1. <<call[t].binding>> \in Seq(Binding)
      BY <2>1
    <3>2. QED
      BY <3>1, MsgsFacts
  <2>4. log' \in [Tokens -> Seq(Message)]
    BY <1>5, <2>2, <2>3, ToldFacts DEF SendBind, TypeOK
  <2>5. call' \in [Clients -> Calls] /\ accepted' \subseteq Connections \X Tokens
    BY <1>5, <2>2 DEF SendBind, TypeOK, Calls
  <2>6. QED
    BY <1>5, <2>4, <2>5 DEF SendBind, TypeOK, remoteVars
<1>6. ASSUME NEW token \in Locals, StopCheck(t, token)
      PROVE  TypeOK'
  <2>1. [at |-> "stop", token |-> token] \in Calls
    BY DEF Calls
  <2>2. QED
    BY <1>6, <2>1 DEF StopCheck, TypeOK, remoteVars, bindVars, history
<1>7. CASE StopService(t)
  <2>1. call[t].token \in Tokens /\ Idle \in Calls
    BY <1>7, CallFacts DEF StopService, Tokens, Calls
  <2>2. call' \in [Clients -> Calls] /\ running' \in [Classes -> Locals \cup {Absent}]
    BY <1>7, <2>1 DEF StopService, TypeOK
  <2>3. log' \in [Tokens -> Seq(Message)]
    BY <1>7, <2>1, ToldFacts, MsgFacts DEF StopService, TypeOK
  <2>4. QED
    BY <1>7, <2>2, <2>3 DEF StopService, TypeOK, remoteVars, history
<1>8. QED
  BY <1>1, <1>2, <1>3, <1>4, <1>5, <1>6, <1>7 DEF ClientStep

\* publishService keeps the types, and leaves all but its own records alone.
LEMMA PublishFacts ==
    ASSUME TypeOK, \/ \E b \in Binds : Publish(b)
                   \/ \E b \in publishing : SendConnected(b)
    PROVE  /\ TypeOK'
           /\ UNCHANGED <<remoteVars, localVars, bindVars, accepted, sweepFailed>>
<1>1. ASSUME NEW b \in Binds, Publish(b)
      PROVE  /\ TypeOK'
             /\ UNCHANGED <<remoteVars, localVars, bindVars, accepted, sweepFailed>>
  BY <1>1 DEF Publish, TypeOK, remoteVars, localVars, bindVars, history
<1>2. ASSUME NEW b \in publishing, SendConnected(b)
      PROVE  /\ TypeOK'
             /\ UNCHANGED <<remoteVars, localVars, bindVars, accepted, sweepFailed>>
  BY <1>2 DEF SendConnected, TypeOK, remoteVars, localVars, bindVars, Binding
<1>3. QED
  BY <1>1, <1>2

\* Every step keeps the types.
LEMMA TypeStep ==
    ASSUME TypeOK, PromisesInv, [Next]_vars
    PROVE  TypeOK'
<1>1. CASE UNCHANGED vars
  BY <1>1 DEF vars, remoteVars, localVars, bindVars, history, TypeOK
<1>2. QED
  BY <1>1, TypeBindRemote, TypeUnbind, TypeClient, TypeProcess, PublishFacts DEF Next

-----------------------------------------------------------------------------
(***************************************************************************)
(* Everyone who is promised a bind token gets one.                         *)
(***************************************************************************)

\* One step promises one token more at most, here and there.
LEMMA PromisesNumbers ==
    ASSUME TypeOK, TypeOK', NEW w, NEW t,
           Waiting' \subseteq Waiting \cup {w}, Coming' \subseteq Coming \cup {t}
    PROVE  /\ IsFiniteSet(Waiting') /\ IsFiniteSet(Coming')
           /\ Cardinality(Waiting) \in Nat /\ Cardinality(Waiting') \in Nat
           /\ Cardinality(Coming) \in Nat /\ Cardinality(Coming') \in Nat
           /\ Cardinality(Waiting') <= Cardinality(Waiting) + 1
           /\ Cardinality(Coming') <= Cardinality(Coming) + 1
           /\ Waiting' \subseteq Waiting => Cardinality(Waiting') <= Cardinality(Waiting)
           /\ Coming' \subseteq Coming => Cardinality(Coming') <= Cardinality(Coming)
           /\ nextBind \in Nat /\ nextBind' \in Nat /\ MaxBinds \in Nat
<1>1. /\ IsFiniteSet(Waiting) /\ Cardinality(Waiting) \in Nat
      /\ IsFiniteSet(Coming) /\ Cardinality(Coming) \in Nat
  BY PromisesFinite
<1>2. /\ IsFiniteSet(Waiting') /\ Cardinality(Waiting') \in Nat
      /\ Cardinality(Waiting') <= Cardinality(Waiting) + 1
  BY <1>1, OneMore
<1>3. /\ IsFiniteSet(Coming') /\ Cardinality(Coming') \in Nat
      /\ Cardinality(Coming') <= Cardinality(Coming) + 1
  BY <1>1, OneMore
<1>4. /\ Waiting' \subseteq Waiting => Cardinality(Waiting') <= Cardinality(Waiting)
      /\ Coming' \subseteq Coming => Cardinality(Coming') <= Cardinality(Coming)
  BY <1>1, FS_Subset
<1>5. nextBind \in Nat /\ nextBind' \in Nat /\ MaxBinds \in Nat
  BY BoundsAssumption DEF TypeOK
<1>6. QED
  BY <1>1, <1>2, <1>3, <1>4, <1>5

\* A token that a new promise takes, or a binding, while tokens last.
LEMMA PromisesTaken ==
    ASSUME TypeOK, TypeOK', NEW w, NEW t, TokensLast,
           \/ /\ Waiting' \subseteq Waiting \cup {w} /\ Coming' \subseteq Coming
              /\ nextBind' = nextBind
           \/ /\ Waiting' \subseteq Waiting /\ Coming' \subseteq Coming \cup {t}
              /\ nextBind' = nextBind
           \/ /\ Waiting' \subseteq Waiting /\ Coming' \subseteq Coming
              /\ nextBind' = nextBind + 1
    PROVE  PromisesInv'
<1>1. Waiting' \subseteq Waiting \cup {w} /\ Coming' \subseteq Coming \cup {t}
  OBVIOUS
<1> DEFINE W1 == Cardinality(Waiting)
           W2 == Cardinality(Waiting')
           C1 == Cardinality(Coming)
           C2 == Cardinality(Coming')
<1>2. /\ W1 \in Nat /\ W2 \in Nat /\ C1 \in Nat /\ C2 \in Nat
      /\ W2 <= W1 + 1 /\ C2 <= C1 + 1
      /\ Waiting' \subseteq Waiting => W2 <= W1
      /\ Coming' \subseteq Coming => C2 <= C1
      /\ nextBind \in Nat /\ nextBind' \in Nat /\ MaxBinds \in Nat
  BY <1>1, PromisesNumbers
<1>3. nextBind + W1 + C1 <= MaxBinds
  BY DEF TokensLast
<1>4. \/ W2 <= W1 + 1 /\ C2 <= C1 /\ nextBind' = nextBind
      \/ W2 <= W1 /\ C2 <= C1 + 1 /\ nextBind' = nextBind
      \/ W2 <= W1 /\ C2 <= C1 /\ nextBind' = nextBind + 1
  BY <1>2
<1>5. \A w1, w2, d1, d2, n1, n2, m \in Nat :
        /\ n1 + w1 + d1 <= m
        /\ \/ w2 <= w1 + 1 /\ d2 <= d1 /\ n2 = n1
           \/ w2 <= w1 /\ d2 <= d1 + 1 /\ n2 = n1
           \/ w2 <= w1 /\ d2 <= d1 /\ n2 = n1 + 1
        => n2 + w2 + d2 <= m + 1
  OBVIOUS
<1> HIDE DEF W1, W2, C1, C2
<1>6. nextBind' + W2 + C2 <= MaxBinds + 1
  BY <1>2, <1>3, <1>4, <1>5
<1>7. QED
  BY <1>6 DEF PromisesInv, W2, C2

\* A promise that is kept or given up.
LEMMA PromisesKeptOrLess ==
    ASSUME TypeOK, TypeOK', PromisesInv, Waiting' \subseteq Waiting, Coming' \subseteq Coming,
           \/ nextBind' = nextBind
           \/ nextBind' = nextBind + 1 /\ \E t \in Coming : t \notin Coming'
    PROVE  PromisesInv'
<1>1. Waiting' \subseteq Waiting \cup {0} /\ Coming' \subseteq Coming \cup {0}
  OBVIOUS
<1> DEFINE W1 == Cardinality(Waiting)
           W2 == Cardinality(Waiting')
           C1 == Cardinality(Coming)
           C2 == Cardinality(Coming')
<1>2. /\ W1 \in Nat /\ W2 \in Nat /\ C1 \in Nat /\ C2 \in Nat /\ W2 <= W1 /\ C2 <= C1
      /\ nextBind \in Nat /\ nextBind' \in Nat /\ MaxBinds \in Nat
  BY <1>1, PromisesNumbers
<1>3. ASSUME NEW t \in Coming, t \notin Coming'
      PROVE  C2 < C1
  <2>1. IsFiniteSet(Coming)
    BY PromisesFinite
  <2>2. Coming' # Coming
    BY <1>3
  <2>3. C2 # C1
    BY <2>1, <2>2, FS_Subset
  <2> HIDE DEF C1, C2
  <2>4. QED
    BY <1>2, <2>3
<1>4. nextBind + W1 + C1 <= MaxBinds + 1
  BY DEF PromisesInv
<1>5. nextBind' = nextBind \/ (nextBind' = nextBind + 1 /\ C2 < C1)
  BY <1>3
<1>6. \A w1, w2, d1, d2, n1, n2, m \in Nat :
        /\ n1 + w1 + d1 <= m + 1 /\ w2 <= w1 /\ d2 <= d1
        /\ n2 = n1 \/ (n2 = n1 + 1 /\ d2 < d1)
        => n2 + w2 + d2 <= m + 1
  OBVIOUS
<1> HIDE DEF W1, W2, C1, C2
<1>7. nextBind' + W2 + C2 <= MaxBinds + 1
  BY <1>2, <1>4, <1>5, <1>6
<1>8. QED
  BY <1>7 DEF PromisesInv, W2, C2

\* Nobody begins to wait.
LEMMA WaitingShrinks ==
    ASSUME \A s \in Launched' :
              s \in Launched /\ DOMAIN processes'[s].pending \subseteq DOMAIN processes[s].pending
    PROVE  Waiting' \subseteq Waiting
<1> SUFFICES ASSUME NEW x \in Waiting' PROVE x \in Waiting
  OBVIOUS
<1>1. PICK s \in Launched' : x \in {s} \X DOMAIN processes'[s].pending
  BY DEF Waiting
<1>2. x \in {s} \X DOMAIN processes[s].pending
  BY <1>1
<1>3. QED
  BY <1>1, <1>2 DEF Waiting

\* One connection begins to wait.
LEMMA WaitingGrows ==
    ASSUME NEW p, NEW i,
           \A s \in Launched' \ {p} :
              s \in Launched /\ DOMAIN processes'[s].pending \subseteq DOMAIN processes[s].pending,
           \A j \in DOMAIN processes'[p].pending :
              j = i \/ (p \in Launched /\ j \in DOMAIN processes[p].pending)
    PROVE  Waiting' \subseteq Waiting \cup {<<p, i>>}
<1> SUFFICES ASSUME NEW x \in Waiting', x # <<p, i>> PROVE x \in Waiting
  OBVIOUS
<1>1. PICK s \in Launched' : x \in {s} \X DOMAIN processes'[s].pending
  BY DEF Waiting
<1>2. PICK j \in DOMAIN processes'[s].pending : x = <<s, j>>
  BY <1>1
<1>3. s \in Launched /\ j \in DOMAIN processes[s].pending
  BY <1>2
<1>4. x \in {s} \X DOMAIN processes[s].pending
  BY <1>2, <1>3
<1>5. QED
  BY <1>3, <1>4 DEF Waiting

\* bindService for a service with a process takes the token it was promised.
LEMMA PromisesBindRemote ==
    ASSUME TypeOK, TypeOK', NEW c \in Connections, NEW k \in Keys, BindRemote(c, k)
    PROVE  PromisesInv'
<1>1. TokensLast /\ Coming' = Coming
  BY DEF BindRemote, Coming, localVars
<1>2. ASSUME NEW s \in Existing(k), BindReady(c, s)
      PROVE  PromisesInv'
  <2>1. nextBind' = nextBind + 1 /\ Waiting' = Waiting
    BY <1>2 DEF BindReady, Waiting, Launched, remoteVars
  <2>2. QED
    BY <1>1, <2>1, PromisesTaken
<1>3. ASSUME NEW s \in Existing(k), BindPending(c, s)
      PROVE  PromisesInv'
  <2>1. s \in Launched /\ s \in Processes
    BY DEF Existing, Launched
  <2>2. processes[s] \in Entry /\ processes[s].pending \in Seq(Connections)
    BY <2>1, EntryFacts
  <2> DEFINE n == Len(processes[s].pending)
  <2>3. processes' = [processes EXCEPT ![s].pending = Append(@, c)] /\ nextBind' = nextBind
    BY <1>3 DEF BindPending, bindVars
  <2>4. processes'[s].pending = Append(processes[s].pending, c)
    BY <2>1, <2>2, <2>3 DEF TypeOK, Entry
  <2>5. \A t \in Processes \ {s} : processes'[t] = processes[t]
    BY <2>3 DEF TypeOK
  <2>6. \A j \in DOMAIN processes'[s].pending : j = n + 1 \/ j \in DOMAIN processes[s].pending
    <3>1. ASSUME NEW q \in Seq(Connections)
          PROVE  \A j \in DOMAIN Append(q, c) : j = Len(q) + 1 \/ j \in DOMAIN q
      OBVIOUS
    <3>2. QED
      BY <2>2, <2>4, <3>1
  <2>7. \A t \in Launched' \ {s} :
           t \in Launched /\ DOMAIN processes'[t].pending \subseteq DOMAIN processes[t].pending
    BY <2>5 DEF Launched
  <2> HIDE DEF n
  <2>8. Waiting' \subseteq Waiting \cup {<<s, n + 1>>}
    BY <2>1, <2>6, <2>7, WaitingGrows
  <2>9. QED
    BY <1>1, <2>3, <2>8, PromisesTaken
<1>4. CASE Launch(c, k)
  <2>1. /\ nextSeq \in Processes /\ nextBind' = nextBind
        /\ processes' = [Kept(k) EXCEPT ![nextSeq] =
             [key |-> k, attached |-> FALSE, ready |-> FALSE, pending |-> <<c>>]]
    BY <1>4 DEF Launch, TypeOK, Processes, bindVars
  <2>2. Kept(k) \in [Processes -> Entry \cup {Absent}]
    BY KeptFacts
  <2>3. processes'[nextSeq].pending = <<c>>
    BY <2>1, <2>2
  <2>4. \A j \in DOMAIN processes'[nextSeq].pending : j = 1
    BY <2>3
  <2>5. \A t \in Launched' \ {nextSeq} :
           t \in Launched /\ DOMAIN processes'[t].pending \subseteq DOMAIN processes[t].pending
    <3>1. ASSUME NEW t \in Launched', t # nextSeq
          PROVE  t \in Processes /\ processes'[t] = Kept(k)[t] /\ Kept(k)[t] # Absent
      BY <2>1, <2>2, <3>1 DEF Launched
    <3>2. ASSUME NEW t \in Launched', t # nextSeq
          PROVE  processes'[t] = processes[t] /\ t \in Launched
      BY <3>1, <3>2, KeptFacts DEF Launched
    <3>3. QED
      BY <3>2
  <2>6. Waiting' \subseteq Waiting \cup {<<nextSeq, 1>>}
    BY <2>4, <2>5, WaitingGrows
  <2>7. QED
    BY <1>1, <2>1, <2>6, PromisesTaken
<1>5. CASE LaunchFails(k)
  <2>1. processes' = Kept(k) /\ nextBind' = nextBind
    BY <1>5 DEF LaunchFails, bindVars
  <2>2. \A t \in Launched' :
           t \in Launched /\ DOMAIN processes'[t].pending \subseteq DOMAIN processes[t].pending
    <3>1. ASSUME NEW t \in Launched'
          PROVE  t \in Processes /\ processes'[t] = Kept(k)[t] /\ Kept(k)[t] # Absent
      BY <2>1 DEF Launched
    <3>2. ASSUME NEW t \in Launched'
          PROVE  processes'[t] = processes[t] /\ t \in Launched
      BY <3>1, KeptFacts DEF Launched
    <3>3. QED
      BY <3>2
  <2>3. Waiting' \subseteq Waiting
    BY <2>2, WaitingShrinks
  <2>4. Waiting' \subseteq Waiting \cup {0} /\ Coming' \subseteq Coming
    BY <1>1, <2>3
  <2>5. QED
    BY <1>1, <2>1, <2>4, PromisesTaken
<1>6. QED
  BY <1>2, <1>3, <1>4, <1>5 DEF BindRemote

\* finishAttachApplication gives a token to everyone who waited, or to the first of them.
LEMMA PromisesFinishAttach ==
    ASSUME TypeOK, TypeOK', PromisesInv, NEW s \in Processes, FinishAttach(s)
    PROVE  PromisesInv'
<1> DEFINE all == NewBindings(s, processes[s].pending)
           N == Len(processes[s].pending)
           A == {s} \X (1 .. N)
<1>1. /\ s \in Launched /\ UNCHANGED <<leaving, nextSeq, localVars, publishing, history>>
      /\ \/ UNCHANGED <<processes, bindVars>>
         \/ \E n \in 0 .. Len(all) :
              /\ processes' = [processes EXCEPT ![s].ready = TRUE, ![s].pending = <<>>]
              /\ nextBind' = nextBind + n
  BY FinishAttachFacts
<1>2. Len(all) = N /\ N \in Nat
  BY <1>1, AttachFacts, WaitersCount
<1>3. Coming' = Coming
  BY <1>1 DEF Coming, localVars
<1> HIDE DEF all
<1>4. CASE UNCHANGED <<processes, bindVars>>
  <2>1. Waiting' = Waiting /\ nextBind' = nextBind
    BY <1>4 DEF Waiting, Launched, bindVars
  <2>2. QED
    BY <1>3, <2>1, PromisesKeptOrLess
<1>5. ASSUME NEW n \in 0 .. N,
             processes' = [processes EXCEPT ![s].ready = TRUE, ![s].pending = <<>>],
             nextBind' = nextBind + n
      PROVE  PromisesInv'
  <2>1. processes'[s].pending = <<>> /\ \A t \in Processes \ {s} : processes'[t] = processes[t]
    BY <1>1, <1>5, EntryFacts DEF TypeOK, Entry
  <2>2. Waiting' \subseteq Waiting /\ Waiting' \cap A = {}
    <3> SUFFICES ASSUME NEW x \in Waiting' PROVE x \in Waiting /\ x \notin A
      OBVIOUS
    <3>1. PICK t \in Launched' : x \in {t} \X DOMAIN processes'[t].pending
      BY DEF Waiting
    <3>2. t # s /\ t \in Processes
      BY <2>1, <3>1 DEF Launched
    <3>3. t \in Launched /\ processes'[t] = processes[t]
      BY <2>1, <3>1, <3>2 DEF Launched
    <3>4. x \in Waiting
      BY <3>1, <3>3 DEF Waiting
    <3>5. QED
      BY <3>1, <3>2, <3>4
  <2>3. A \subseteq Waiting /\ Cardinality(A) = N
    BY <1>1, WaitersCount
  <2> HIDE DEF A, N
  <2>4. IsFiniteSet(Waiting) /\ IsFiniteSet(Waiting \ A)
        /\ Cardinality(Waiting \ A) = Cardinality(Waiting) - Cardinality(Waiting \cap A)
    BY PromisesFinite, FS_Difference
  <2>5. Waiting \cap A = A /\ Waiting' \subseteq Waiting \ A
    BY <2>2, <2>3
  <2>6. Cardinality(Waiting') <= Cardinality(Waiting \ A) /\ Cardinality(Waiting') \in Nat
    BY <2>4, <2>5, FS_Subset, FS_CardinalityType
  <2>7. Cardinality(Waiting) \in Nat /\ Cardinality(Coming) \in Nat
        /\ nextBind \in Nat /\ MaxBinds \in Nat
    BY PromisesFinite, BoundsAssumption DEF TypeOK
  <2> DEFINE W1 == Cardinality(Waiting)
             W2 == Cardinality(Waiting')
             C == Cardinality(Coming)
  <2>8. /\ W1 \in Nat /\ W2 \in Nat /\ C \in Nat /\ W2 <= W1 - N
        /\ nextBind + W1 + C <= MaxBinds + 1
    BY <2>3, <2>4, <2>5, <2>6, <2>7 DEF PromisesInv
  <2> HIDE DEF W1, W2, C
  <2>9. nextBind' + W2 + C <= MaxBinds + 1
    <3>1. n \in Nat /\ n <= N /\ N \in Nat
      BY <1>2
    <3>2. QED
      BY SMTT(30), <1>5, <2>7, <2>8, <3>1
  <2>10. QED
    BY <1>3, <2>9 DEF PromisesInv, W2, C
<1>6. QED
  BY <1>1, <1>2, <1>4, <1>5

\* The other steps of a service process promise nothing.
LEMMA PromisesProcess ==
    ASSUME TypeOK, TypeOK', PromisesInv, NEW s \in Processes, ProcessStep(s)
    PROVE  PromisesInv'
<1>1. CASE FinishAttach(s)
  BY <1>1, PromisesFinishAttach
<1>2. CASE AttachApplication(s)
  <2>1. Coming' = Coming /\ nextBind' = nextBind
    BY <1>2 DEF AttachApplication, Coming, localVars, bindVars
  <2>2. \A t \in Launched' :
           t \in Launched /\ DOMAIN processes'[t].pending \subseteq DOMAIN processes[t].pending
    <3>1. processes' = [processes EXCEPT ![s] = IF s \in Launched THEN [@ EXCEPT !.attached = TRUE] ELSE @]
      BY <1>2 DEF AttachApplication
    <3>2. \A t \in Processes \ {s} : processes'[t] = processes[t]
      BY <3>1 DEF TypeOK
    <3>3. s \notin Launched => processes'[s] = processes[s]
      BY <3>1 DEF TypeOK
    <3>4. s \in Launched => processes'[s].pending = processes[s].pending
      BY <3>1, EntryFacts DEF TypeOK, Entry
    <3>5. QED
      BY <3>2, <3>3, <3>4 DEF Launched
  <2>3. Waiting' \subseteq Waiting
    BY <2>2, WaitingShrinks
  <2>4. QED
    BY <2>1, <2>3, PromisesKeptOrLess
<1>3. CASE UNCHANGED <<processes, bindVars, localVars>>
  <2>1. Waiting' = Waiting /\ Coming' = Coming /\ nextBind' = nextBind
    BY <1>3 DEF Waiting, Launched, Coming, localVars, bindVars
  <2>2. QED
    BY <2>1, PromisesKeptOrLess
<1>4. QED
  BY <1>1, <1>2, <1>3
  DEF ProcessStep, BindApplication, FinishAttachUnknown, Die, LauncherExits, Reap

\* unbindService makes waiting lists shorter, if anything.
LEMMA PromisesUnbind ==
    ASSUME TypeOK, TypeOK', PromisesInv, NEW c \in Connections, Unbind(c)
    PROVE  PromisesInv'
<1>1. Coming' = Coming /\ nextBind' = nextBind
  BY UnbindFacts DEF Coming, localVars
<1>2. ASSUME NEW t \in Launched'
      PROVE  t \in Launched /\ DOMAIN processes'[t].pending \subseteq DOMAIN processes[t].pending
  <2>1. t \in Processes /\ processes'[t] = Withdrawn(c)[t] /\ Withdrawn(c)[t] # Absent
    BY UnbindFacts DEF Launched
  <2>2. processes[t] # Absent /\ t \in Launched
    BY <2>1, WithdrawnFacts DEF Launched
  <2>3. /\ Withdrawn(c)[t] \in Entry
        /\ Len(Withdrawn(c)[t].pending) <= Len(processes[t].pending)
    BY <2>1, <2>2, WithdrawnFacts
  <2>4. Withdrawn(c)[t].pending \in Seq(Connections) /\ processes[t].pending \in Seq(Connections)
    BY <2>2, <2>3, EntryFacts DEF Entry
  <2>5. ASSUME NEW p \in Seq(Connections), NEW q \in Seq(Connections), Len(p) <= Len(q)
        PROVE  DOMAIN p \subseteq DOMAIN q
    BY <2>5
  <2>6. QED
    BY <2>1, <2>2, <2>3, <2>4, <2>5
<1>3. Waiting' \subseteq Waiting
  BY <1>2, WaitingShrinks
<1>4. QED
  BY <1>1, <1>3, PromisesKeptOrLess

\* A client takes a promise when it sets out for a binding, and its token when it gets there.
LEMMA PromisesClient ==
    ASSUME TypeOK, TypeOK', PromisesInv, NEW t \in Clients, ClientStep(t)
    PROVE  PromisesInv'
<1>1. Waiting' = Waiting
  BY DEF ClientStep, EnsureService, SendCreate, SendArgs, RecordBinding, SendBind, StopCheck,
         StopService, remoteVars, Waiting, Launched
<1>2. \A u \in Clients \ {t} : call'[u] = call[u]
  BY DEF ClientStep, EnsureService, SendCreate, SendArgs, RecordBinding, SendBind, StopCheck,
         StopService, TypeOK
<1>3. Coming' \subseteq Coming \cup {t}
  BY <1>2 DEF Coming
<1>4. ASSUME t \notin Coming'
      PROVE  Coming' \subseteq Coming
  BY <1>3, <1>4
<1>5. ASSUME NEW c \in Classes, NEW conn \in Connections \cup {Absent}, EnsureService(t, c, conn)
      PROVE  PromisesInv'
  <2>1. nextBind' = nextBind
    BY <1>5 DEF EnsureService, bindVars
  <2>2. CASE conn = Absent
    <3>1. call'[t].conn = Absent
      BY <1>5, <2>2 DEF EnsureService, TypeOK
    <3>2. t \notin Coming'
      BY <3>1 DEF Coming
    <3>3. QED
      BY <1>1, <1>4, <2>1, <3>2, PromisesKeptOrLess
  <2>3. CASE conn # Absent
    <3>1. TokensLast
      BY <1>5, <2>3 DEF EnsureService
    <3>2. Waiting' \subseteq Waiting
      BY <1>1
    <3>3. QED
      BY <1>3, <2>1, <3>1, <3>2, PromisesTaken
  <2>4. QED
    BY <2>2, <2>3
<1>6. CASE SendCreate(t)
  <2>1. /\ nextBind' = nextBind /\ call[t].at = "create"
        /\ call' = [call EXCEPT ![t].at = "use"]
    BY <1>6 DEF SendCreate
  <2>2. call'[t].conn = call[t].conn
    BY <2>1, CallFacts DEF TypeOK, Use
  <2>3. t \in Coming' => t \in Coming
    BY <2>1, <2>2 DEF Coming
  <2>4. Coming' \subseteq Coming
    BY <1>3, <2>3
  <2>5. QED
    BY <1>1, <2>1, <2>4, PromisesKeptOrLess
<1>7. CASE RecordBinding(t)
  <2>1. /\ nextBind' = nextBind + 1 /\ t \in Coming
        /\ call' = [call EXCEPT ![t] = [at |-> "send",
                      binding |-> NewBindings(call[t].token, <<call[t].conn>>)[1]]]
    BY <1>7 DEF RecordBinding, Coming
  <2>2. call'[t].at = "send"
    BY <2>1 DEF TypeOK
  <2>3. t \notin Coming'
    BY <2>2 DEF Coming
  <2>4. QED
    BY <1>1, <1>4, <2>1, <2>3, PromisesKeptOrLess
<1>8. ASSUME call'[t].at \in {"idle", "stop"}, nextBind' = nextBind
      PROVE  PromisesInv'
  <2>1. t \notin Coming'
    BY <1>8 DEF Coming
  <2>2. QED
    BY <1>1, <1>4, <1>8, <2>1, PromisesKeptOrLess
<1>9. ASSUME SendArgs(t) \/ SendBind(t) \/ StopService(t) \/ \E token \in Locals : StopCheck(t, token)
      PROVE  call'[t].at \in {"idle", "stop"} /\ nextBind' = nextBind
  BY <1>9 DEF SendArgs, SendBind, StopService, StopCheck, TypeOK, Idle, bindVars
<1>10. QED
  BY <1>5, <1>6, <1>7, <1>8, <1>9 DEF ClientStep

\* Every step keeps the tokens that are promised.
LEMMA PromisesStep ==
    ASSUME TypeOK, PromisesInv, [Next]_vars
    PROVE  PromisesInv'
<1>1. TypeOK'
  BY TypeStep
<1>2. CASE UNCHANGED <<remoteVars, localVars, bindVars>>
  <2>1. Waiting' = Waiting /\ Coming' = Coming /\ nextBind' = nextBind
    BY <1>2 DEF Waiting, Launched, Coming, remoteVars, localVars, bindVars
  <2>2. QED
    BY <1>1, <2>1, PromisesKeptOrLess
<1>3. CASE UNCHANGED vars
  BY <1>2, <1>3 DEF vars
<1>4. ASSUME \/ \E b \in Binds : Publish(b)
             \/ \E b \in publishing : SendConnected(b)
      PROVE  PromisesInv'
  BY <1>2, <1>4, PublishFacts
<1>5. QED
  BY <1>1, <1>3, <1>4, PromisesBindRemote, PromisesUnbind, PromisesClient, PromisesProcess DEF Next

-----------------------------------------------------------------------------
(***************************************************************************)
(* The life of a service, as it hears more.                                *)
(***************************************************************************)

\* One message more.
LEMMA OneMessage ==
    ASSUME NEW l \in Seq(Message), NEW m \in Seq(Message)
    PROVE  Len(m) = 1 =>
             /\ l \o m \in Seq(Message)
             /\ DOMAIN (l \o m) = 1 .. Len(l) + 1
             /\ Len(l \o m) = Len(l) + 1
             /\ \A i \in 1 .. Len(l) : (l \o m)[i] = l[i]
             /\ (l \o m)[Len(l) + 1] = m[1]
<1>1. /\ l \o m \in Seq(Message)
      /\ Len(l \o m) = Len(l) + Len(m) /\ DOMAIN (l \o m) = 1 .. Len(l) + Len(m)
      /\ \A i \in DOMAIN l : (l \o m)[i] = l[i]
      /\ \A i \in DOMAIN m : (l \o m)[Len(l) + i] = m[i]
      /\ DOMAIN l = 1 .. Len(l) /\ Len(l) \in Nat /\ DOMAIN m = 1 .. Len(m)
  BY ConcatFacts
<1>2. Len(m) = 1 => 1 \in DOMAIN m
  BY <1>1
<1>3. QED
  BY <1>1, <1>2

\* One message before the others.
LEMMA FirstMessage ==
    ASSUME NEW c \in Seq(Message), NEW m \in Seq(Message)
    PROVE  Len(c) = 1 =>
             /\ c \o m \in Seq(Message) /\ DOMAIN (c \o m) = 1 .. Len(m) + 1
             /\ (c \o m)[1] = c[1]
             /\ \A i \in 1 .. Len(m) : (c \o m)[i + 1] = m[i]
<1>1. /\ c \o m \in Seq(Message) /\ DOMAIN (c \o m) = 1 .. Len(c) + Len(m)
      /\ \A i \in DOMAIN c : (c \o m)[i] = c[i]
      /\ \A i \in DOMAIN m : (c \o m)[Len(c) + i] = m[i]
      /\ DOMAIN c = 1 .. Len(c) /\ Len(m) \in Nat /\ DOMAIN m = 1 .. Len(m)
  BY ConcatFacts
<1>2. Len(c) = 1 => 1 \in DOMAIN c
  BY <1>1
<1>3. QED
  BY <1>1, <1>2

\* One BIND message, with the token n.
OneBind(m, n) == m \in Seq(Message) /\ Len(m) = 1 /\ m[1] = [kind |-> "bind", bind |-> n]

\* A BIND with a new token goes on with the life of a service that is not stopped.
LEMMA LifeBind ==
    ASSUME NEW l \in Seq(Message), Life(l), l # <<>>, l[1].kind = "create", Silent(l),
           NEW n \in Nat \ {0}, Older(l, n),
           NEW m, OneBind(m, n)
    PROVE  /\ l \o m \in Seq(Message) /\ Life(l \o m) /\ Silent(l \o m) /\ Older(l \o m, n + 1)
           /\ l \o m # <<>> /\ (l \o m)[1] = l[1]
           /\ \A i \in DOMAIN l : i \in DOMAIN (l \o m) /\ (l \o m)[i] = l[i]
           /\ \E i \in DOMAIN (l \o m) : (l \o m)[i] = [kind |-> "bind", bind |-> n]
<1> DEFINE k == Len(l)
           h == l \o m
<1>0. m \in Seq(Message) /\ Len(m) = 1 /\ m[1] = [kind |-> "bind", bind |-> n]
  BY DEF OneBind
<1>1. k \in Nat \ {0} /\ DOMAIN l = 1 .. k
  OBVIOUS
<1>2. /\ h \in Seq(Message) /\ DOMAIN h = 1 .. k + 1 /\ Len(h) = k + 1
      /\ \A i \in 1 .. k : h[i] = l[i]
      /\ h[k + 1] = m[1]
  BY <1>0, OneMessage
<1> HIDE DEF h, k
<1>3. \A i \in 1 .. k : l[i].bind \in Nat /\ l[i].bind < n /\ l[i].kind # "stop"
  <2>1. \A i \in 1 .. k : l[i] \in Message
    BY <1>1
  <2>2. \A i \in 1 .. k : l[i].bind \in Nat
    BY <2>1, BoundsAssumption DEF Message, Binds
  <2>3. QED
    BY <1>1, <2>2 DEF Older, Silent
<1>4. Life(h)
  <2> SUFFICES ASSUME NEW i \in DOMAIN h
               PROVE  /\ h[i].kind \in {"bind", "unbind"} => h[1].kind = "create"
                      /\ h[i].kind = "create" => i = 1
                      /\ h[i].kind = "stop" => i = Len(h)
                      /\ h[i].kind = "unbind" =>
                           \E j \in 1 .. i - 1 : h[j] = [kind |-> "bind", bind |-> h[i].bind]
                      /\ h[i].kind = "bind" => \A j \in 1 .. i - 1 : h[j].bind # h[i].bind
    BY DEF Life
  <2>1. h[1].kind = "create"
    BY <1>1, <1>2
  <2>2. CASE i = k + 1
    <3>1. h[i].kind = "bind" /\ h[i].bind = n /\ i - 1 = k
      BY <1>0, <1>1, <1>2, <2>2
    <3>2. \A j \in 1 .. k : h[j].bind # n
      BY <1>2, <1>3
    <3>3. QED
      BY <2>1, <3>1, <3>2
  <2>3. CASE i \in 1 .. k
    <3>1. h[i] = l[i] /\ \A j \in 1 .. i - 1 : j \in 1 .. k /\ h[j] = l[j]
      BY <1>1, <1>2, <2>3
    <3>2. /\ l[i].kind = "create" => i = 1
          /\ l[i].kind # "stop"
          /\ l[i].kind = "unbind" =>
               \E j \in 1 .. i - 1 : l[j] = [kind |-> "bind", bind |-> l[i].bind]
          /\ l[i].kind = "bind" => \A j \in 1 .. i - 1 : l[j].bind # l[i].bind
      BY <1>1, <1>3, <2>3 DEF Life
    <3>3. QED
      BY <2>1, <3>1, <3>2
  <2>4. QED
    BY <1>1, <1>2, <2>2, <2>3
<1>5. Silent(h) /\ Older(h, n + 1)
  <2>1. \A i \in 1 .. k + 1 : i \in 1 .. k \/ i = k + 1
    BY <1>1
  <2>2. h[k + 1].kind # "stop" /\ h[k + 1].bind = n
    BY <1>0, <1>2
  <2>3. \A i \in 1 .. k + 1 : h[i].kind # "stop" /\ h[i].bind < n + 1
    BY <1>2, <1>3, <2>1, <2>2
  <2>4. QED
    BY <1>2, <2>3 DEF Silent, Older
<1>6. h # <<>> /\ h[1] = l[1] /\ k + 1 \in DOMAIN h /\ \A i \in 1 .. k : i \in DOMAIN h
  BY <1>1, <1>2
<1>7. QED
  BY <1>0, <1>1, <1>2, <1>4, <1>5, <1>6 DEF h

\* UNBINDs of bindings that the service knows go on with its life.
LEMMA LifeUnbinds ==
    ASSUME NEW l \in Seq(Message), Life(l), NEW n \in Nat \ {0}, Older(l, n),
           NEW u \in Seq(Message), u # <<>> => Silent(l),
           \A i \in DOMAIN u :
              /\ u[i].kind = "unbind"
              /\ \E j \in DOMAIN l : l[j] = [kind |-> "bind", bind |-> u[i].bind]
    PROVE  /\ l \o u \in Seq(Message) /\ Life(l \o u) /\ Older(l \o u, n)
           /\ Silent(l) => Silent(l \o u)
           /\ l # <<>> => l \o u # <<>> /\ (l \o u)[1] = l[1]
           /\ \A i \in DOMAIN l : i \in DOMAIN (l \o u) /\ (l \o u)[i] = l[i]
<1> DEFINE k == Len(l)
           h == l \o u
<1>1. k \in Nat /\ DOMAIN l = 1 .. k /\ Len(u) \in Nat /\ DOMAIN u = 1 .. Len(u)
  OBVIOUS
<1>2. /\ h \in Seq(Message) /\ DOMAIN h = 1 .. k + Len(u) /\ Len(h) = k + Len(u)
      /\ \A i \in 1 .. k : h[i] = l[i]
      /\ \A i \in k + 1 .. k + Len(u) : h[i] = u[i - k] /\ i - k \in 1 .. Len(u)
  BY <1>1
<1> HIDE DEF h, k
<1>3. \A i \in 1 .. k + Len(u) : i \in 1 .. k \/ i \in k + 1 .. k + Len(u)
  BY <1>1
<1>4. ASSUME NEW i \in k + 1 .. k + Len(u)
      PROVE  /\ h[i].kind = "unbind" /\ h[i].bind < n /\ h[1].kind = "create"
             /\ \E j \in 1 .. i - 1 : h[j] = [kind |-> "bind", bind |-> h[i].bind]
  <2>1. PICK j \in 1 .. k : l[j] = [kind |-> "bind", bind |-> u[i - k].bind]
    BY <1>1, <1>2
  <2>2. l[j].kind = "bind" /\ l[j].bind = u[i - k].bind /\ j \in DOMAIN l
    BY <1>1, <2>1
  <2>3. l[1].kind = "create" /\ u[i - k].bind < n
    BY <2>2 DEF Life, Older
  <2>4. j \in 1 .. i - 1 /\ 1 \in 1 .. k
    BY <1>1, <2>1
  <2>5. QED
    BY <1>1, <1>2, <2>1, <2>3, <2>4
<1>5. Life(h)
  <2> SUFFICES ASSUME NEW i \in DOMAIN h
               PROVE  /\ h[i].kind \in {"bind", "unbind"} => h[1].kind = "create"
                      /\ h[i].kind = "create" => i = 1
                      /\ h[i].kind = "stop" => i = Len(h)
                      /\ h[i].kind = "unbind" =>
                           \E j \in 1 .. i - 1 : h[j] = [kind |-> "bind", bind |-> h[i].bind]
                      /\ h[i].kind = "bind" => \A j \in 1 .. i - 1 : h[j].bind # h[i].bind
    BY DEF Life
  <2>1. CASE i \in k + 1 .. k + Len(u)
    BY <1>4, <2>1
  <2>2. CASE i \in 1 .. k
    <3>1. h[i] = l[i] /\ h[1] = l[1] /\ \A j \in 1 .. i - 1 : j \in 1 .. k /\ h[j] = l[j]
      BY <1>1, <1>2, <2>2
    <3>2. /\ l[i].kind \in {"bind", "unbind"} => l[1].kind = "create"
          /\ l[i].kind = "create" => i = 1
          /\ l[i].kind = "stop" => i = k
          /\ l[i].kind = "unbind" =>
               \E j \in 1 .. i - 1 : l[j] = [kind |-> "bind", bind |-> l[i].bind]
          /\ l[i].kind = "bind" => \A j \in 1 .. i - 1 : l[j].bind # l[i].bind
      BY <1>1, <2>2 DEF Life, k
    <3>3. l[i].kind = "stop" => Len(u) = 0
      <4>1. l[i].kind = "stop" => u = <<>>
        BY <1>1, <2>2 DEF Silent
      <4>2. QED
        BY <4>1
    <3>4. l[i].kind = "stop" => i = Len(h)
      BY <1>1, <1>2, <3>2, <3>3
    <3>5. QED
      BY <3>1, <3>2, <3>4
  <2>3. QED
    BY <1>2, <1>3, <2>1, <2>2
<1>6. Older(h, n)
  <2>1. \A i \in 1 .. k : h[i].bind < n
    BY <1>1, <1>2 DEF Older
  <2>2. QED
    BY <1>2, <1>3, <1>4, <2>1 DEF Older
<1>7. Silent(l) => Silent(h)
  <2>1. Silent(l) => \A i \in 1 .. k : h[i].kind # "stop"
    BY <1>1, <1>2 DEF Silent
  <2>2. \A i \in k + 1 .. k + Len(u) : h[i].kind # "stop"
    BY <1>4
  <2>3. QED
    BY <1>2, <1>3, <2>1, <2>2 DEF Silent
<1>8. /\ l # <<>> => h # <<>> /\ h[1] = l[1]
      /\ \A i \in 1 .. k : i \in DOMAIN h /\ h[i] = l[i]
  <2>1. l # <<>> => k # 0
    BY DEF k
  <2>2. QED
    BY <1>1, <1>2, <2>1
<1>9. QED
  BY <1>1, <1>2, <1>5, <1>6, <1>7, <1>8 DEF h

\* STOP ends the life of a service.
LEMMA LifeStop ==
    ASSUME NEW l \in Seq(Message), Life(l), Silent(l), NEW n \in Nat \ {0}, Older(l, n)
    PROVE  Life(l \o Msg("stop")) /\ Older(l \o Msg("stop"), n)
<1> DEFINE k == Len(l)
           h == l \o Msg("stop")
<1>1. k \in Nat /\ DOMAIN l = 1 .. k /\ Msg("stop") \in Seq(Message) /\ Len(Msg("stop")) = 1
      /\ Msg("stop")[1] = [kind |-> "stop", bind |-> 0]
  BY MsgFacts
<1>2. /\ DOMAIN h = 1 .. k + 1 /\ Len(h) = k + 1
      /\ \A i \in 1 .. k : h[i] = l[i]
      /\ h[k + 1] = Msg("stop")[1]
  BY <1>1, OneMessage
<1> HIDE DEF h, k
<1>3. h[k + 1] = [kind |-> "stop", bind |-> 0]
  BY <1>1, <1>2
<1>4. \A i \in 1 .. k + 1 : i \in 1 .. k \/ i = k + 1
  BY <1>1
<1>5. Life(h)
  <2> SUFFICES ASSUME NEW i \in DOMAIN h
               PROVE  /\ h[i].kind \in {"bind", "unbind"} => h[1].kind = "create"
                      /\ h[i].kind = "create" => i = 1
                      /\ h[i].kind = "stop" => i = Len(h)
                      /\ h[i].kind = "unbind" =>
                           \E j \in 1 .. i - 1 : h[j] = [kind |-> "bind", bind |-> h[i].bind]
                      /\ h[i].kind = "bind" => \A j \in 1 .. i - 1 : h[j].bind # h[i].bind
    BY DEF Life
  <2>1. CASE i = k + 1
    BY <1>2, <1>3, <2>1
  <2>2. CASE i \in 1 .. k
    <3>1. h[i] = l[i] /\ h[1] = l[1] /\ \A j \in 1 .. i - 1 : j \in 1 .. k /\ h[j] = l[j]
      BY <1>1, <1>2, <2>2
    <3>2. /\ l[i].kind \in {"bind", "unbind"} => l[1].kind = "create"
          /\ l[i].kind = "create" => i = 1
          /\ l[i].kind # "stop"
          /\ l[i].kind = "unbind" =>
               \E j \in 1 .. i - 1 : l[j] = [kind |-> "bind", bind |-> l[i].bind]
          /\ l[i].kind = "bind" => \A j \in 1 .. i - 1 : l[j].bind # l[i].bind
      BY <1>1, <2>2 DEF Life, Silent
    <3>3. QED
      BY <3>1, <3>2
  <2>3. QED
    BY <1>2, <1>4, <2>1, <2>2
<1>6. Older(h, n)
  <2>1. \A i \in 1 .. k : h[i].bind < n
    BY <1>1, <1>2 DEF Older
  <2>2. h[k + 1].bind < n
    BY <1>3
  <2>3. QED
    BY <1>2, <1>4, <2>1, <2>2 DEF Older
<1>7. QED
  BY <1>5, <1>6 DEF h

\* CREATE, and BIND for some bindings.
Begins(h, bs) ==
    /\ h \in Seq(Message) /\ DOMAIN h = 1 .. Len(bs) + 1
    /\ h[1] = [kind |-> "create", bind |-> 0]
    /\ \A i \in 1 .. Len(bs) : h[i + 1] = BindOf(bs[i])

\* CREATE and BINDs with new tokens begin the life of a service.
LEMMA LifeBegins ==
    ASSUME NEW bs \in Seq(Binding), NEW n \in Nat \ {0},
           \A i \in 1 .. Len(bs) : bs[i].bind = n + i - 1,
           NEW h, Begins(h, bs)
    PROVE  /\ Life(h) /\ Silent(h) /\ Older(h, n + Len(bs))
           /\ h # <<>> /\ h[1].kind = "create"
           /\ \A i \in 1 .. Len(bs) : \E j \in DOMAIN h : h[j] = BindOf(bs[i])
<1> DEFINE k == Len(bs)
<1>1. k \in Nat
  OBVIOUS
<1> HIDE DEF k
<1>2. /\ h \in Seq(Message) /\ DOMAIN h = 1 .. k + 1
      /\ h[1].kind = "create" /\ h[1].bind = 0
      /\ \A i \in 1 .. k : bs[i].bind = n + i - 1
      /\ \A i \in 1 .. k : h[i + 1] = BindOf(bs[i])
  BY DEF Begins, k
<1>3. \A i \in 1 .. k : h[i + 1] = [kind |-> "bind", bind |-> n + i - 1]
  BY <1>1, <1>2 DEF BindOf
<1>4. \A i \in 1 .. k + 1 : i = 1 \/ i - 1 \in 1 .. k
  BY <1>1
<1>5. \A i \in 1 .. k + 1 : i # 1 => h[i] = [kind |-> "bind", bind |-> n + i - 2]
  <2> SUFFICES ASSUME NEW i \in 1 .. k + 1, i # 1
               PROVE  h[i] = [kind |-> "bind", bind |-> n + i - 2]
    OBVIOUS
  <2>1. i - 1 \in 1 .. k /\ i - 1 + 1 = i /\ n + (i - 1) - 1 = n + i - 2
    BY <1>1
  <2>2. QED
    BY <1>3, <2>1
<1>6. \A i \in 1 .. k + 1 :
        /\ i = 1 => h[i].kind = "create" /\ h[i].bind = 0
        /\ i # 1 => h[i].kind = "bind" /\ h[i].bind = n + i - 2
  BY <1>2, <1>5
<1>7. Life(h)
  <2> SUFFICES ASSUME NEW i \in 1 .. k + 1
               PROVE  /\ h[i].kind \in {"bind", "unbind"} => h[1].kind = "create"
                      /\ h[i].kind = "create" => i = 1
                      /\ h[i].kind = "stop" => i = Len(h)
                      /\ h[i].kind = "unbind" =>
                           \E j \in 1 .. i - 1 : h[j] = [kind |-> "bind", bind |-> h[i].bind]
                      /\ h[i].kind = "bind" => \A j \in 1 .. i - 1 : h[j].bind # h[i].bind
    BY <1>2 DEF Life
  <2>1. h[1].kind = "create"
    BY <1>2
  <2>2. h[i].kind = "bind" => i # 1 /\ \A j \in 1 .. i - 1 : h[j].bind # h[i].bind
    <3> SUFFICES ASSUME i # 1, NEW j \in 1 .. i - 1 PROVE h[j].bind # h[i].bind
      BY <1>6
    <3>1. j \in 1 .. k + 1 /\ n + i - 2 # 0 /\ n + j - 2 # n + i - 2
      BY <1>1
    <3>2. QED
      BY <1>6, <3>1
  <2>3. QED
    BY <1>6, <2>1, <2>2
<1>8. Silent(h) /\ Older(h, n + k)
  <2>1. \A i \in 1 .. k + 1 : 0 < n + k /\ n + i - 2 < n + k
    BY <1>1
  <2>2. \A i \in 1 .. k + 1 : h[i].kind # "stop"
    BY <1>6
  <2>3. \A i \in 1 .. k + 1 : h[i].bind < n + k
    BY <1>6, <2>1
  <2>4. QED
    BY <1>2, <2>2, <2>3 DEF Silent, Older
<1>9. \A i \in 1 .. k : \E j \in DOMAIN h : h[j] = BindOf(bs[i])
  <2> SUFFICES ASSUME NEW i \in 1 .. k PROVE \E j \in DOMAIN h : h[j] = BindOf(bs[i])
    OBVIOUS
  <2>1. i + 1 \in 1 .. k + 1
    BY <1>1
  <2>2. QED
    BY <1>2, <2>1
<1>10. h # <<>>
  BY <1>1, <1>2
<1>11. QED
  BY <1>2, <1>7, <1>8, <1>9, <1>10 DEF k

\* What a process hears at the end of its attach begins its life.
LEMMA LifeNew ==
    ASSUME NEW bs \in Seq(Binding), NEW n \in Nat \ {0},
           \A i \in 1 .. Len(bs) : bs[i].bind = n + i - 1
    PROVE  LET h == Msg("create") \o Msgs("bind", bs) IN
           /\ h \in Seq(Message) /\ Life(h) /\ Silent(h) /\ Older(h, n + Len(bs))
           /\ h # <<>> /\ h[1].kind = "create"
           /\ \A i \in 1 .. Len(bs) : \E j \in DOMAIN h : h[j] = BindOf(bs[i])
<1> DEFINE h == Msg("create") \o Msgs("bind", bs)
<1>1. Msgs("bind", bs) \in Seq(Message) /\ Len(Msgs("bind", bs)) = Len(bs)
      /\ \A i \in 1 .. Len(bs) : Msgs("bind", bs)[i] = BindOf(bs[i])
  BY MsgsFacts DEF BindOf
<1>2. Msg("create") \in Seq(Message) /\ Msg("create")[1] = [kind |-> "create", bind |-> 0]
  BY MsgFacts
<1>3. /\ h \in Seq(Message) /\ DOMAIN h = 1 .. Len(Msgs("bind", bs)) + 1
      /\ h[1] = Msg("create")[1]
      /\ \A i \in 1 .. Len(Msgs("bind", bs)) : h[i + 1] = Msgs("bind", bs)[i]
  <2>1. Len(Msg("create")) = 1 =>
          /\ h \in Seq(Message) /\ DOMAIN h = 1 .. Len(Msgs("bind", bs)) + 1
          /\ h[1] = Msg("create")[1]
          /\ \A i \in 1 .. Len(Msgs("bind", bs)) : h[i + 1] = Msgs("bind", bs)[i]
    BY <1>1, <1>2, FirstMessage, Zenon
  <2>2. QED
    BY <2>1, MsgFacts
<1> HIDE DEF h
<1>4. Begins(h, bs)
  <2>1. h[1] = [kind |-> "create", bind |-> 0]
    BY <1>2, <1>3
  <2>2. DOMAIN h = 1 .. Len(bs) + 1
    BY <1>1, <1>3
  <2>3. \A i \in 1 .. Len(bs) : h[i + 1] = BindOf(bs[i])
    BY <1>1, <1>3
  <2>4. QED
    BY <1>3, <2>1, <2>2, <2>3 DEF Begins
<1>5. /\ Life(h) /\ Silent(h) /\ Older(h, n + Len(bs)) /\ h # <<>> /\ h[1].kind = "create"
      /\ \A i \in 1 .. Len(bs) : \E j \in DOMAIN h : h[j] = BindOf(bs[i])
  BY <1>4, LifeBegins, Zenon
<1>6. QED
  BY <1>3, <1>5 DEF h

-----------------------------------------------------------------------------
(***************************************************************************)
(* What the steps do to a service process.                                 *)
(***************************************************************************)

\* What the messages are that a service was sent.
LEMMA LogFacts ==
    ASSUME TypeOK, NEW t \in Tokens
    PROVE  /\ log[t] \in Seq(Message) /\ DOMAIN log[t] = 1 .. Len(log[t]) /\ Len(log[t]) \in Nat
           /\ \A i \in DOMAIN log[t] : log[t][i] \in Message /\ log[t][i].bind \in Nat
<1>1. log[t] \in Seq(Message)
  BY DEF TypeOK
<1>2. /\ DOMAIN log[t] = 1 .. Len(log[t]) /\ Len(log[t]) \in Nat
      /\ \A i \in DOMAIN log[t] : log[t][i] \in Message
  BY <1>1
<1>3. \A m \in Message : m.bind \in Nat
  BY BoundsAssumption DEF Message, Binds
<1>4. QED
  BY <1>1, <1>2, <1>3

\* New bindings come to those of their services.
LEMMA BoundGrows ==
    ASSUME TypeOK, NEW new \in Seq(Binding), bindings' = bindings \o new, NEW s
    PROVE  \A b : b \in Bound(s)' <=>
             b \in Bound(s) \/ (b.token = s /\ \E i \in DOMAIN new : new[i] = b)
<1>1. bindings \in Seq(Binding)
  BY DEF TypeOK
<1>2. /\ DOMAIN (bindings \o new) = 1 .. Len(bindings) + Len(new)
      /\ \A i \in DOMAIN bindings :
           (bindings \o new)[i] = bindings[i] /\ i \in 1 .. Len(bindings) + Len(new)
      /\ \A i \in DOMAIN new :
           /\ (bindings \o new)[Len(bindings) + i] = new[i]
           /\ Len(bindings) + i \in 1 .. Len(bindings) + Len(new)
      /\ \A i \in DOMAIN (bindings \o new) :
           /\ i \in DOMAIN bindings \/ i - Len(bindings) \in DOMAIN new
           /\ (bindings \o new)[i] = IF i \in DOMAIN bindings THEN bindings[i]
                                     ELSE new[i - Len(bindings)]
  BY <1>1, ConcatFacts
<1>3. \A b : (\E i \in DOMAIN bindings' : bindings'[i] = b) <=>
               (\E i \in DOMAIN bindings : bindings[i] = b) \/ (\E i \in DOMAIN new : new[i] = b)
  BY <1>2
<1>4. \A i \in DOMAIN new : new[i] \in Binding
  OBVIOUS
<1>5. QED
  BY <1>3, <1>4 DEF Bound

\* A step that leaves a process where it is, or lets it go on without telling it anything.
Quiet(s) ==
    /\ \/ processes'[s] = processes[s]
       \/ /\ processes[s] # Absent /\ processes'[s] # Absent
          /\ processes'[s].ready = processes[s].ready
          /\ processes'[s].pending = processes[s].pending
    /\ log'[s] = log[s] /\ \A b : b \in Bound(s)' <=> b \in Bound(s)
    /\ \A c \in Connections : <<c, s>> \in accepted' <=> <<c, s>> \in accepted
    /\ nextSeq <= nextSeq' /\ nextBind <= nextBind' /\ (sweepFailed => sweepFailed')
    /\ s \in leaving' => s \in leaving
    /\ s >= nextSeq => child'[s] = child[s]
    /\ child'[s] \in Alive => child[s] \in Alive
    /\ child[s] = "reaped" => child'[s] = "reaped"
    /\ processes[s] # Absent /\ child[s] # "reaped" =>
          /\ child'[s] # "reaped"
          /\ child[s] \in {"up", "broken", "exited"} => child'[s] \in {"up", "broken", "exited"}

\* A quiet step keeps the invariant of its process.
LEMMA ProcessQuiet ==
    ASSUME TypeOK, TypeOK', NEW s \in Processes, ProcessInv(s), Quiet(s)
    PROVE  ProcessInv(s)'
<1>1. /\ nextSeq \in Nat /\ nextSeq' \in Nat /\ nextBind \in Nat /\ nextBind' \in Nat
      /\ s \in Nat /\ nextSeq <= nextSeq' /\ nextBind <= nextBind'
  BY BoundsAssumption DEF TypeOK, Quiet, Processes
<1>2. processes'[s] # Absent <=> processes[s] # Absent
  BY DEF Quiet
<1>3. processes[s] # Absent => /\ processes'[s].ready = processes[s].ready
                               /\ processes'[s].pending = processes[s].pending
  BY DEF Quiet
<1>4. FreshInv(s)'
  <2> SUFFICES ASSUME s >= nextSeq' PROVE FreshInv(s)'
    BY DEF FreshInv
  <2>1. s >= nextSeq
    BY <1>1
  <2>2. /\ processes[s] = Absent /\ child[s] = "none" /\ s \notin leaving
        /\ log[s] = <<>> /\ (\A b : b \notin Bound(s))
        /\ \A c \in Connections : <<c, s>> \notin accepted
    BY <2>1 DEF ProcessInv, FreshInv
  <2>3. /\ processes'[s] = Absent /\ child'[s] = "none" /\ s \notin leaving'
        /\ log'[s] = <<>> /\ (\A b : b \notin Bound(s)')
        /\ \A c \in Connections : <<c, s>> \notin accepted'
    BY <1>2, <2>1, <2>2 DEF Quiet
  <2>4. Bound(s)' = {}
    BY <2>3
  <2>5. QED
    BY <2>3, <2>4 DEF FreshInv
<1>5. MapInv(s)'
  <2> SUFFICES ASSUME processes'[s] # Absent PROVE MapInv(s)'
    BY DEF MapInv
  <2>1. /\ s \notin leaving /\ child[s] # "reaped"
        /\ ~processes[s].ready => log[s] = <<>> /\ (\A b : b \notin Bound(s))
        /\ processes[s].ready =>
              /\ child[s] \in {"up", "broken", "exited"}
              /\ log[s] # <<>> /\ log[s][1].kind = "create"
              /\ Silent(log[s])
    BY <1>2 DEF ProcessInv, MapInv
  <2>2. s \notin leaving' /\ child'[s] # "reaped"
    BY <1>2, <2>1 DEF Quiet
  <2>3. ASSUME ~processes'[s].ready PROVE log'[s] = <<>> /\ Bound(s)' = {}
    <3>1. log[s] = <<>> /\ (\A b : b \notin Bound(s))
      BY <1>2, <1>3, <2>1, <2>3
    <3>2. log'[s] = <<>> /\ (\A b : b \notin Bound(s)')
      BY <3>1 DEF Quiet
    <3>3. QED
      BY <3>2
  <2>4. ASSUME processes'[s].ready
        PROVE  /\ child'[s] \in {"up", "broken", "exited"}
               /\ log'[s] # <<>> /\ log'[s][1].kind = "create" /\ Silent(log'[s])
    BY <1>2, <1>3, <2>1, <2>4 DEF Quiet
  <2>5. QED
    BY <2>2, <2>3, <2>4 DEF MapInv
<1>6. BindingsInv(s)'
  <2> SUFFICES ASSUME NEW b \in Bound(s)'
               PROVE  /\ (processes'[s] # Absent /\ processes'[s].ready) \/ child'[s] = "reaped"
                      /\ child'[s] \in Alive => \E i \in DOMAIN log'[s] : log'[s][i] = BindOf(b)
    BY DEF BindingsInv, BindOf
  <2>1. b \in Bound(s)
    BY DEF Quiet
  <2>2. /\ (processes[s] # Absent /\ processes[s].ready) \/ child[s] = "reaped"
        /\ child[s] \in Alive => \E i \in DOMAIN log[s] : log[s][i] = BindOf(b)
    BY <2>1 DEF ProcessInv, BindingsInv
  <2>3. QED
    BY <1>2, <1>3, <2>2 DEF Quiet
<1>7. LogInv(s)'
  <2>1. Life(log[s]) /\ Older(log[s], nextBind) /\ log'[s] = log[s]
    BY DEF ProcessInv, LogInv, Quiet
  <2>2. \A i \in DOMAIN log[s] : log[s][i].bind \in Nat
    BY LogFacts DEF Tokens
  <2>3. \A x \in Nat : x < nextBind => x < nextBind'
    BY <1>1
  <2>4. Older(log[s], nextBind')
    BY <2>1, <2>2, <2>3 DEF Older
  <2>5. QED
    BY <2>1, <2>4 DEF LogInv
<1>8. ConnectionsInv(s)'
  <2> SUFFICES ASSUME child'[s] \in Alive PROVE ConnectionsInv(s)'
    BY DEF ConnectionsInv
  <2>1. child[s] \in Alive
    BY DEF Quiet
  <2>2. /\ \A c \in Connections : <<c, s>> \in accepted => Holds(c, s)
        /\ processes[s] # Absent /\ (\A c \in Connections : ~Holds(c, s)) => sweepFailed
    BY <2>1 DEF ProcessInv, ConnectionsInv
  <2>3. \A c \in Connections : Holds(c, s)' <=> Holds(c, s)
    BY <1>2, <1>3 DEF Holds, Waits, Quiet
  <2>4. QED
    BY <1>2, <2>2, <2>3 DEF ConnectionsInv, Quiet
<1>9. QED
  BY <1>4, <1>5, <1>6, <1>7, <1>8 DEF ProcessInv

\* A process that try_wait found dead and that left the map.
LEMMA ProcessForgotten ==
    ASSUME TypeOK, TypeOK', NEW s \in Processes, ProcessInv(s),
           processes[s] # Absent, processes'[s] = Absent, child'[s] = "reaped",
           UNCHANGED <<log, bindings, nextBind>>, nextSeq <= nextSeq'
    PROVE  ProcessInv(s)'
<1>1. nextSeq \in Nat /\ nextSeq' \in Nat /\ s \in Nat
  BY BoundsAssumption DEF TypeOK, Processes
<1>2. ~(s >= nextSeq)
  BY DEF ProcessInv, FreshInv
<1>3. FreshInv(s)'
  BY <1>1, <1>2 DEF FreshInv
<1>4. MapInv(s)'
  BY DEF MapInv
<1>5. BindingsInv(s)'
  BY DEF BindingsInv, Alive
<1>6. LogInv(s)'
  BY DEF ProcessInv, LogInv
<1>7. ConnectionsInv(s)'
  BY DEF ConnectionsInv, Alive
<1>8. QED
  BY <1>3, <1>4, <1>5, <1>6, <1>7 DEF ProcessInv

\* A bind of a process that is ready.
LEMMA BindReadyKeeps ==
    ASSUME TypeOK, TypeOK', \A r \in Processes : ProcessInv(r), TokensLast,
           NEW c \in Connections, NEW s \in Launched, BindReady(c, s), sweepFailed' = sweepFailed
    PROVE  \A r \in Processes : ProcessInv(r)'
<1> DEFINE new == NewBindings(s, <<c>>)
           b0  == [bind |-> nextBind, token |-> s, conn |-> c]
           m   == Msgs("bind", new)
<1>1. s \in Processes /\ s \in Tokens /\ processes[s] # Absent
  BY DEF Launched, Tokens
<1>2. nextBind <= MaxBinds
  BY TokenLeft
<1>3. /\ new \in Seq(Binding) /\ Len(new) = 1 /\ new[1] = b0 /\ b0 \in Binding
      /\ m \in Seq(Message) /\ OneBind(m, nextBind)
  BY <1>1, <1>2, OneBinding DEF OneBind
<1>4. /\ processes[s].ready
      /\ bindings' = bindings \o new /\ nextBind' = nextBind + 1
      /\ \/ /\ child[s] = "up" /\ log' = Told(s, m)
            /\ accepted' = accepted \cup {<<c, s>>}
         \/ child[s] # "up" /\ UNCHANGED <<log, accepted>>
      /\ UNCHANGED remoteVars
  BY DEF BindReady
<1> HIDE DEF new, b0, m
<1>5. \A r, b : b \in Bound(r)' <=> b \in Bound(r) \/ (b.token = r /\ b = b0)
  <2>1. \A b : (\E i \in DOMAIN new : new[i] = b) <=> b = b0
    <3>1. DOMAIN new = 1 .. 1
      BY <1>3
    <3>2. QED
      BY <1>3, <3>1
  <2>2. \A r, b : b \in Bound(r)' <=>
             b \in Bound(r) \/ (b.token = r /\ \E i \in DOMAIN new : new[i] = b)
    BY <1>3, <1>4, BoundGrows
  <2>3. QED
    BY <2>1, <2>2
<1>6. b0.token = s /\ b0.conn = c /\ b0.bind = nextBind
  BY DEF b0
<1>7. nextBind \in Nat \ {0} /\ nextSeq \in Nat
  BY BoundsAssumption DEF TypeOK
<1>8. UNCHANGED <<processes, child, leaving, nextSeq>>
  BY <1>4 DEF remoteVars
<1>9. ASSUME NEW r \in Processes, r # s
      PROVE  ProcessInv(r)'
  <2>1. log'[r] = log[r]
    <3>1. r \in Tokens \ {s} /\ log \in [Tokens -> Seq(Message)]
      BY <1>9 DEF Tokens, TypeOK
    <3>2. \A t \in Tokens \ {s} : Told(s, m)[t] = log[t]
      BY <1>1, <1>3, <3>1, ToldFacts
    <3>3. QED
      BY <1>4, <3>1, <3>2
  <2>2. \A x \in Connections : <<x, r>> \in accepted' <=> <<x, r>> \in accepted
    BY <1>4, <1>9
  <2>3. \A b : b \in Bound(r)' <=> b \in Bound(r)
    BY <1>5, <1>6, <1>9
  <2>4. nextBind <= nextBind' /\ nextSeq <= nextSeq'
    BY <1>4, <1>7, <1>8
  <2>5. Quiet(r)
    BY <1>8, <2>1, <2>2, <2>3, <2>4 DEF Quiet
  <2>6. QED
    BY <2>5, ProcessQuiet
<1>10. ProcessInv(s)'
  <2> DEFINE l == log[s]
  <2>0. l \in Seq(Message) /\ \A i \in DOMAIN l : l[i].bind \in Nat
    BY <1>1, LogFacts
  <2>1. /\ ProcessInv(s) /\ s \notin leaving /\ child[s] \in {"up", "broken", "exited"}
        /\ l # <<>> /\ l[1].kind = "create" /\ Silent(l)
        /\ Life(l) /\ Older(l, nextBind) /\ ~(s >= nextSeq)
    <3>1. ProcessInv(s)
      BY <1>1
    <3>2. QED
      BY <1>1, <1>4, <3>1 DEF ProcessInv, MapInv, LogInv, FreshInv
  <2>2. /\ Life(log'[s]) /\ Silent(log'[s]) /\ Older(log'[s], nextBind')
        /\ log'[s] # <<>> /\ log'[s][1].kind = "create"
        /\ \A i \in DOMAIN l : i \in DOMAIN log'[s] /\ log'[s][i] = l[i]
        /\ child[s] = "up" => \E i \in DOMAIN log'[s] : log'[s][i] = BindOf(b0)
    <3>1. CASE child[s] = "up"
      <4>0. log \in [Tokens -> Seq(Message)]
        BY DEF TypeOK
      <4>1. log'[s] = l \o m
        BY <1>1, <1>3, <1>4, <3>1, <4>0, ToldFacts
      <4> HIDE DEF l
      <4>2. /\ Life(l \o m) /\ Silent(l \o m) /\ Older(l \o m, nextBind + 1)
            /\ l \o m # <<>> /\ (l \o m)[1] = l[1]
            /\ \A i \in DOMAIN l : i \in DOMAIN (l \o m) /\ (l \o m)[i] = l[i]
            /\ \E i \in DOMAIN (l \o m) : (l \o m)[i] = [kind |-> "bind", bind |-> nextBind]
        BY <1>3, <1>7, <2>0, <2>1, LifeBind
      <4>3. BindOf(b0) = [kind |-> "bind", bind |-> nextBind]
        BY <1>6 DEF BindOf
      <4>4. QED
        BY <1>4, <2>1, <4>1, <4>2, <4>3
    <3>2. CASE child[s] # "up"
      <4>1. log' = log /\ nextBind' = nextBind + 1
        BY <1>4, <3>2
      <4>2. \A x \in Nat : x < nextBind => x < nextBind + 1
        BY <1>7
      <4>3. Older(l, nextBind + 1)
        BY <2>0, <2>1, <4>2 DEF Older
      <4>4. QED
        BY <2>1, <3>2, <4>1, <4>3
    <3>3. QED
      BY <3>1, <3>2
  <2>3. FreshInv(s)'
    BY <1>8, <2>1 DEF FreshInv
  <2>4. MapInv(s)'
    BY <1>4, <1>8, <2>1, <2>2 DEF MapInv
  <2>5. BindingsInv(s)'
    <3> SUFFICES ASSUME NEW b \in Bound(s)'
                 PROVE  /\ (processes'[s] # Absent /\ processes'[s].ready) \/ child'[s] = "reaped"
                        /\ child'[s] \in Alive => \E i \in DOMAIN log'[s] : log'[s][i] = BindOf(b)
      BY DEF BindingsInv, BindOf
    <3>1. b \in Bound(s) => (child[s] \in Alive => \E i \in DOMAIN log[s] : log[s][i] = BindOf(b))
      BY <2>1 DEF ProcessInv, BindingsInv
    <3>2. b \in Bound(s) \/ b = b0
      BY <1>5
    <3>3. child[s] \in Alive => child[s] = "up"
      BY <2>1 DEF Alive
    <3>4. QED
      BY <1>1, <1>4, <1>8, <2>2, <3>1, <3>2, <3>3
  <2>6. LogInv(s)'
    BY <2>2 DEF LogInv
  <2>7. ConnectionsInv(s)'
    <3> SUFFICES ASSUME child'[s] \in Alive PROVE ConnectionsInv(s)'
      BY DEF ConnectionsInv
    <3>1. child[s] = "up"
      BY <1>8, <2>1 DEF Alive
    <3>2. \A x \in Connections : <<x, s>> \in accepted => Holds(x, s)
      BY <2>1, <3>1 DEF ProcessInv, ConnectionsInv, Alive
    <3>3. \A x \in Connections : Holds(x, s) => Holds(x, s)'
      BY <1>5, <1>8 DEF Holds, Waits
    <3>4. Holds(c, s)'
      BY <1>1, <1>5, <1>6, <1>8 DEF Holds
    <3>5. \A x \in Connections : <<x, s>> \in accepted' => <<x, s>> \in accepted \/ x = c
      BY <1>4
    <3>6. \A x \in Connections : <<x, s>> \in accepted' => Holds(x, s)'
      BY <3>2, <3>3, <3>4, <3>5
    <3>7. QED
      BY <3>4, <3>6 DEF ConnectionsInv
  <2>8. QED
    BY <2>3, <2>4, <2>5, <2>6, <2>7 DEF ProcessInv
<1>11. QED
  BY <1>9, <1>10

\* A bind of a process that has not attached yet.
LEMMA BindPendingKeeps ==
    ASSUME TypeOK, TypeOK', \A r \in Processes : ProcessInv(r),
           NEW c \in Connections, NEW s \in Launched, BindPending(c, s), sweepFailed' = sweepFailed
    PROVE  \A r \in Processes : ProcessInv(r)'
<1> DEFINE p == processes[s].pending
<1>1. s \in Processes /\ processes[s] # Absent /\ processes[s] \in Entry /\ p \in Seq(Connections)
  BY EntryFacts
<1>2. /\ ~processes[s].ready
      /\ processes' = [processes EXCEPT ![s].pending = Append(@, c)]
      /\ accepted' = accepted \cup {<<c, s>>}
      /\ UNCHANGED <<child, leaving, nextSeq, bindings, nextBind, log>>
  BY DEF BindPending, bindVars
<1>3. nextBind \in Nat /\ nextSeq \in Nat
  BY BoundsAssumption DEF TypeOK
<1>4. ASSUME NEW r \in Processes, r # s
      PROVE  ProcessInv(r)'
  <2>1. processes'[r] = processes[r]
    BY <1>2, <1>4 DEF TypeOK
  <2>2. \A x \in Connections : <<x, r>> \in accepted' <=> <<x, r>> \in accepted
    BY <1>2, <1>4
  <2>3. Bound(r)' = Bound(r)
    BY <1>2 DEF Bound
  <2>4. Quiet(r)
    BY <1>2, <1>3, <2>1, <2>2, <2>3 DEF Quiet
  <2>5. QED
    BY <2>4, ProcessQuiet
<1>5. ProcessInv(s)'
  <2> DEFINE e == [processes[s] EXCEPT !.pending = Append(p, c)]
  <2>1. processes'[s] = e /\ e.ready = processes[s].ready /\ e.pending = Append(p, c)
    BY <1>1, <1>2 DEF TypeOK, Entry
  <2>2. e \in Entry
    BY <1>1 DEF Entry
  <2>3. e # Absent
    BY <2>2, EntryAssumption
  <2>4. Bound(s)' = Bound(s)
    BY <1>2 DEF Bound
  <2>5. /\ \A i \in DOMAIN p : i \in DOMAIN Append(p, c) /\ Append(p, c)[i] = p[i]
        /\ \E i \in DOMAIN Append(p, c) : Append(p, c)[i] = c
    <3>1. DOMAIN p = 1 .. Len(p) /\ Len(p) \in Nat /\ DOMAIN Append(p, c) = 1 .. Len(p) + 1
          /\ Append(p, c)[Len(p) + 1] = c /\ \A i \in 1 .. Len(p) : Append(p, c)[i] = p[i]
      BY <1>1
    <3>2. Len(p) + 1 \in 1 .. Len(p) + 1 /\ \A i \in 1 .. Len(p) : i \in 1 .. Len(p) + 1
      BY <3>1
    <3>3. QED
      BY <3>1, <3>2
  <2> HIDE DEF e, p
  <2>6. ProcessInv(s) /\ s < nextSeq
    <3>1. ProcessInv(s) /\ ~(s >= nextSeq)
      BY <1>1 DEF ProcessInv, FreshInv
    <3>2. QED
      BY <1>1, <1>3, <3>1 DEF Processes
  <2>7. /\ s \notin leaving /\ child[s] # "reaped" /\ log[s] = <<>> /\ Bound(s) = {}
    BY <1>1, <1>2, <2>6 DEF ProcessInv, MapInv
  <2>8. FreshInv(s)'
    <3>1. ~(s >= nextSeq)
      BY <1>1, <2>6, <1>3 DEF Processes
    <3>2. QED
      BY <1>2, <3>1 DEF FreshInv
  <2>9. MapInv(s)'
    BY <1>2, <2>1, <2>4, <2>7 DEF MapInv
  <2>10. BindingsInv(s)'
    BY <2>4, <2>7 DEF BindingsInv
  <2>11. LogInv(s)'
    BY <1>2, <2>6 DEF ProcessInv, LogInv
  <2>12. ConnectionsInv(s)'
    <3> SUFFICES ASSUME child'[s] \in Alive PROVE ConnectionsInv(s)'
      BY DEF ConnectionsInv
    <3>1. \A x \in Connections : <<x, s>> \in accepted => Holds(x, s)
      BY <1>2, <2>6 DEF ProcessInv, ConnectionsInv
    <3>2. \A x \in Connections : Holds(x, s) => Holds(x, s)'
      BY <2>1, <2>3, <2>4, <2>5 DEF Holds, Waits, p
    <3>3. Holds(c, s)'
      BY <2>1, <2>3, <2>5 DEF Holds, Waits
    <3>4. \A x \in Connections : <<x, s>> \in accepted' => <<x, s>> \in accepted \/ x = c
      BY <1>2
    <3>5. \A x \in Connections : <<x, s>> \in accepted' => Holds(x, s)'
      BY <3>1, <3>2, <3>3, <3>4
    <3>6. QED
      BY <3>3, <3>5 DEF ConnectionsInv
  <2>13. QED
    BY <2>8, <2>9, <2>10, <2>11, <2>12 DEF ProcessInv
<1>6. QED
  BY <1>4, <1>5

\* A process that a launch for its key leaves as it is, or finds dead.
LEMMA ProcessKept ==
    ASSUME TypeOK, TypeOK', NEW k \in Keys, NEW s \in Processes, ProcessInv(s),
           processes'[s] = Kept(k)[s], child'[s] = Waited(k)[s],
           UNCHANGED <<leaving, bindVars, sweepFailed>>, nextSeq <= nextSeq',
           \A c \in Connections : <<c, s>> \in accepted' <=> <<c, s>> \in accepted
    PROVE  ProcessInv(s)'
<1>1. \/ processes'[s] = processes[s] /\ child'[s] = child[s]
      \/ processes'[s] = Absent /\ child'[s] = "reaped" /\ processes[s] # Absent
  BY KeptFacts
<1>2. CASE processes'[s] = Absent /\ child'[s] = "reaped" /\ processes[s] # Absent
  BY <1>2, ProcessForgotten DEF bindVars
<1>3. CASE processes'[s] = processes[s] /\ child'[s] = child[s]
  <2>1. nextBind <= nextBind' /\ Bound(s)' = Bound(s)
    BY BoundsAssumption DEF bindVars, TypeOK, Bound
  <2>2. Quiet(s)
    BY <1>3, <2>1 DEF Quiet, bindVars
  <2>3. QED
    BY <2>2, ProcessQuiet
<1>4. QED
  BY <1>1, <1>2, <1>3

\* The launch of a process.
LEMMA LaunchKeeps ==
    ASSUME TypeOK, TypeOK', \A r \in Processes : ProcessInv(r),
           NEW c \in Connections, NEW k \in Keys, Launch(c, k), sweepFailed' = sweepFailed
    PROVE  \A r \in Processes : ProcessInv(r)'
<1> DEFINE e == [key |-> k, attached |-> FALSE, ready |-> FALSE, pending |-> <<c>>]
<1>0. nextSeq \in Processes /\ nextSeq \in Nat
  BY BoundsAssumption DEF Launch, TypeOK, Processes
<1>1. PICK s \in Processes : s = nextSeq /\ s \in Nat
  BY <1>0
<1>2. /\ processes' = [Kept(k) EXCEPT ![s] = e] /\ child' = [Waited(k) EXCEPT ![s] = "booting"]
      /\ nextSeq' = s + 1 /\ accepted' = accepted \cup {<<c, s>>}
      /\ UNCHANGED <<leaving, bindings, nextBind, log>>
  BY <1>1 DEF Launch, bindVars
<1>3. /\ Kept(k) \in [Processes -> Entry \cup {Absent}] /\ DOMAIN Waited(k) = Processes
  BY KeptFacts
<1>4. e \in Entry /\ e # Absent /\ ~e.ready /\ e.pending = <<c>>
  <2>1. <<c>> \in Seq(Connections)
    OBVIOUS
  <2>2. e \in Entry
    BY <2>1 DEF Entry
  <2>3. QED
    BY <2>2, EntryAssumption
<1> HIDE DEF e
<1>5. ASSUME NEW r \in Processes, r # s
      PROVE  ProcessInv(r)'
  <2>1. processes'[r] = Kept(k)[r] /\ child'[r] = Waited(k)[r]
    BY <1>2, <1>3, <1>5
  <2>2. \A x \in Connections : <<x, r>> \in accepted' <=> <<x, r>> \in accepted
    BY <1>2, <1>5
  <2>3. nextSeq <= nextSeq'
    BY <1>1, <1>2
  <2>4. QED
    BY <1>2, <2>1, <2>2, <2>3, ProcessKept DEF bindVars
<1>6. ProcessInv(s)'
  <2>1. processes'[s] = e /\ child'[s] = "booting"
    BY <1>1, <1>2, <1>3
  <2>2. /\ s \notin leaving /\ log[s] = <<>> /\ Bound(s) = {}
        /\ \A x \in Connections : <<x, s>> \notin accepted
    <3>1. ProcessInv(s) /\ s >= nextSeq
      BY <1>1
    <3>2. QED
      BY <3>1 DEF ProcessInv, FreshInv
  <2>3. Bound(s)' = {}
    BY <1>2, <2>2 DEF Bound
  <2>4. FreshInv(s)'
    <3>1. ~(s >= s + 1)
      BY <1>1
    <3>2. QED
      BY <1>2, <3>1 DEF FreshInv
  <2>5. MapInv(s)'
    BY <1>2, <1>4, <2>1, <2>2, <2>3 DEF MapInv
  <2>6. BindingsInv(s)'
    BY <2>3 DEF BindingsInv
  <2>7. LogInv(s)'
    BY <1>2, <2>2 DEF LogInv, Life, Older
  <2>8. ConnectionsInv(s)'
    <3>1. Holds(c, s)'
      BY <1>4, <2>1 DEF Holds, Waits
    <3>2. \A x \in Connections : <<x, s>> \in accepted' => x = c
      BY <1>2, <2>2
    <3>3. QED
      BY <3>1, <3>2 DEF ConnectionsInv
  <2>9. QED
    BY <2>4, <2>5, <2>6, <2>7, <2>8 DEF ProcessInv
<1>7. QED
  BY <1>5, <1>6

\* bindService of a service with a process keeps the invariant of every process.
LEMMA ProcessesBindRemote ==
    ASSUME TypeOK, TypeOK', \A r \in Processes : ProcessInv(r),
           NEW c \in Connections, NEW k \in Keys, BindRemote(c, k)
    PROVE  \A r \in Processes : ProcessInv(r)'
<1>1. TokensLast /\ sweepFailed' = sweepFailed
  BY DEF BindRemote
<1>2. ASSUME NEW s \in Existing(k), BindReady(c, s) \/ BindPending(c, s)
      PROVE  \A r \in Processes : ProcessInv(r)'
  <2>1. s \in Launched
    BY DEF Existing
  <2>2. QED
    BY <1>1, <1>2, <2>1, BindReadyKeeps, BindPendingKeeps
<1>3. CASE LaunchFails(k)
  <2> SUFFICES ASSUME NEW r \in Processes PROVE ProcessInv(r)'
    OBVIOUS
  <2>1. /\ processes'[r] = Kept(k)[r] /\ child'[r] = Waited(k)[r]
        /\ UNCHANGED <<leaving, bindVars, accepted>>
    BY <1>3 DEF LaunchFails
  <2>2. nextSeq <= nextSeq'
    BY <1>3, BoundsAssumption DEF LaunchFails, TypeOK
  <2>3. QED
    BY <1>1, <2>1, <2>2, ProcessKept
<1>4. QED
  BY <1>1, <1>2, <1>3, LaunchKeeps DEF BindRemote

\* The steps of a process that tell it nothing.
LEMMA ProcessesQuietSteps ==
    ASSUME TypeOK, TypeOK', \A r \in Processes : ProcessInv(r), NEW s \in Processes,
           \/ AttachApplication(s) \/ BindApplication(s) \/ FinishAttachUnknown(s)
           \/ Die(s) \/ LauncherExits(s) \/ Reap(s)
    PROVE  \A r \in Processes : ProcessInv(r)'
<1>1. /\ UNCHANGED <<nextSeq, bindings, nextBind, log, accepted, sweepFailed>>
      /\ leaving' \subseteq leaving
      /\ \A r \in Processes \ {s} : processes'[r] = processes[r] /\ child'[r] = child[r]
      /\ \/ processes'[s] = processes[s]
         \/ /\ processes[s] # Absent
            /\ processes'[s] = [processes[s] EXCEPT !.attached = TRUE]
            /\ child[s] = "booting"
      /\ \/ child[s] = "booting" /\ child'[s] \in {"attaching", "up"}
         \/ child[s] = "attaching" /\ child'[s] = "bound"
         \/ child[s] = "bound" /\ child'[s] = "up" /\ processes[s] = Absent
         \/ child[s] \in Alive /\ child'[s] = "broken"
         \/ child[s] = "broken" /\ child'[s] = "exited"
         \/ s \in leaving /\ child'[s] = "reaped"
  <2> USE DEF TypeOK
  <2>1. CASE AttachApplication(s)
    BY <2>1 DEF AttachApplication, Launched, bindVars, history
  <2>2. CASE BindApplication(s)
    BY <2>2 DEF BindApplication, bindVars, history
  <2>3. CASE FinishAttachUnknown(s)
    BY <2>3 DEF FinishAttachUnknown, Launched, bindVars, history
  <2>4. CASE Die(s)
    BY <2>4 DEF Die, bindVars, history
  <2>5. CASE LauncherExits(s)
    BY <2>5 DEF LauncherExits, bindVars, history
  <2>6. CASE Reap(s)
    BY <2>6 DEF Reap, bindVars, history
  <2>7. QED
    BY <2>1, <2>2, <2>3, <2>4, <2>5, <2>6
<1>2. nextSeq <= nextSeq' /\ nextBind <= nextBind' /\ \A r : Bound(r)' = Bound(r)
  BY <1>1, BoundsAssumption DEF TypeOK, Bound
<1>3. ASSUME NEW r \in Processes, r # s
      PROVE  Quiet(r)
  BY <1>1, <1>2, <1>3 DEF Quiet
<1>4. Quiet(s)
  <2>1. ProcessInv(s)
    OBVIOUS
  <2>2. ~(s >= nextSeq)
    BY <1>1, <2>1 DEF ProcessInv, FreshInv, Alive
  <2>3. s \in leaving => processes[s] = Absent
    BY <2>1 DEF ProcessInv, MapInv
  <2>4. /\ child'[s] \in Alive => child[s] \in Alive
        /\ child[s] = "reaped" => child'[s] = "reaped"
        /\ processes[s] # Absent /\ child[s] # "reaped" =>
             /\ child'[s] # "reaped"
             /\ child[s] \in {"up", "broken", "exited"} => child'[s] \in {"up", "broken", "exited"}
    BY <1>1, <2>3 DEF Alive
  <2>5. \/ processes'[s] = processes[s]
        \/ /\ processes[s] # Absent /\ processes'[s] # Absent
           /\ processes'[s].ready = processes[s].ready
           /\ processes'[s].pending = processes[s].pending
    <3>1. CASE processes[s] # Absent /\ processes'[s] = [processes[s] EXCEPT !.attached = TRUE]
      <4>1. processes[s] \in Entry
        BY <3>1 DEF TypeOK
      <4>2. /\ [processes[s] EXCEPT !.attached = TRUE] \in Entry
            /\ [processes[s] EXCEPT !.attached = TRUE].ready = processes[s].ready
            /\ [processes[s] EXCEPT !.attached = TRUE].pending = processes[s].pending
        BY <4>1 DEF Entry
      <4>3. QED
        BY <3>1, <4>2, EntryAssumption
    <3>2. QED
      BY <1>1, <3>1
  <2>6. QED
    BY <1>1, <1>2, <2>2, <2>4, <2>5 DEF Quiet
<1>5. QED
  BY <1>3, <1>4, ProcessQuiet

\* The end of an attach: who waited is bound now.
LEMMA ProcessesFinishAttach ==
    ASSUME TypeOK, TypeOK', PromisesInv, \A r \in Processes : ProcessInv(r),
           NEW s \in Processes, FinishAttach(s)
    PROVE  \A r \in Processes : ProcessInv(r)'
<1>0. PICK p : p = processes[s].pending
  OBVIOUS
<1>1. PICK all : all = NewBindings(s, processes[s].pending)
  OBVIOUS
<1>2. /\ s \in Launched /\ child[s] = "bound"
      /\ \/ child' = [child EXCEPT ![s] = "broken"] /\ UNCHANGED <<processes, bindVars>>
         \/ \E n, m \in 0 .. Len(all) :
                   /\ m <= n
                   /\ processes' = [processes EXCEPT ![s].ready = TRUE, ![s].pending = <<>>]
                   /\ bindings' = bindings \o SubSeq(all, 1, n)
                   /\ log' = Told(s, Msg("create") \o Msgs("bind", SubSeq(all, 1, m)))
                   /\ nextBind' = nextBind + n
                   /\ \/ child' = [child EXCEPT ![s] = "up"] /\ n = Len(all) /\ m = Len(all)
                      \/ child' = [child EXCEPT ![s] = "broken"]
      /\ UNCHANGED <<leaving, nextSeq, localVars, publishing, history>>
  BY <1>1, FinishAttachFacts
<1>3. /\ s \in Tokens /\ processes[s] # Absent /\ processes[s] \in Entry /\ p \in Seq(Connections)
      /\ child \in [Processes -> Alive \cup {"none", "broken", "exited", "reaped"}]
      /\ processes \in [Processes -> Entry \cup {Absent}]
      /\ nextSeq \in Nat /\ nextBind \in Nat \ {0} /\ s \in Nat
  <2>1. s \in Tokens /\ processes[s] # Absent /\ processes[s] \in Entry /\ p \in Seq(Connections)
    BY <1>0, <1>2, EntryFacts DEF Tokens
  <2>2. s \in Nat /\ nextSeq \in Nat /\ nextBind \in Nat \ {0}
    BY BoundsAssumption DEF TypeOK, Processes
  <2>3. QED
    BY <2>1, <2>2 DEF TypeOK
<1>4. /\ ~(s >= nextSeq) /\ s \notin leaving /\ ~processes[s].ready
      /\ log[s] = <<>> /\ Bound(s) = {}
  <2>1. ProcessInv(s)
    OBVIOUS
  <2>2. ~(s >= nextSeq)
    BY <1>3, <2>1 DEF ProcessInv, FreshInv
  <2>3. QED
    BY <1>2, <1>3, <2>1, <2>2 DEF ProcessInv, MapInv
<1>5. CASE child' = [child EXCEPT ![s] = "broken"] /\ UNCHANGED <<processes, bindVars>>
  <2>1. /\ UNCHANGED <<processes, bindings, nextBind, log, leaving, nextSeq, accepted, sweepFailed>>
        /\ nextSeq <= nextSeq' /\ nextBind <= nextBind' /\ \A r : Bound(r)' = Bound(r)
    BY <1>2, <1>3, <1>5 DEF bindVars, history, Bound
  <2>2. \A r \in Processes : child'[r] = IF r = s THEN "broken" ELSE child[r]
    BY <1>3, <1>5
  <2>3. ASSUME NEW r \in Processes PROVE Quiet(r)
    <3>1. CASE r = s
      BY <1>2, <1>4, <2>1, <2>2, <3>1 DEF Quiet, Alive
    <3>2. CASE r # s
      BY <2>1, <2>2, <3>2 DEF Quiet
    <3>3. QED
      BY <3>1, <3>2
  <2>4. QED
    BY <2>3, ProcessQuiet
<1>6. /\ Len(all) \in Nat /\ Len(all) = Len(p)
      /\ \A i \in 1 .. Len(all) :
           /\ all[i].bind = nextBind + i - 1 /\ all[i].token = s /\ all[i].conn = p[i]
           /\ all[i] \in Binding
  <2>1. /\ all \in Seq(Binding) /\ Len(all) = Len(p) /\ Len(all) \in Nat
        /\ \A i \in 1 .. Len(all) :
             all[i] = [bind |-> nextBind + i - 1, token |-> s, conn |-> p[i]]
    BY <1>0, <1>1, <1>2, AttachFacts
  <2>2. \A i \in 1 .. Len(all) : all[i] \in Binding
    BY <2>1
  <2>3. \A i \in 1 .. Len(all) :
             /\ all[i].bind = nextBind + i - 1 /\ all[i].token = s /\ all[i].conn = p[i]
    <3> SUFFICES ASSUME NEW i \in 1 .. Len(all)
                 PROVE  /\ all[i].bind = nextBind + i - 1 /\ all[i].token = s
                        /\ all[i].conn = p[i]
      OBVIOUS
    <3>1. all[i] = [bind |-> nextBind + i - 1, token |-> s, conn |-> p[i]]
      BY <2>1
    <3>2. QED
      BY <3>1
  <2>4. QED
    BY <2>1, <2>2, <2>3
<1>7. \A k \in 0 .. Len(all) :
            /\ SubSeq(all, 1, k) \in Seq(Binding) /\ Len(SubSeq(all, 1, k)) = k
            /\ \A i \in 1 .. k : SubSeq(all, 1, k)[i] = all[i]
            /\ Msg("create") \o Msgs("bind", SubSeq(all, 1, k)) \in Seq(Message)
  BY <1>1, <1>2, AttachFacts
<1>8. ASSUME NEW n \in 0 .. Len(all), NEW m \in 0 .. Len(all), m <= n,
             processes' = [processes EXCEPT ![s].ready = TRUE, ![s].pending = <<>>],
             bindings' = bindings \o SubSeq(all, 1, n),
             log' = Told(s, Msg("create") \o Msgs("bind", SubSeq(all, 1, m))),
             nextBind' = nextBind + n,
             \/ child' = [child EXCEPT ![s] = "up"] /\ n = Len(all) /\ m = Len(all)
             \/ child' = [child EXCEPT ![s] = "broken"]
      PROVE  \A r \in Processes : ProcessInv(r)'
  <2> DEFINE new  == SubSeq(all, 1, n)
             sent == SubSeq(all, 1, m)
             h    == Msg("create") \o Msgs("bind", sent)
  <2>1. /\ Len(all) \in Nat /\ Len(all) = Len(p)
        /\ \A i \in 1 .. Len(all) :
             /\ all[i].bind = nextBind + i - 1 /\ all[i].token = s /\ all[i].conn = p[i]
             /\ all[i] \in Binding
        /\ new \in Seq(Binding) /\ Len(new) = n /\ \A i \in 1 .. n : new[i] = all[i]
        /\ sent \in Seq(Binding) /\ Len(sent) = m /\ \A i \in 1 .. m : sent[i] = all[i]
        /\ h \in Seq(Message)
    <3>1. /\ new \in Seq(Binding) /\ Len(new) = n /\ \A i \in 1 .. n : new[i] = all[i]
      BY <1>7
    <3>2. /\ sent \in Seq(Binding) /\ Len(sent) = m /\ \A i \in 1 .. m : sent[i] = all[i]
          /\ h \in Seq(Message)
      BY <1>7
    <3> HIDE DEF new, sent, h
    <3>3. QED
      BY <1>6, <3>1, <3>2
  <2>2. n \in Nat /\ m \in Nat /\ n <= Len(all) /\ m <= n
    BY <1>8, <2>1
  <2> HIDE DEF new, sent
  <2>3. /\ Life(h) /\ Silent(h) /\ Older(h, nextBind + m) /\ h # <<>> /\ h[1].kind = "create"
        /\ \A i \in 1 .. m : \E j \in DOMAIN h : h[j] = BindOf(sent[i])
    <3>1. \A i \in 1 .. Len(sent) : sent[i].bind = nextBind + i - 1
      <4>1. \A i \in 1 .. m : i \in 1 .. Len(all)
        BY <2>1, <2>2
      <4>2. QED
        BY <2>1, <4>1
    <3>2. LET g == Msg("create") \o Msgs("bind", sent) IN
          /\ g \in Seq(Message) /\ Life(g) /\ Silent(g) /\ Older(g, nextBind + Len(sent))
          /\ g # <<>> /\ g[1].kind = "create"
          /\ \A i \in 1 .. Len(sent) : \E j \in DOMAIN g : g[j] = BindOf(sent[i])
      BY <1>3, <2>1, <3>1, LifeNew
    <3>3. QED
      BY <2>1, <3>2
  <2> HIDE DEF h
  <2>4. log'[s] = h /\ \A r \in Processes \ {s} : log'[r] = log[r]
    <3>1. log' = Told(s, h) /\ log \in [Tokens -> Seq(Message)]
      BY <1>8 DEF h, sent, TypeOK
    <3>2. /\ Told(s, h)[s] = log[s] \o h
          /\ \A t \in Tokens \ {s} : Told(s, h)[t] = log[t]
      BY <1>3, <2>1, <3>1, ToldFacts
    <3>3. <<>> \o h = h
      BY <2>1
    <3>4. QED
      BY <1>4, <3>1, <3>2, <3>3 DEF Tokens
  <2>5. \A r, b : b \in Bound(r)' <=>
                    b \in Bound(r) \/ (b.token = r /\ \E i \in 1 .. n : b = all[i])
    <3>1. DOMAIN new = 1 .. n /\ bindings' = bindings \o new
      BY <1>8, <2>1 DEF new
    <3>2. \A r, b : b \in Bound(r)' <=>
             b \in Bound(r) \/ (b.token = r /\ \E i \in DOMAIN new : new[i] = b)
      BY <2>1, <3>1, BoundGrows
    <3>3. \A b : (\E i \in DOMAIN new : new[i] = b) <=> (\E i \in 1 .. n : b = all[i])
      BY <2>1, <3>1
    <3>4. QED
      BY <3>2, <3>3
  <2>6. \A i \in 1 .. n : i \in 1 .. Len(all)
    BY <2>1, <2>2
  <2>7. UNCHANGED <<leaving, nextSeq, accepted, sweepFailed>>
    BY <1>2 DEF history
  <2>8. nextBind <= nextBind' /\ nextSeq <= nextSeq' /\ nextBind' = nextBind + n
    BY <1>3, <1>8, <2>2, <2>7
  <2>9. ASSUME NEW r \in Processes, r # s
        PROVE  ProcessInv(r)'
    <3>1. processes'[r] = processes[r] /\ child'[r] = child[r] /\ log'[r] = log[r]
      <4>1. processes'[r] = processes[r] /\ child'[r] = child[r]
        BY <1>3, <1>8, <2>9
      <4>2. QED
        BY <2>4, <2>9, <4>1
    <3>2. \A b : b \in Bound(r)' <=> b \in Bound(r)
      <4>1. \A i \in 1 .. n : all[i].token # r
        BY <2>1, <2>6, <2>9
      <4>2. QED
        BY <2>5, <4>1
    <3>3. Quiet(r)
      BY <2>7, <2>8, <3>1, <3>2 DEF Quiet
    <3>4. QED
      BY <3>3, ProcessQuiet
  <2>10. ProcessInv(s)'
    <3> DEFINE e == [processes[s] EXCEPT !.ready = TRUE, !.pending = <<>>]
    <3>1. e \in Entry /\ e # Absent /\ e.ready /\ e.pending = <<>> /\ processes'[s] = e
      <4>1. <<>> \in Seq(Connections)
        OBVIOUS
      <4>2. e \in Entry /\ e.ready /\ e.pending = <<>>
        BY <1>3, <4>1 DEF Entry
      <4>3. QED
        BY <1>3, <1>8, <4>2, EntryAssumption
    <3> HIDE DEF e
    <3>2. child'[s] \in {"up", "broken"} /\ (child'[s] \in Alive => n = Len(all) /\ m = Len(all))
      BY <1>3, <1>8 DEF Alive
    <3>3. FreshInv(s)'
      BY <1>4, <2>7 DEF FreshInv
    <3>4. MapInv(s)'
      BY <1>4, <2>3, <2>4, <2>7, <3>1, <3>2 DEF MapInv
    <3>5. BindingsInv(s)'
      <4> SUFFICES ASSUME NEW b \in Bound(s)'
                   PROVE  /\ (processes'[s] # Absent /\ processes'[s].ready) \/ child'[s] = "reaped"
                          /\ child'[s] \in Alive => \E i \in DOMAIN log'[s] : log'[s][i] = BindOf(b)
        BY DEF BindingsInv, BindOf
      <4>1. PICK i \in 1 .. n : b = all[i]
        BY <1>4, <2>5
      <4>2. child'[s] \in Alive => i \in 1 .. m /\ sent[i] = b
        BY <2>1, <3>2, <4>1
      <4>3. QED
        BY <2>3, <2>4, <3>1, <4>2
    <3>6. LogInv(s)'
      <4>1. h \in Seq(Message) /\ \A i \in DOMAIN h : h[i].bind \in Nat
        <5>1. \A i \in DOMAIN h : h[i] \in Message
          BY <2>1
        <5>2. \A x \in Message : x.bind \in Nat
          BY BoundsAssumption DEF Message, Binds
        <5>3. QED
          BY <2>1, <5>1, <5>2
      <4>2. \A x \in Nat : x < nextBind + m => x < nextBind + n
        BY <1>3, <2>2
      <4>3. Older(h, nextBind + n)
        BY <2>3, <4>1, <4>2 DEF Older
      <4>4. QED
        BY <2>3, <2>4, <2>8, <4>3 DEF LogInv
    <3>7. ConnectionsInv(s)'
      <4> SUFFICES ASSUME child'[s] \in Alive PROVE ConnectionsInv(s)'
        BY DEF ConnectionsInv
      <4>1. n = Len(all) /\ DOMAIN p = 1 .. n /\ \A i \in 1 .. n : p[i] \in Connections
        <5>1. DOMAIN p = 1 .. Len(p) /\ \A i \in 1 .. Len(p) : p[i] \in Connections
          BY <1>3
        <5>2. QED
          BY <2>1, <3>2, <5>1
      <4>2. \A x \in Connections : Holds(x, s) => \E i \in 1 .. n : p[i] = x
        BY <1>0, <1>4, <4>1 DEF Holds, Waits
      <4>3. \A i \in 1 .. n : Holds(p[i], s)'
        <5> SUFFICES ASSUME NEW i \in 1 .. n PROVE \E b \in Bound(s)' : b.conn = p[i]
          BY <3>1 DEF Holds
        <5>1. all[i].conn = p[i] /\ all[i].token = s
          BY <2>1, <2>6
        <5>2. QED
          BY <2>5, <5>1
      <4>4. /\ \A x \in Connections : <<x, s>> \in accepted => Holds(x, s)
            /\ (\A x \in Connections : ~Holds(x, s)) => sweepFailed
        <5>1. ProcessInv(s) /\ child[s] \in Alive
          BY <1>2 DEF Alive
        <5>2. QED
          BY <1>3, <5>1 DEF ProcessInv, ConnectionsInv
      <4>5. \A x \in Connections : Holds(x, s) => Holds(x, s)'
        BY <4>2, <4>3
      <4>6. QED
        BY <2>7, <4>4, <4>5 DEF ConnectionsInv
    <3>8. QED
      BY <3>3, <3>4, <3>5, <3>6, <3>7 DEF ProcessInv
  <2>11. QED
    BY <2>9, <2>10
<1>9. QED
  BY <1>2, <1>5, <1>8

\* The steps of a service process keep the invariant of every process.
LEMMA ProcessesProcess ==
    ASSUME TypeOK, TypeOK', PromisesInv, \A r \in Processes : ProcessInv(r),
           NEW s \in Processes, ProcessStep(s)
    PROVE  \A r \in Processes : ProcessInv(r)'
BY ProcessesQuietSteps, ProcessesFinishAttach DEF ProcessStep

\* unbindService keeps the invariant of every process.
LEMMA ProcessesUnbind ==
    ASSUME TypeOK, TypeOK', \A r \in Processes : ProcessInv(r), NEW c \in Connections, Unbind(c)
    PROVE  \A r \in Processes : ProcessInv(r)'
<1> SUFFICES ASSUME NEW s \in Processes PROVE ProcessInv(s)'
  OBVIOUS
<1>1. PICK removed, remaining, ended, withdrawn :
        /\ removed = Removed(c) /\ remaining = Remaining(c)
        /\ ended = Ended(c) /\ withdrawn = Withdrawn(c)
  OBVIOUS
<1>2. /\ bindings' = remaining /\ log' = Unbound(removed, ended)
      /\ processes'[s] = IF s \in ended THEN Absent ELSE withdrawn[s]
      /\ leaving' = leaving \cup ended
      /\ accepted' = {a \in accepted : a[1] # c}
      /\ sweepFailed' = Fails(c)
      /\ UNCHANGED <<child, nextSeq, nextBind>>
  BY <1>1, UnbindFacts
<1>3. /\ removed \in Seq(Binding) /\ remaining \in Seq(Binding)
      /\ \A i \in DOMAIN removed : \E j \in DOMAIN bindings : bindings[j] = removed[i]
      /\ \A i \in DOMAIN remaining : \E j \in DOMAIN bindings : bindings[j] = remaining[i]
      /\ \A j \in DOMAIN bindings : bindings[j].conn # c =>
           \E i \in DOMAIN remaining : remaining[i] = bindings[j]
  BY <1>1, PartedFacts
<1>4. /\ withdrawn[s] # Absent <=> processes[s] # Absent
      /\ processes[s] # Absent =>
           /\ withdrawn[s].ready = processes[s].ready
           /\ withdrawn[s].pending \in Seq(Connections)
           /\ \A i \in DOMAIN processes[s].pending : processes[s].pending[i] # c =>
                \E j \in DOMAIN withdrawn[s].pending :
                    withdrawn[s].pending[j] = processes[s].pending[i]
  <2>1. processes[s] # Absent => withdrawn[s] \in Entry
    BY <1>1, WithdrawnFacts
  <2>2. processes[s] # Absent => withdrawn[s].pending \in Seq(Connections)
    BY <2>1 DEF Entry
  <2>3. QED
    BY <1>1, <2>2, WithdrawnFacts
<1>5. s \in ended <=>
        /\ ~Fails(c) /\ withdrawn[s] # Absent /\ withdrawn[s].pending = <<>>
        /\ \A i \in DOMAIN remaining : remaining[i].token # s
  BY <1>1 DEF Ended, Finished
<1>6. /\ s \in Tokens /\ s \in Nat /\ nextSeq \in Nat /\ nextBind \in Nat \ {0}
      /\ Fails(c) \in BOOLEAN /\ log[s] \in Seq(Message)
  BY SMTT(30), UnbindFacts, BoundsAssumption, LogFacts DEF Tokens, Processes, TypeOK
<1>7. FreshInv(s) /\ MapInv(s) /\ BindingsInv(s) /\ LogInv(s) /\ ConnectionsInv(s)
  BY DEF ProcessInv
<1>8. \A i \in DOMAIN removed : removed[i] \in Binding
  BY <1>3
<1>9. \A i \in DOMAIN remaining : remaining[i] \in Binding
  BY <1>3
<1>10. /\ \A i \in DOMAIN removed : removed[i].token = s => removed[i] \in Bound(s)
       /\ \A b : b \in Bound(s)' <=>
             b \in Binding /\ b.token = s /\ \E i \in DOMAIN remaining : remaining[i] = b
       /\ \A b \in Bound(s)' : b \in Bound(s)
       /\ \A b \in Bound(s) : b.conn # c => b \in Bound(s)'
  <2>1. \A i \in DOMAIN removed : removed[i].token = s => removed[i] \in Bound(s)
    BY <1>3, <1>8 DEF Bound
  <2>2. \A b : b \in Bound(s)' <=>
             b \in Binding /\ b.token = s /\ \E i \in DOMAIN remaining : remaining[i] = b
    BY <1>2 DEF Bound
  <2>3. \A b : b \in Bound(s) <=>
             b \in Binding /\ b.token = s /\ \E i \in DOMAIN bindings : bindings[i] = b
    BY DEF Bound
  <2>4. \A b \in Bound(s)' : b \in Bound(s)
    BY <1>3, <2>2, <2>3
  <2>5. \A b \in Bound(s) : b.conn # c => b \in Bound(s)'
    BY <1>3, <2>2, <2>3
  <2>6. QED
    BY <2>1, <2>2, <2>4, <2>5
<1>11. PICK u \in Seq(Message) :
         /\ \A i \in DOMAIN u :
              /\ u[i].kind = "unbind"
              /\ \E j \in DOMAIN removed :
                   /\ removed[j].token = s /\ Reachable(removed[j])
                   /\ u[i].bind = removed[j].bind
         /\ \/ log'[s] = log[s] \o u
            \/ s \in ended /\ log'[s] = (log[s] \o u) \o Msg("stop")
  <2>1. \A t \in Tokens : TellsUnbound(t, Unbound(removed, ended)[t], removed, ended)
    BY <1>3, UnboundFacts
  <2>2. TellsUnbound(s, log'[s], removed, ended)
    BY <1>2, <1>6, <2>1
  <2>3. QED
    BY <2>2 DEF TellsUnbound
<1>12. /\ \A i \in DOMAIN u : \E b \in Bound(s) :
              child[s] \in Alive /\ u[i].bind = b.bind
       /\ \A i \in DOMAIN u : u[i].kind = "unbind"
  BY <1>10, <1>11 DEF Reachable
<1>13. Bound(s) = {} \/ child[s] \notin Alive => u = <<>>
  <2>1. ASSUME Bound(s) = {} \/ child[s] \notin Alive PROVE \A i \in DOMAIN u : FALSE
    BY <1>12, <2>1
  <2>2. QED
    BY <2>1, EmptyIfNoElement
<1>14. processes[s] # Absent => Silent(log[s])
  BY <1>7 DEF MapInv, Silent
<1>15. u # <<>> => Silent(log[s])
  <2> SUFFICES ASSUME u # <<>> PROVE Silent(log[s])
    OBVIOUS
  <2>1. PICK b \in Bound(s) : child[s] \in Alive
    BY <1>13
  <2>2. processes[s] # Absent
    BY <1>7, <2>1 DEF BindingsInv, Alive
  <2>3. QED
    BY <1>14, <2>2
<1> DEFINE l == log[s]
<1>16. \A i \in DOMAIN u : /\ u[i].kind = "unbind"
                           /\ \E j \in DOMAIN l : l[j] = [kind |-> "bind", bind |-> u[i].bind]
  <2> SUFFICES ASSUME NEW i \in DOMAIN u
               PROVE  \E j \in DOMAIN l : l[j] = [kind |-> "bind", bind |-> u[i].bind]
    BY <1>12
  <2>1. PICK b \in Bound(s) : child[s] \in Alive /\ u[i].bind = b.bind
    BY <1>12
  <2>2. \E j \in DOMAIN l : l[j] = BindOf(b)
    BY <1>7, <2>1 DEF BindingsInv
  <2>3. QED
    BY <2>1, <2>2 DEF BindOf
<1>17. /\ l \o u \in Seq(Message) /\ Life(l \o u) /\ Older(l \o u, nextBind)
       /\ Silent(l) => Silent(l \o u)
       /\ l # <<>> => l \o u # <<>> /\ (l \o u)[1] = l[1]
       /\ \A i \in DOMAIN l : i \in DOMAIN (l \o u) /\ (l \o u)[i] = l[i]
  <2>1. Life(l) /\ Older(l, nextBind)
    BY <1>7 DEF LogInv
  <2> HIDE DEF l
  <2>2. l \in Seq(Message) /\ (u # <<>> => Silent(l))
    BY <1>6, <1>15 DEF l
  <2>3. QED
    BY <1>6, <1>16, <2>1, <2>2, LifeUnbinds
<1>18. Bound(s) = {} \/ child[s] \notin Alive => l \o u = l
  BY <1>6, <1>13
<1>19. s \notin ended => log'[s] = l \o u
  BY <1>11
<1>20. s \in ended => Bound(s)' = {}
  BY <1>5, <1>10
<1> HIDE DEF l
<1>21. FreshInv(s)'
  <2> SUFFICES ASSUME s >= nextSeq PROVE FreshInv(s)'
    BY <1>2 DEF FreshInv
  <2>1. /\ processes[s] = Absent /\ child[s] = "none" /\ s \notin leaving
        /\ l = <<>> /\ Bound(s) = {} /\ \A x \in Connections : <<x, s>> \notin accepted
    BY <1>7 DEF FreshInv, l
  <2>2. withdrawn[s] = Absent /\ s \notin ended
    BY <1>4, <1>5, <2>1
  <2>3. Bound(s)' = {}
    BY <1>10, <2>1
  <2>4. QED
    BY <1>2, <1>18, <1>19, <2>1, <2>2, <2>3 DEF FreshInv
<1>22. MapInv(s)'
  <2> SUFFICES ASSUME processes'[s] # Absent PROVE MapInv(s)'
    BY DEF MapInv
  <2>1. /\ s \notin ended /\ processes'[s] = withdrawn[s] /\ processes[s] # Absent
        /\ processes'[s].ready = processes[s].ready
    BY <1>2, <1>4
  <2>2. s \notin leaving' /\ child'[s] # "reaped"
    BY <1>2, <1>7, <2>1 DEF MapInv
  <2>3. ~processes'[s].ready => log'[s] = <<>> /\ Bound(s)' = {}
    <3>1. ~processes[s].ready => l = <<>> /\ Bound(s) = {}
      BY <1>7, <2>1 DEF MapInv, l
    <3>2. QED
      BY <1>10, <1>18, <1>19, <2>1, <3>1
  <2>4. processes'[s].ready =>
              /\ child'[s] \in {"up", "broken", "exited"}
              /\ log'[s] # <<>> /\ log'[s][1].kind = "create"
              /\ Silent(log'[s])
    <3>1. processes[s].ready =>
              /\ child[s] \in {"up", "broken", "exited"}
              /\ l # <<>> /\ l[1].kind = "create" /\ Silent(l)
      BY <1>7, <2>1 DEF MapInv, l
    <3>2. QED
      BY <1>2, <1>17, <1>19, <2>1, <3>1
  <2>5. QED
    BY <2>2, <2>3, <2>4 DEF MapInv
<1>23. BindingsInv(s)'
  <2> SUFFICES ASSUME NEW b \in Bound(s)'
               PROVE  /\ (processes'[s] # Absent /\ processes'[s].ready) \/ child'[s] = "reaped"
                      /\ child'[s] \in Alive => \E i \in DOMAIN log'[s] : log'[s][i] = BindOf(b)
    BY DEF BindingsInv, BindOf
  <2>1. b \in Bound(s) /\ s \notin ended
    BY <1>10, <1>20
  <2>2. /\ (processes[s] # Absent /\ processes[s].ready) \/ child[s] = "reaped"
        /\ child[s] \in Alive => \E i \in DOMAIN l : l[i] = BindOf(b)
    BY <1>7, <2>1 DEF BindingsInv, l
  <2>3. QED
    BY <1>2, <1>4, <1>17, <1>19, <2>1, <2>2
<1>24. LogInv(s)'
  <2>1. CASE log'[s] = l \o u
    BY <1>2, <1>17, <2>1 DEF LogInv
  <2>2. CASE s \in ended /\ log'[s] = (l \o u) \o Msg("stop")
    <3>1. Silent(l)
      BY <1>4, <1>5, <1>14, <2>2 DEF l
    <3>2. PICK h : h = l \o u
      OBVIOUS
    <3>3. h \in Seq(Message) /\ Life(h) /\ Silent(h) /\ Older(h, nextBind)
      BY <1>17, <3>1, <3>2
    <3>4. Life(h \o Msg("stop")) /\ Older(h \o Msg("stop"), nextBind)
      BY <1>6, <3>3, LifeStop
    <3>5. QED
      BY <1>2, <2>2, <3>2, <3>4 DEF LogInv
  <2>3. QED
    BY <1>11, <2>1, <2>2 DEF l
<1>25. ConnectionsInv(s)'
  <2> SUFFICES ASSUME child[s] \in Alive PROVE ConnectionsInv(s)'
    BY <1>2 DEF ConnectionsInv
  <2>1. \A x \in Connections : <<x, s>> \in accepted => Holds(x, s)
    BY <1>7 DEF ConnectionsInv
  <2>2. ASSUME NEW x \in Connections, Holds(x, s), x # c
        PROVE  Holds(x, s)'
    <3>1. processes[s] # Absent /\ withdrawn[s] # Absent
      BY <1>4, <2>2 DEF Holds
    <3>2. CASE \E b \in Bound(s) : b.conn = x
      <4>1. PICK b \in Bound(s)' : b.conn = x
        BY <1>10, <2>2, <3>2
      <4>2. s \notin ended
        BY <1>20
      <4>3. QED
        BY <1>2, <3>1, <4>1, <4>2 DEF Holds
    <3>3. CASE Waits(x, s)
      <4>1. PICK j \in DOMAIN withdrawn[s].pending : withdrawn[s].pending[j] = x
        BY <1>4, <2>2, <3>1, <3>3 DEF Waits
      <4>2. s \notin ended
        BY <1>5, <4>1
      <4>3. QED
        BY <1>2, <3>1, <4>1, <4>2 DEF Holds, Waits
    <3>4. QED
      BY <2>2, <3>2, <3>3 DEF Holds
  <2>3. \A x \in Connections : <<x, s>> \in accepted' => <<x, s>> \in accepted /\ x # c
    BY <1>2
  <2>4. ASSUME processes'[s] # Absent, \A x \in Connections : ~Holds(x, s)'
        PROVE  sweepFailed'
    <3>1. s \notin ended /\ withdrawn[s] # Absent /\ processes[s] # Absent
      BY <1>2, <1>4, <2>4
    <3>2. \A i \in DOMAIN withdrawn[s].pending : FALSE
      <4> SUFFICES ASSUME NEW i \in DOMAIN withdrawn[s].pending PROVE FALSE
        OBVIOUS
      <4>1. withdrawn[s].pending[i] \in Connections
        BY <1>4, <3>1
      <4>2. Holds(withdrawn[s].pending[i], s)'
        BY <1>2, <2>4, <3>1 DEF Holds, Waits
      <4>3. QED
        BY <2>4, <4>1, <4>2
    <3>3. withdrawn[s].pending = <<>>
      BY <1>4, <3>1, <3>2, EmptyIfNoElement
    <3>4. \A i \in DOMAIN remaining : remaining[i].token # s
      <4> SUFFICES ASSUME NEW i \in DOMAIN remaining, remaining[i].token = s PROVE FALSE
        OBVIOUS
      <4>1. remaining[i] \in Bound(s)' /\ remaining[i].conn \in Connections
        BY <1>9, <1>10 DEF Binding
      <4>2. Holds(remaining[i].conn, s)'
        BY <2>4, <4>1 DEF Holds
      <4>3. QED
        BY <2>4, <4>1, <4>2
    <3>5. QED
      BY <1>2, <1>5, <3>1, <3>3, <3>4
  <2>5. QED
    BY <2>1, <2>2, <2>3, <2>4 DEF ConnectionsInv
<1>26. QED
  BY <1>21, <1>22, <1>23, <1>24, <1>25 DEF ProcessInv

\* The services of the app are not processes.
LEMMA LocalsApart ==
    /\ Locals \cap Processes = {} /\ Locals \subseteq Tokens /\ Processes \subseteq Tokens
    /\ Absent \notin Locals /\ \A token \in Locals : token \in Nat
BY BoundsAssumption DEF Locals, Processes, Tokens

\* What a service hears when one is told messages of one kind.
LEMMA HeardTold ==
    ASSUME TypeOK, NEW token \in Tokens, NEW msgs \in Seq(Message), NEW kind,
           \A i \in DOMAIN msgs : msgs[i].kind = kind, log' = Told(token, msgs)
    PROVE  /\ \A t \in Tokens \ {token} : log'[t] = log[t]
           /\ \A t \in Tokens : \A k \in Heard(t)' : k \in Heard(t) \/ (t = token /\ k = kind)
<1>1. log \in [Tokens -> Seq(Message)]
  BY DEF TypeOK
<1>2. /\ Told(token, msgs)[token] = log[token] \o msgs
      /\ \A t \in Tokens \ {token} : Told(token, msgs)[t] = log[t]
  BY <1>1, ToldFacts
<1>3. \A t \in Tokens \ {token} : log'[t] = log[t]
  BY <1>2
<1>4. \A k \in Heard(token)' : k \in Heard(token) \/ k = kind
  <2> DEFINE l == log[token]
  <2>1. log'[token] = l \o msgs /\ l \in Seq(Message)
    BY <1>1, <1>2
  <2>2. \A i \in DOMAIN (l \o msgs) :
          /\ i \in DOMAIN l \/ i - Len(l) \in DOMAIN msgs
          /\ (l \o msgs)[i] = IF i \in DOMAIN l THEN l[i] ELSE msgs[i - Len(l)]
    BY <2>1, ConcatFacts
  <2>3. \A i \in DOMAIN (l \o msgs) :
          (l \o msgs)[i].kind = kind \/ (i \in DOMAIN l /\ (l \o msgs)[i] = l[i])
    BY <2>2
  <2>4. QED
    BY <2>1, <2>3 DEF Heard
<1>5. QED
  BY SMTT(30), <1>3, <1>4 DEF Heard

\* A step of the app's threads tells service processes nothing.
LEMMA ProcessesClient ==
    ASSUME TypeOK, TypeOK', PromisesInv, \A r \in Processes : ProcessInv(r), LocalInv,
           NEW t \in Clients, ClientStep(t)
    PROVE  \A r \in Processes : ProcessInv(r)'
<1> SUFFICES ASSUME NEW s \in Processes PROVE Quiet(s)
  BY ProcessQuiet
<1>1. /\ UNCHANGED <<processes, child, leaving, nextSeq, sweepFailed>> /\ nextSeq <= nextSeq'
  <2>1. UNCHANGED <<processes, child, leaving, nextSeq, sweepFailed>>
    BY DEF ClientStep, EnsureService, SendCreate, SendArgs, RecordBinding, SendBind,
           StopCheck, StopService, remoteVars, history
  <2>2. QED
    BY <2>1, BoundsAssumption DEF TypeOK
<1>2. nextBind \in Nat
  BY BoundsAssumption DEF TypeOK
<1>3. ASSUME UNCHANGED <<bindings, nextBind>>, log'[s] = log[s],
             \A c \in Connections : <<c, s>> \in accepted' <=> <<c, s>> \in accepted
      PROVE  Quiet(s)
  <2>1. Bound(s)' = Bound(s) /\ nextBind <= nextBind'
    BY <1>2, <1>3 DEF Bound
  <2>2. QED
    BY <1>1, <1>3, <2>1 DEF Quiet
<1>4. ASSUME NEW token \in Locals, NEW msgs \in Seq(Message), log' = Told(token, msgs)
      PROVE  log'[s] = log[s]
  <2>1. token \in Tokens /\ s \in Tokens \ {token}
    BY LocalsApart
  <2>2. log \in [Tokens -> Seq(Message)]
    BY DEF TypeOK
  <2>3. QED
    BY <1>4, <2>1, <2>2, ToldFacts
<1>5. CASE \/ \E c \in Classes, conn \in Connections \cup {Absent} : EnsureService(t, c, conn)
           \/ \E token \in Locals : StopCheck(t, token)
  BY <1>3, <1>5 DEF EnsureService, StopCheck, bindVars, history
<1>6. CASE SendCreate(t) \/ SendArgs(t) \/ StopService(t)
  <2>1. call[t].token \in Locals
    BY <1>6, CallFacts DEF SendCreate, SendArgs, StopService
  <2>2. \E msgs \in Seq(Message) : log' = Told(call[t].token, msgs)
    BY <1>6, MsgFacts DEF SendCreate, SendArgs, StopService
  <2>3. log'[s] = log[s]
    BY <1>4, <2>1, <2>2
  <2>4. QED
    BY <1>3, <1>6, <2>3 DEF SendCreate, SendArgs, StopService, history
<1>7. CASE RecordBinding(t)
  <2>1. PICK token \in Locals, c \in Connections : token = call[t].token /\ c = call[t].conn
    BY <1>7, CallFacts DEF RecordBinding
  <2>2. /\ bindings' = bindings \o NewBindings(token, <<c>>) /\ nextBind' = nextBind + 1
        /\ UNCHANGED <<log, accepted>>
    BY <1>7, <2>1 DEF RecordBinding, history
  <2>3. t \in Coming
    BY <1>7 DEF RecordBinding, Coming
  <2>4. nextBind <= MaxBinds
    BY <2>3, ComersToken
  <2> DEFINE new == NewBindings(token, <<c>>)
  <2>5. /\ new \in Seq(Binding) /\ Len(new) = 1
        /\ new[1] = [bind |-> nextBind, token |-> token, conn |-> c]
    BY <2>4, OneBinding, LocalsApart
  <2> HIDE DEF new
  <2>6. \A i \in DOMAIN new : new[i].token = token
    <3>1. \A i \in DOMAIN new : i = 1
      BY <2>5
    <3>2. QED
      BY <2>5, <3>1
  <2>7. \A b : b \in Bound(s)' <=>
          b \in Bound(s) \/ (b.token = s /\ \E i \in DOMAIN new : new[i] = b)
    <3>1. bindings' = bindings \o new
      BY <2>2 DEF new
    <3>2. QED
      BY <2>5, <3>1, BoundGrows
  <2>8. token # s
    BY LocalsApart
  <2>9. \A b : b \in Bound(s)' <=> b \in Bound(s)
    BY <2>6, <2>7, <2>8
  <2>10. QED
    BY <1>1, <1>2, <2>2, <2>9 DEF Quiet
<1>8. CASE SendBind(t)
  <2>1. PICK b \in Binding : b = call[t].binding /\ b.token \in Locals
    BY <1>8, CallFacts DEF SendBind, LocalInv
  <2>2. /\ log' = Told(b.token, Msgs("bind", <<b>>))
        /\ accepted' = accepted \cup {<<b.conn, b.token>>}
        /\ UNCHANGED <<bindings, nextBind>>
    BY <1>8, <2>1 DEF SendBind
  <2>3. Msgs("bind", <<b>>) \in Seq(Message)
    <3>1. <<b>> \in Seq(Binding)
      OBVIOUS
    <3>2. QED
      BY <3>1, MsgsFacts
  <2>4. log'[s] = log[s]
    BY <1>4, <2>1, <2>2, <2>3
  <2>5. \A c \in Connections : <<c, s>> \in accepted' <=> <<c, s>> \in accepted
    BY <2>1, <2>2, LocalsApart
  <2>6. QED
    BY <1>3, <2>2, <2>4, <2>5
<1>9. QED
  BY <1>5, <1>6, <1>7, <1>8 DEF ClientStep

\* Every step keeps the invariant of every process.
LEMMA ProcessesStep ==
    ASSUME IInv, TypeOK', [Next]_vars
    PROVE  \A r \in Processes : ProcessInv(r)'
<1>1. TypeOK /\ PromisesInv /\ LocalInv /\ \A r \in Processes : ProcessInv(r)
  BY DEF IInv
<1>2. ASSUME UNCHANGED <<remoteVars, bindVars, accepted, sweepFailed>>
      PROVE  \A r \in Processes : ProcessInv(r)'
  <2> SUFFICES ASSUME NEW r \in Processes PROVE Quiet(r)
    BY <1>1, ProcessQuiet
  <2>1. nextSeq <= nextSeq' /\ nextBind <= nextBind' /\ Bound(r)' = Bound(r)
    BY <1>1, <1>2, BoundsAssumption DEF TypeOK, remoteVars, bindVars, Bound
  <2>2. QED
    BY <1>2, <2>1 DEF Quiet, remoteVars, bindVars
<1>3. CASE UNCHANGED vars
  BY <1>2, <1>3 DEF vars, history
<1>4. ASSUME \/ \E b \in Binds : Publish(b)
             \/ \E b \in publishing : SendConnected(b)
      PROVE  \A r \in Processes : ProcessInv(r)'
  BY <1>2, <1>4 DEF Publish, SendConnected, history
<1>5. QED
  BY <1>1, <1>3, <1>4, ProcessesBindRemote, ProcessesUnbind, ProcessesClient, ProcessesProcess
     DEF Next

-----------------------------------------------------------------------------
(***************************************************************************)
(* One process for a key, and the services of the app.                     *)
(***************************************************************************)

\* Processes that stay in the map with their key stay the only ones.
LEMMA KeysKept ==
    ASSUME KeysInv,
           \A s \in Launched' : s \in Launched /\ processes'[s].key = processes[s].key
    PROVE  KeysInv'
BY DEF KeysInv

\* A process is launched for a key only when no other of its processes lives.
LEMMA KeysBindRemote ==
    ASSUME TypeOK, KeysInv, NEW c \in Connections, NEW k \in Keys, BindRemote(c, k)
    PROVE  KeysInv'
<1>1. ASSUME NEW s \in Existing(k), BindReady(c, s) \/ BindPending(c, s)
      PROVE  KeysInv'
  <2>1. s \in Launched
    BY DEF Existing
  <2>2. CASE BindReady(c, s)
    BY <2>2, KeysKept DEF BindReady, remoteVars, Launched
  <2>3. CASE BindPending(c, s)
    <3>1. /\ processes' = [processes EXCEPT ![s].pending = Append(@, c)]
          /\ processes \in [Processes -> Entry \cup {Absent}]
      BY <2>3 DEF BindPending, TypeOK
    <3>2. processes'[s].key = processes[s].key
      BY <2>1, <3>1, EntryFacts DEF Entry
    <3>3. \A r \in Launched' : r \in Launched /\ processes'[r].key = processes[r].key
      BY <2>1, <3>1, <3>2 DEF Launched
    <3>4. QED
      BY <3>3, KeysKept
  <2>4. QED
    BY <1>1, <2>2, <2>3
<1>2. CASE LaunchFails(k)
  <2>1. \A r \in Launched' : r \in Launched /\ processes'[r] = processes[r]
    BY <1>2, KeptFacts DEF LaunchFails, Launched
  <2>2. QED
    BY <2>1, KeysKept
<1>3. CASE Launch(c, k) /\ \A s \in Existing(k) : Exited(s)
  <2>1. /\ \A r \in Processes : r # nextSeq => processes'[r] = Kept(k)[r]
        /\ nextSeq \in Processes => processes'[nextSeq].key = k
    BY <1>3, KeptFacts DEF Launch
  <2>2. \A r \in Launched' : r # nextSeq =>
          r \in Launched /\ processes'[r] = processes[r] /\ processes'[r].key # k
    <3> SUFFICES ASSUME NEW r \in Launched', r # nextSeq
                 PROVE  r \in Launched /\ processes'[r] = processes[r] /\ processes'[r].key # k
      OBVIOUS
    <3>1. r \in Processes /\ processes'[r] # Absent
      BY DEF Launched
    <3>2. r \in Launched /\ processes'[r] = processes[r]
      BY <2>1, <3>1, KeptFacts DEF Launched
    <3>3. r \notin Existing(k)
      BY <1>3, <2>1, <3>1 DEF Kept, Forgotten
    <3>4. QED
      BY <3>2, <3>3 DEF Existing
  <2>3. \A r \in Launched' : r \in Processes
    BY DEF Launched
  <2>4. QED
    BY <2>1, <2>2, <2>3 DEF KeysInv
<1>4. QED
  BY <1>1, <1>2, <1>3 DEF BindRemote

\* Every step keeps one process for a key.
LEMMA KeysStep ==
    ASSUME TypeOK, KeysInv, [Next]_vars
    PROVE  KeysInv'
<1>1. CASE UNCHANGED processes
  BY <1>1, KeysKept DEF Launched
<1>2. ASSUME NEW s \in Processes, ProcessStep(s)
      PROVE  KeysInv'
  <2>1. \/ UNCHANGED processes
        \/ /\ s \in Launched
           /\ \/ processes' = [processes EXCEPT ![s] = [@ EXCEPT !.attached = TRUE]]
              \/ processes' = [processes EXCEPT ![s].ready = TRUE, ![s].pending = <<>>]
    <3>1. CASE AttachApplication(s)
      BY <3>1 DEF AttachApplication, TypeOK
    <3>2. CASE FinishAttach(s)
      BY <3>2 DEF FinishAttach
    <3>3. CASE ~AttachApplication(s) /\ ~FinishAttach(s)
      BY <1>2, <3>3 DEF ProcessStep, BindApplication, FinishAttachUnknown, Die, LauncherExits, Reap
    <3>4. QED
      BY <3>1, <3>2, <3>3
  <2>2. CASE ~UNCHANGED processes
    <3>1. /\ s \in Launched /\ processes[s] \in Entry
          /\ processes \in [Processes -> Entry \cup {Absent}]
      BY <2>1, <2>2, EntryFacts DEF TypeOK
    <3>2. processes'[s].key = processes[s].key
          /\ \A r \in Processes \ {s} : processes'[r] = processes[r]
      BY <2>1, <2>2, <3>1 DEF Entry
    <3>3. \A r \in Launched' : r \in Launched /\ processes'[r].key = processes[r].key
      BY <3>1, <3>2 DEF Launched
    <3>4. QED
      BY <3>3, KeysKept
  <2>3. QED
    BY <1>1, <2>2
<1>3. ASSUME NEW c \in Connections, Unbind(c)
      PROVE  KeysInv'
  <2>1. \A s \in Processes : processes'[s] = IF s \in Ended(c) THEN Absent ELSE Withdrawn(c)[s]
    BY <1>3, UnbindFacts
  <2>2. \A s \in Launched' : s \in Launched /\ processes'[s].key = processes[s].key
    BY <2>1, WithdrawnFacts DEF Launched
  <2>3. QED
    BY <2>2, KeysKept
<1>4. ASSUME NEW t \in Clients, ClientStep(t)
      PROVE  UNCHANGED processes
  BY <1>4 DEF ClientStep, EnsureService, SendCreate, SendArgs, RecordBinding, SendBind,
         StopCheck, StopService, remoteVars
<1>5. ASSUME \/ \E b \in Binds : Publish(b)
             \/ \E b \in publishing : SendConnected(b)
             \/ UNCHANGED vars
      PROVE  UNCHANGED processes
  BY <1>5 DEF Publish, SendConnected, vars, remoteVars
<1>6. QED
  BY <1>1, <1>2, <1>3, <1>4, <1>5, KeysBindRemote DEF Next

\* The services of the app stay as they are when none is told CREATE or STOP.
LEMMA LocalKept ==
    ASSUME TypeOK, LocalInv, UNCHANGED localVars,
           \A token \in Locals : \A kind \in {"create", "stop"} :
              kind \in Heard(token)' => kind \in Heard(token)
    PROVE  LocalInv'
<1>1. UNCHANGED <<running, nextLocal, call>>
  BY DEF localVars
<1>2. \A c \in Classes : running[c] # Absent => running[c] \in Locals
  BY DEF TypeOK
<1>3. \A token \in Locals : token >= MaxSeq + nextLocal' =>
          /\ "create" \notin Heard(token)' /\ "stop" \notin Heard(token)'
          /\ \A t \in Clients : call'[t].at \in {"create", "stop"} => call'[t].token # token
  BY <1>1 DEF LocalInv
<1>4. \A t \in Clients : call'[t].at = "send" => call'[t].binding.token \in Locals
  BY <1>1 DEF LocalInv
<1>5. \A c \in Classes : running'[c] # Absent => "stop" \notin Heard(running[c])'
  BY <1>1, <1>2 DEF LocalInv, StoppedServicesAreGone
<1>6. StoppedServicesAreGone'
  BY <1>1, <1>5 DEF StoppedServicesAreGone
<1>7. QED
  BY <1>3, <1>4, <1>6 DEF LocalInv

\* What service processes and those who bind them do leaves the services of the app alone.
LEMMA LocalRemote ==
    ASSUME TypeOK, PromisesInv, LocalInv,
           \/ \E c \in Connections, k \in Keys : BindRemote(c, k)
           \/ \E s \in Processes : ProcessStep(s)
    PROVE  LocalInv'
<1>1. UNCHANGED localVars
  BY DEF BindRemote, ProcessStep, AttachApplication, BindApplication, FinishAttach,
         FinishAttachUnknown, Die, LauncherExits, Reap
<1>2. ASSUME NEW s \in Processes, NEW msgs \in Seq(Message), log' = Told(s, msgs)
      PROVE  \A token \in Locals : log'[token] = log[token]
  <2>1. log \in [Tokens -> Seq(Message)] /\ s \in Tokens
    BY LocalsApart DEF TypeOK
  <2>2. \A token \in Tokens \ {s} : log'[token] = log[token]
    BY <1>2, <2>1, ToldFacts
  <2>3. QED
    BY <2>2, LocalsApart
<1>3. \A token \in Locals : log'[token] = log[token]
  <2>1. CASE UNCHANGED log
    BY <2>1
  <2>2. ASSUME NEW c \in Connections, NEW k \in Keys, BindRemote(c, k)
        PROVE  \A token \in Locals : log'[token] = log[token]
    <3>1. ASSUME NEW s \in Launched, BindReady(c, s)
          PROVE  \A token \in Locals : log'[token] = log[token]
      <4>1. s \in Processes /\ s \in Tokens /\ nextBind <= MaxBinds
        BY <2>2, TokenLeft, LocalsApart DEF Launched, BindRemote
      <4>2. Msgs("bind", NewBindings(s, <<c>>)) \in Seq(Message)
        BY <4>1, OneBinding
      <4>3. QED
        BY <1>2, <2>1, <3>1, <4>1, <4>2 DEF BindReady
    <3>2. QED
      BY <2>1, <2>2, <3>1 DEF BindRemote, BindPending, Launch, LaunchFails, Existing, bindVars
  <2>3. ASSUME NEW s \in Processes, FinishAttach(s)
        PROVE  \A token \in Locals : log'[token] = log[token]
    <3>1. PICK all : all = NewBindings(s, processes[s].pending)
      OBVIOUS
    <3>2. s \in Launched
      BY <2>3 DEF FinishAttach
    <3>3. \/ UNCHANGED bindVars
          \/ \E m \in 0 .. Len(all) :
               log' = Told(s, Msg("create") \o Msgs("bind", SubSeq(all, 1, m)))
      BY <2>3, <3>1, FinishAttachFacts
    <3>4. \A m \in 0 .. Len(all) :
               Msg("create") \o Msgs("bind", SubSeq(all, 1, m)) \in Seq(Message)
      BY <3>1, <3>2, AttachFacts
    <3>5. QED
      BY <1>2, <2>1, <3>3, <3>4 DEF bindVars
  <2>4. ASSUME NEW s \in Processes, ProcessStep(s), ~FinishAttach(s)
        PROVE  UNCHANGED log
    BY <2>4 DEF ProcessStep, AttachApplication, BindApplication, FinishAttachUnknown, Die,
                LauncherExits, Reap, bindVars
  <2>5. QED
    BY <2>1, <2>2, <2>3, <2>4
<1>4. QED
  BY <1>1, <1>3, LocalKept DEF Heard

\* unbindService tells the services of the app UNBIND and nothing else.
LEMMA LocalUnbind ==
    ASSUME TypeOK, LocalInv, NEW c \in Connections, Unbind(c)
    PROVE  LocalInv'
<1>1. PICK removed, ended : removed = Removed(c) /\ ended = Ended(c)
  OBVIOUS
<1>2. /\ UNCHANGED localVars /\ log' = Unbound(removed, ended) /\ ended \subseteq Processes
  BY <1>1, UnbindFacts
<1>3. removed \in Seq(Binding)
  BY <1>1, PartedFacts
<1>4. ASSUME NEW token \in Locals, NEW kind \in {"create", "stop"}, kind \in Heard(token)'
      PROVE  kind \in Heard(token)
  <2>1. \A t \in Tokens : TellsUnbound(t, Unbound(removed, ended)[t], removed, ended)
    BY <1>3, UnboundFacts
  <2>2. token \in Tokens /\ token \notin ended
    BY <1>2, LocalsApart
  <2>3. TellsUnbound(token, log'[token], removed, ended)
    BY <1>2, <2>1, <2>2
  <2>4. PICK u \in Seq(Message) :
          /\ \A i \in DOMAIN u : u[i].kind = "unbind"
          /\ log'[token] = log[token] \o u
    BY <2>2, <2>3 DEF TellsUnbound
  <2> DEFINE l == log[token]
  <2>5. l \in Seq(Message)
    BY <2>2, LogFacts
  <2>6. \A i \in DOMAIN (l \o u) :
          /\ i \in DOMAIN l \/ i - Len(l) \in DOMAIN u
          /\ (l \o u)[i] = IF i \in DOMAIN l THEN l[i] ELSE u[i - Len(l)]
    BY <2>5, ConcatFacts
  <2>7. \A i \in DOMAIN (l \o u) :
          (l \o u)[i].kind = "unbind" \/ (i \in DOMAIN l /\ (l \o u)[i] = l[i])
    BY <2>4, <2>6
  <2>8. QED
    BY <1>4, <2>4, <2>7 DEF Heard
<1>5. QED
  BY <1>2, <1>4, LocalKept

\* The steps of the app's threads.
LEMMA LocalClient ==
    ASSUME TypeOK, PromisesInv, LocalInv, NEW t \in Clients, ClientStep(t)
    PROVE  LocalInv'
<1>1. /\ call \in [Clients -> Calls] /\ nextLocal \in Nat /\ MaxSeq \in Nat
      /\ \A token \in Locals : token \in Nat /\ token \in Tokens
      /\ running \in [Classes -> Locals \cup {Absent}]
  BY LocalsApart, BoundsAssumption DEF TypeOK
<1>2. /\ \A token \in Locals : token >= MaxSeq + nextLocal =>
          /\ "create" \notin Heard(token) /\ "stop" \notin Heard(token)
          /\ \A x \in Clients : call[x].at \in {"create", "stop"} => call[x].token # token
      /\ \A x \in Clients : call[x].at = "send" => call[x].binding.token \in Locals
      /\ \A c \in Classes : running[c] # Absent => "stop" \notin Heard(running[c])
  BY DEF LocalInv, StoppedServicesAreGone
<1>3. ASSUME NEW next, call' = [call EXCEPT ![t] = next],
             nextLocal' \in Nat, nextLocal <= nextLocal',
             \A token \in Locals : token >= MaxSeq + nextLocal' =>
                /\ "create" \notin Heard(token)' /\ "stop" \notin Heard(token)'
                /\ next.at \in {"create", "stop"} => next.token # token,
             next.at = "send" => next.binding.token \in Locals,
             StoppedServicesAreGone'
      PROVE  LocalInv'
  <2>1. \A x \in Clients : call'[x] = IF x = t THEN next ELSE call[x]
    BY <1>1, <1>3
  <2>2. \A token \in Locals : token >= MaxSeq + nextLocal' => token >= MaxSeq + nextLocal
    BY <1>1, <1>3
  <2>3. \A token \in Locals : token >= MaxSeq + nextLocal' =>
          /\ "create" \notin Heard(token)' /\ "stop" \notin Heard(token)'
          /\ \A x \in Clients : call'[x].at \in {"create", "stop"} => call'[x].token # token
    BY <1>2, <1>3, <2>1, <2>2
  <2>4. \A x \in Clients : call'[x].at = "send" => call'[x].binding.token \in Locals
    BY <1>2, <1>3, <2>1
  <2>5. QED
    BY <1>3, <2>3, <2>4 DEF LocalInv
<1>4. ASSUME UNCHANGED <<nextLocal, running>>, NEW next, call' = [call EXCEPT ![t] = next],
             \A token \in Locals : \A kind \in {"create", "stop"} :
                kind \in Heard(token)' => kind \in Heard(token),
             \A token \in Locals :
                token >= MaxSeq + nextLocal /\ next.at \in {"create", "stop"}
                  => next.token # token,
             next.at = "send" => next.binding.token \in Locals
      PROVE  LocalInv'
  <2>1. nextLocal' \in Nat /\ nextLocal <= nextLocal'
    BY <1>1, <1>4
  <2>2. \A c \in Classes : running'[c] # Absent => "stop" \notin Heard(running[c])'
    BY <1>1, <1>2, <1>4
  <2>3. StoppedServicesAreGone'
    BY <2>2 DEF StoppedServicesAreGone
  <2>4. QED
    BY <1>2, <1>3, <1>4, <2>1, <2>3
<1>5. ASSUME NEW token \in Locals, NEW msgs \in Seq(Message), NEW kind,
             \A i \in DOMAIN msgs : msgs[i].kind = kind, log' = Told(token, msgs)
      PROVE  \A x \in Locals : \A k \in Heard(x)' : k \in Heard(x) \/ (x = token /\ k = kind)
  BY <1>1, <1>5, HeardTold
<1>6. \A kind \in {"create", "stop", "args"} :
        Msg(kind) \in Seq(Message) /\ \A i \in DOMAIN Msg(kind) : Msg(kind)[i].kind = kind
  BY MsgFacts DEF Msg
<1>7. CASE \E c \in Classes, conn \in Connections \cup {Absent} : EnsureService(t, c, conn)
  <2>1. PICK c \in Classes, conn \in Connections \cup {Absent} : EnsureService(t, c, conn)
    BY <1>7
  <2>2. UNCHANGED log
    BY <2>1 DEF EnsureService, bindVars
  <2>3. CASE running[c] # Absent
    <3> DEFINE next == [at |-> "use", token |-> running[c], conn |-> conn]
    <3>1. call' = [call EXCEPT ![t] = next] /\ UNCHANGED <<running, nextLocal>> /\ next.at = "use"
      BY <2>1, <2>3 DEF EnsureService
    <3>2. QED
      BY <1>4, <2>2, <3>1 DEF Heard
  <2>4. CASE running[c] = Absent
    <3>1. PICK fresh : fresh = MaxSeq + nextLocal
      OBVIOUS
    <3> DEFINE next == [at |-> "create", token |-> fresh, conn |-> conn]
    <3>2. /\ call' = [call EXCEPT ![t] = next] /\ running' = [running EXCEPT ![c] = fresh]
          /\ nextLocal' = nextLocal + 1 /\ nextLocal <= MaxLocal
          /\ next.at = "create" /\ next.token = fresh
      BY <2>1, <2>4, <3>1 DEF EnsureService
    <3>3. fresh \in Locals /\ fresh >= MaxSeq + nextLocal /\ nextLocal \in Nat \ {0}
      <4>1. nextLocal \in Nat \ {0} /\ MaxLocal \in Nat
        BY BoundsAssumption DEF TypeOK
      <4>2. QED
        BY <1>1, <3>1, <3>2, <4>1 DEF Locals
    <3>4. nextLocal' \in Nat /\ nextLocal <= nextLocal'
      BY <1>1, <3>2
    <3>5. \A token \in Locals : token >= MaxSeq + nextLocal' =>
             token # fresh /\ token >= MaxSeq + nextLocal
      BY <1>1, <3>1, <3>2
    <3>6. \A token \in Locals : token >= MaxSeq + nextLocal' =>
                /\ "create" \notin Heard(token)' /\ "stop" \notin Heard(token)'
                /\ next.at \in {"create", "stop"} => next.token # token
      BY <1>2, <2>2, <3>2, <3>5 DEF Heard
    <3>7. \A d \in Classes : running'[d] = running[d] \/ running'[d] = fresh
      BY <1>1, <3>2
    <3>8. "stop" \notin Heard(fresh)
      BY <1>2, <3>3
    <3>9. \A d \in Classes : running'[d] # Absent => "stop" \notin Heard(running[d])'
      BY <1>2, <2>2, <3>7, <3>8 DEF Heard
    <3>10. StoppedServicesAreGone'
      BY <3>9 DEF StoppedServicesAreGone
    <3>11. QED
      BY <1>3, <3>2, <3>4, <3>6, <3>10
  <2>5. QED
    BY <2>3, <2>4
<1>8. CASE SendCreate(t)
  <2>1. PICK token \in Locals : token = call[t].token /\ call[t].at = "create" /\ call[t] \in Use
    BY <1>8, CallFacts DEF SendCreate
  <2>2. /\ log' = Told(token, Msg("create")) /\ UNCHANGED <<nextLocal, running>>
        /\ call' = [call EXCEPT ![t].at = "use"]
    BY <1>8, <2>1 DEF SendCreate
  <2>3. \A x \in Locals : \A k \in Heard(x)' : k \in Heard(x) \/ (x = token /\ k = "create")
    BY <1>5, <1>6, <2>2
  <2>4. ~(token >= MaxSeq + nextLocal)
    BY <1>2, <2>1
  <2> DEFINE next == [call[t] EXCEPT !.at = "use"]
  <2>5. call' = [call EXCEPT ![t] = next] /\ next.at = "use"
    BY <1>1, <2>1, <2>2 DEF Use
  <2> HIDE DEF next
  <2>6. \A x \in Locals : x >= MaxSeq + nextLocal' =>
                /\ "create" \notin Heard(x)' /\ "stop" \notin Heard(x)'
                /\ next.at \in {"create", "stop"} => next.token # x
    BY <1>2, <2>2, <2>3, <2>4, <2>5
  <2>7. \A c \in Classes : running'[c] # Absent => "stop" \notin Heard(running[c])'
    BY <1>1, <1>2, <2>2, <2>3
  <2>8. StoppedServicesAreGone'
    BY <2>7 DEF StoppedServicesAreGone
  <2>9. nextLocal' \in Nat /\ nextLocal <= nextLocal'
    BY <1>1, <2>2
  <2>10. QED
    BY <1>3, <2>5, <2>6, <2>8, <2>9
<1>9. CASE SendArgs(t)
  <2>1. PICK token \in Locals : token = call[t].token
    BY <1>9, CallFacts DEF SendArgs
  <2>2. /\ log' = Told(token, Msg("args")) /\ UNCHANGED <<nextLocal, running>>
        /\ call' = [call EXCEPT ![t] = Idle]
    BY <1>9, <2>1 DEF SendArgs
  <2>3. \A x \in Locals : \A k \in Heard(x)' : k \in Heard(x) \/ (x = token /\ k = "args")
    BY <1>5, <1>6, <2>2
  <2>4. PICK next : next = Idle /\ next.at = "idle"
    <3>1. Idle.at = "idle"
      BY DEF Idle
    <3>2. QED
      BY <3>1
  <2>5. \A x \in Locals : \A k \in {"create", "stop"} : k \in Heard(x)' => k \in Heard(x)
    BY <2>3
  <2>6. call' = [call EXCEPT ![t] = next]
    BY <2>2, <2>4
  <2>7. QED
    BY <1>4, <2>2, <2>4, <2>5, <2>6
<1>10. CASE RecordBinding(t)
  <2>1. PICK token \in Locals, c \in Connections : token = call[t].token /\ c = call[t].conn
    BY <1>10, CallFacts DEF RecordBinding
  <2>2. t \in Coming
    BY <1>10 DEF RecordBinding, Coming
  <2>3. nextBind <= MaxBinds
    BY <2>2, ComersToken
  <2>4. NewBindings(token, <<c>>)[1] = [bind |-> nextBind, token |-> token, conn |-> c]
    BY <1>1, <2>3, OneBinding
  <2>5. PICK b : b = NewBindings(token, <<c>>)[1] /\ b.token = token
    BY <2>4
  <2> DEFINE next == [at |-> "send", binding |-> b]
  <2>6. /\ call' = [call EXCEPT ![t] = next] /\ UNCHANGED <<running, nextLocal, log>>
        /\ next.at = "send" /\ next.binding = b
    BY <1>10, <2>1, <2>5 DEF RecordBinding
  <2>7. QED
    BY <1>4, <2>5, <2>6 DEF Heard
<1>11. CASE SendBind(t)
  <2>1. PICK b \in Binding : b = call[t].binding /\ b.token \in Locals
    BY <1>2, <1>11, CallFacts DEF SendBind
  <2>2. /\ log' = Told(b.token, Msgs("bind", <<b>>)) /\ UNCHANGED <<nextLocal, running>>
        /\ call' = [call EXCEPT ![t] = Idle]
    BY <1>11, <2>1 DEF SendBind
  <2>3. /\ Msgs("bind", <<b>>) \in Seq(Message)
        /\ \A i \in DOMAIN Msgs("bind", <<b>>) : Msgs("bind", <<b>>)[i].kind = "bind"
    <3>1. <<b>> \in Seq(Binding)
      OBVIOUS
    <3>2. Msgs("bind", <<b>>) \in Seq(Message)
      BY <3>1, MsgsFacts
    <3>3. QED
      BY <3>2 DEF Msgs
  <2>4. \A x \in Locals : \A k \in Heard(x)' : k \in Heard(x) \/ (x = b.token /\ k = "bind")
    BY <1>5, <2>1, <2>2, <2>3
  <2>5. PICK next : next = Idle /\ next.at = "idle"
    <3>1. Idle.at = "idle"
      BY DEF Idle
    <3>2. QED
      BY <3>1
  <2>6. \A x \in Locals : \A k \in {"create", "stop"} : k \in Heard(x)' => k \in Heard(x)
    BY <2>4
  <2>7. call' = [call EXCEPT ![t] = next]
    BY <2>2, <2>5
  <2>8. QED
    BY <1>4, <2>2, <2>5, <2>6, <2>7
<1>12. CASE \E token \in Locals : StopCheck(t, token)
  <2>1. PICK token \in Locals : StopCheck(t, token)
    BY <1>12
  <2> DEFINE next == [at |-> "stop", token |-> token]
  <2>2. /\ call' = [call EXCEPT ![t] = next] /\ UNCHANGED <<running, nextLocal, log>>
        /\ "create" \in Heard(token) /\ next.at = "stop" /\ next.token = token
    BY <2>1 DEF StopCheck, bindVars
  <2>3. ~(token >= MaxSeq + nextLocal)
    BY <1>2, <2>2
  <2>4. QED
    BY <1>4, <2>2, <2>3 DEF Heard
<1>13. CASE StopService(t)
  <2>1. PICK token \in Locals : token = call[t].token /\ call[t].at = "stop"
    BY <1>13, CallFacts DEF StopService
  <2>2. /\ log' = Told(token, Msg("stop")) /\ UNCHANGED nextLocal
        /\ running' = [c \in Classes |-> IF running[c] = token THEN Absent ELSE running[c]]
        /\ call' = [call EXCEPT ![t] = Idle]
    BY <1>13, <2>1 DEF StopService
  <2>3. \A x \in Locals : \A k \in Heard(x)' : k \in Heard(x) \/ (x = token /\ k = "stop")
    BY <1>5, <1>6, <2>2
  <2>4. ~(token >= MaxSeq + nextLocal)
    BY <1>2, <2>1
  <2>5. \A x \in Locals : x >= MaxSeq + nextLocal' =>
                /\ "create" \notin Heard(x)' /\ "stop" \notin Heard(x)'
                /\ Idle.at \in {"create", "stop"} => Idle.token # x
    BY <1>2, <2>2, <2>3, <2>4 DEF Idle
  <2>6. \A c \in Classes : running'[c] # Absent => running'[c] = running[c] /\ running[c] # token
    BY <1>1, <2>2, LocalsApart
  <2>7. \A c \in Classes : running'[c] # Absent => "stop" \notin Heard(running[c])'
    BY <1>1, <1>2, <2>3, <2>6
  <2>8. StoppedServicesAreGone'
    BY <2>7 DEF StoppedServicesAreGone
  <2>9. nextLocal' \in Nat /\ nextLocal <= nextLocal' /\ Idle.at # "send"
    BY <1>1, <2>2 DEF Idle
  <2>10. QED
    BY <1>3, <2>2, <2>5, <2>8, <2>9
<1>14. QED
  BY <1>7, <1>8, <1>9, <1>10, <1>11, <1>12, <1>13 DEF ClientStep

\* Every step keeps what is known of the services of the app.
LEMMA LocalStep ==
    ASSUME IInv, [Next]_vars
    PROVE  LocalInv'
<1>1. TypeOK /\ PromisesInv /\ LocalInv
  BY DEF IInv
<1>2. CASE UNCHANGED <<localVars, log>>
  BY <1>1, <1>2, LocalKept DEF Heard
<1>3. CASE UNCHANGED vars
  BY <1>2, <1>3 DEF vars, bindVars
<1>4. ASSUME \/ \E b \in Binds : Publish(b)
             \/ \E b \in publishing : SendConnected(b)
      PROVE  LocalInv'
  BY <1>2, <1>4 DEF Publish, SendConnected, bindVars
<1>5. QED
  BY <1>1, <1>3, <1>4, LocalRemote, LocalUnbind, LocalClient DEF Next

-----------------------------------------------------------------------------
(***************************************************************************)
(* The theorems.                                                           *)
(***************************************************************************)

\* The inductive invariant holds at the start: nothing was launched, bound or told.
LEMMA InvInit == Init => IInv
<1> SUFFICES ASSUME Init PROVE IInv
  OBVIOUS
<1>1. TypeOK
  BY TypeInit
<1>2. /\ \A s \in Processes : processes[s] = Absent /\ child[s] = "none"
      /\ Launched = {} /\ nextSeq = 1 /\ leaving = {} /\ bindings = <<>> /\ accepted = {}
      /\ \A t \in Tokens : log[t] = <<>>
      /\ \A t \in Clients : call[t] = Idle /\ call[t].at = "idle"
      /\ \A c \in Classes : running[c] = Absent
      /\ nextBind = 1
  BY DEF Init, Launched, Idle
<1>3. PromisesInv
  <2>1. Waiting = {} /\ Coming = {}
    BY <1>2 DEF Waiting, Coming
  <2>2. Cardinality(Waiting) = 0 /\ Cardinality(Coming) = 0
    BY <2>1, FS_EmptySet
  <2>3. QED
    BY <1>2, <2>2, BoundsAssumption DEF PromisesInv
<1>4. ASSUME NEW s \in Processes PROVE ProcessInv(s)
  <2>1. log[s] = <<>> /\ Bound(s) = {}
    BY <1>2 DEF Bound, Tokens
  <2>2. FreshInv(s) /\ MapInv(s) /\ BindingsInv(s) /\ LogInv(s) /\ ConnectionsInv(s)
    BY <1>2, <2>1 DEF FreshInv, MapInv, BindingsInv, LogInv, Life, Older, ConnectionsInv, Alive
  <2>3. QED
    BY <2>2 DEF ProcessInv
<1>5. KeysInv
  BY <1>2 DEF KeysInv
<1>6. LocalInv
  <2>1. \A token \in Locals : Heard(token) = {}
    BY <1>2 DEF Heard, Tokens
  <2>2. QED
    BY <1>2, <2>1 DEF LocalInv, StoppedServicesAreGone
<1>7. QED
  BY <1>1, <1>3, <1>4, <1>5, <1>6 DEF IInv

\* Every step keeps the inductive invariant.
LEMMA InvStep == IInv /\ [Next]_vars => IInv'
<1> SUFFICES ASSUME IInv, [Next]_vars PROVE IInv'
  OBVIOUS
<1>1. TypeOK /\ PromisesInv /\ KeysInv
  BY DEF IInv
<1>2. TypeOK' /\ PromisesInv'
  BY <1>1, TypeStep, PromisesStep
<1>3. \A s \in Processes : ProcessInv(s)'
  BY <1>2, ProcessesStep
<1>4. KeysInv'
  BY <1>1, KeysStep
<1>5. LocalInv'
  BY LocalStep
<1>6. QED
  BY <1>2, <1>3, <1>4, <1>5 DEF IInv

\* The inductive invariant holds in every reachable state.
THEOREM Invariance == Spec => []IInv
BY InvInit, InvStep, PTL DEF Spec

\* Every variable of the services keeps its type, whatever binds, attaches, unbinds and
\* dies (activity.rs, service_processes.rs).
THEOREM TypeCorrect == Spec => []TypeOK
<1>1. IInv => TypeOK
  BY DEF IInv
<1>2. QED
  BY <1>1, Invariance, PTL

\* Who holds on to a process is attached to it.
LEMMA HoldsAttached ==
    ASSUME TypeOK, NEW s \in Processes, NEW c \in Connections
    PROVE  Attached(c, s) <=> Holds(c, s)
<1>1. \A i \in DOMAIN bindings : bindings[i] \in Binding
  BY DEF TypeOK
<1>2. (\E b \in Bound(s) : b.conn = c)
        <=> \E i \in DOMAIN bindings : bindings[i].conn = c /\ bindings[i].token = s
  BY <1>1 DEF Bound
<1>3. QED
  BY <1>2 DEF Attached, Holds, Waits, Launched

\* The inductive invariant, read as the properties of the service processes.
LEMMA InvProcesses == IInv => ProcessesFollowTheirBinds
<1> SUFFICES ASSUME IInv PROVE ProcessesFollowTheirBinds
  OBVIOUS
<1>1. TypeOK /\ KeysInv /\ \A s \in Processes : ProcessInv(s)
  BY DEF IInv
<1>2. NoConnectionIsForgotten
  <2> SUFFICES ASSUME NEW a \in accepted, a[2] \in Processes, child[a[2]] \in Alive
               PROVE  Attached(a[1], a[2])
    BY DEF NoConnectionIsForgotten
  <2>1. a = <<a[1], a[2]>> /\ a[1] \in Connections
    BY <1>1 DEF TypeOK
  <2>2. PICK s, c : s = a[2] /\ c = a[1] /\ s \in Processes /\ c \in Connections
                      /\ child[s] \in Alive /\ <<c, s>> \in accepted
    BY <2>1
  <2>3. Holds(c, s)
    BY <1>1, <2>2 DEF ProcessInv, ConnectionsInv
  <2>4. QED
    BY <1>1, <2>2, <2>3, HoldsAttached
<1>3. IdleProcessesAreStopped
  <2> SUFFICES ASSUME NEW s \in Launched, child[s] \in Alive,
                      \A c \in Connections : ~Attached(c, s)
               PROVE  sweepFailed
    BY DEF IdleProcessesAreStopped
  <2>1. s \in Processes /\ processes[s] # Absent
    BY DEF Launched
  <2>2. \A c \in Connections : ~Holds(c, s)
    BY <1>1, <2>1, HoldsAttached
  <2>3. QED
    BY <1>1, <2>1, <2>2 DEF ProcessInv, ConnectionsInv
<1>4. OneProcessPerKey
  <2>1. \A s \in Launched : log[s] # <<>> => processes[s].ready
    BY <1>1 DEF ProcessInv, MapInv, Launched
  <2>2. QED
    BY <1>1, <2>1 DEF OneProcessPerKey, KeysInv
<1>5. QED
  BY <1>2, <1>3, <1>4 DEF ProcessesFollowTheirBinds

\* A service process follows its binds: a bind that was answered true is not forgotten while
\* its process lives, there is one process for a caller, class and instance, which is told
\* nothing before it attached, and one that lives without a connection means that the last
\* unbindService gave up (bind_service, finish_service_attach, unbind_service_connection).
THEOREM ProcessesFollowTheirBindsAlways == Spec => []ProcessesFollowTheirBinds
BY Invariance, InvProcesses, PTL

\* The inductive invariant, read as the property of every service.
LEMMA InvLives == IInv => ServicesLiveOnce
<1> SUFFICES ASSUME IInv PROVE ServicesLiveOnce
  OBVIOUS
<1>1. LocalInv /\ \A s \in Processes : Life(log[s])
  BY DEF IInv, ProcessInv, LogInv
<1>2. ProcessesHearALife
  BY <1>1 DEF ProcessesHearALife, Life
<1>3. QED
  BY <1>1, <1>2 DEF ServicesLiveOnce, LocalInv

\* Services live once: a process hears CREATE first, each BIND once, UNBIND after its BIND
\* and nothing after STOP, and a service of the app that was told to stop is not found again
\* (send_service_binding, unbind_service_connection, stop_service).
THEOREM ServicesLiveOnceAlways == Spec => []ServicesLiveOnce
BY Invariance, InvLives, PTL
=============================================================================
