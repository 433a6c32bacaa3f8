------------------------------ MODULE HandlerProofs ------------------------------
(***************************************************************************)
(* Proofs about what the Flight SQL handlers do with statements and rows:  *)
(* PreparedStatements, for any number of clients, texts, handles,          *)
(* parameter sets and changes of the catalog, and any capacity of the      *)
(* cache, and RequestTranslation, for any requests and filters of any      *)
(* depth.                                                                  *)
(*                                                                         *)
(* The argument about prepared statements: handles are given out once, so  *)
(* what a client was told of one stays true (ToldTrue); parameters that    *)
(* were not used are in one place, with their statement or with the        *)
(* request that took them (ParametersOwned); and of the requests, only a   *)
(* ticket's own is ephemeral before it has found its statement             *)
(* (RequestRules).  The cache of schemas has as many entries as its order  *)
(* has keys (KeysInOrder), so one eviction makes room enough.              *)
(*                                                                         *)
(* The argument about translations is by induction over the filters'       *)
(* depth, and over the batches' rows in SequenceLemmas.                    *)
(***************************************************************************)
EXTENDS PreparedStatements, RequestTranslation, SequenceLemmas

Commands == HandleCommands \cup {"none", "create", "info", "update", "ticket"}

\* The requests and the statements there can be when m handles were given out and
\* n parameter sets bound.
LaneSet(m, n) ==
    [pc : Pcs, cmd : Commands, handle : 0..m, sql : Sqls \cup {NoSql},
     named : Sqls \cup {NoSql}, query : BOOLEAN, eph : BOOLEAN, params : 0..n,
     schema : Schemas, sets : 0..MaxSets]
StatementSet(n) ==
    [sql : Sqls, query : BOOLEAN, schema : Schemas, eph : BOOLEAN, params : 0..n]
BindSet == [to : Nat, ran : Seq(Nat)]

\* TypeOK of the statements and the requests, with the type of binds.
Shape ==
    /\ made \in 0..MaxHandles /\ last \in 0..made
    /\ DOMAIN prepared \subseteq 1..made
    /\ \A h \in DOMAIN prepared : prepared[h] \in StatementSet(Len(binds))
    /\ binds \in Seq(BindSet)
    /\ lane \in [Clients -> LaneSet(made, Len(binds))]
    /\ told \subseteq (1..made) \X Sqls

\* What is so of a request wherever it is: a request that names a text has found it
\* at its first step; a schema is planned for three kinds of requests, and one of
\* them registers; only a ticket's own statement is ephemeral when it is looked up.
RequestRules(l) ==
    /\ l.named # NoSql => l.sql = l.named /\ l.pc # "meta"
    /\ l.pc \in {"lookup", "plan", "insert", "register"} => l.sql \in Sqls
    /\ l.pc \in {"lookup", "plan", "insert"} => l.cmd \in {"create", "flight info", "info"}
    /\ l.pc = "register" => l.cmd = "create"
    /\ l.pc = "meta" => l.cmd \in HandleCommands \cup {"ticket"}
    /\ l.eph => l.cmd # "create" /\ (l.pc = "meta" => l.cmd = "ticket")
InOrder == \A c \in Clients : RequestRules(lane[c])

\* What a client was told of a handle is so as long as the statement is there.
ToldTrue == \A n \in told : n[1] \in DOMAIN prepared => prepared[n[1]].sql = n[2]

\* Parameters that were not used are with the statement they were bound to, or with
\* one request that took them from there.
Unused(p, h) == binds[p].to = h /\ binds[p].ran = <<>>
ParametersOwned ==
    /\ \A h \in DOMAIN prepared :
          prepared[h].params # None => Unused(prepared[h].params, h)
    /\ \A c \in Clients : lane[c].params # None => Unused(lane[c].params, lane[c].handle)
    /\ \A c \in Clients : \A h \in DOMAIN prepared :
          lane[c].params # None => prepared[h].params # lane[c].params
    /\ \A c, d \in Clients :
          c # d /\ lane[c].params # None => lane[d].params # lane[c].params

\* The statements and the requests that use them.
StatementInv ==
    /\ Shape /\ InOrder /\ ToldTrue /\ ParametersOwned
    /\ LastHandleLives /\ NoEphemeralLeak /\ BoundOnce

\* The cache of schemas.
CacheInv ==
    /\ DOMAIN entries \subseteq Sqls
    /\ \A s \in DOMAIN entries : entries[s] \in [schema : Schemas, late : BOOLEAN]
    /\ catalog \in 0..MaxChanges /\ silent \in BOOLEAN
    /\ FreshUnlessOverlapped

IInv == StatementInv /\ CacheInv

\* A request that still holds the ephemeral statement h.
Holding(l, h) == l.handle = h /\ l.eph /\ l.pc \in {"meta", "take", "close"}

-----------------------------------------------------------------------------
\* A request at another step differs in nothing else.
LEMMA AtPc ==
    ASSUME NEW m \in Nat, NEW n \in Nat, NEW l \in LaneSet(m, n), NEW p \in Pcs
    PROVE  LET r == [l EXCEPT !.pc = p]
           IN  /\ r \in LaneSet(m, n) /\ r.pc = p
               /\ r.cmd = l.cmd /\ r.handle = l.handle /\ r.sql = l.sql
               /\ r.named = l.named /\ r.query = l.query /\ r.eph = l.eph
               /\ r.params = l.params /\ r.schema = l.schema /\ r.sets = l.sets
BY DEF LaneSet

\* A request that was answered.
LEMMA IdleLane ==
    ASSUME NEW m \in Nat, NEW n \in Nat
    PROVE  /\ Idle \in LaneSet(m, n) /\ RequestRules(Idle)
           /\ Idle.pc = "idle" /\ Idle.params = None /\ ~Idle.eph /\ Idle.named = NoSql
BY BoundsAssumption DEF LaneSet, Idle, RequestRules, Pcs, Commands, None, Schemas

\* With more handles and parameter sets there are more requests and statements.
LEMMA SetsGrow ==
    ASSUME NEW m \in Nat, NEW n \in Nat, NEW i \in Nat, NEW j \in Nat, m <= i, n <= j
    PROVE  LaneSet(m, n) \subseteq LaneSet(i, j) /\ StatementSet(n) \subseteq StatementSet(j)
<1>1. 0..m \subseteq 0..i /\ 0..n \subseteq 0..j
  OBVIOUS
<1> QED BY <1>1 DEF LaneSet, StatementSet

\* A step of one request that leaves the statements' texts, kinds and parameters
\* alone, takes no parameters, and drops no ephemeral statement.
LEMMA QuietStep ==
    ASSUME StatementInv, NEW c \in Clients, NEW r \in LaneSet(made, Len(binds)),
           RequestRules(r), lane' = [lane EXCEPT ![c] = r],
           UNCHANGED <<last, made, told, binds>>,
           DOMAIN prepared' = DOMAIN prepared,
           \A h \in DOMAIN prepared :
              /\ prepared'[h] \in StatementSet(Len(binds))
              /\ prepared'[h].sql = prepared[h].sql /\ prepared'[h].eph = prepared[h].eph
              /\ prepared'[h].params = prepared[h].params,
           r.params # None => r.params = lane[c].params /\ r.handle = lane[c].handle,
           \A h \in DOMAIN prepared :
              prepared[h].eph /\ Holding(lane[c], h) => Holding(r, h)
    PROVE  StatementInv'
<1>1. /\ lane'[c] = r /\ \A d \in Clients : d # c => lane'[d] = lane[d]
      /\ lane' \in [Clients -> LaneSet(made, Len(binds))]
  BY DEF StatementInv, Shape
<1>2. Shape'
  BY <1>1 DEF StatementInv, Shape
<1>3. InOrder'
  BY <1>1 DEF StatementInv, InOrder
<1>4. ToldTrue'
  BY DEF StatementInv, ToldTrue
<1>5. ParametersOwned'
  <2>1. (\A h \in DOMAIN prepared :
           prepared[h].params # None => Unused(prepared[h].params, h))'
    BY DEF StatementInv, ParametersOwned, Unused
  <2>2. (\A d \in Clients : lane[d].params # None => Unused(lane[d].params, lane[d].handle))'
    BY <1>1 DEF StatementInv, ParametersOwned, Unused
  <2>3. \A d \in Clients : \A h \in DOMAIN prepared' :
          lane'[d].params # None => prepared'[h].params # lane'[d].params
    BY <1>1 DEF StatementInv, ParametersOwned
  <2>4. \A d, e \in Clients :
          d # e /\ lane'[d].params # None => lane'[e].params # lane'[d].params
    BY <1>1 DEF StatementInv, ParametersOwned
  <2> QED BY <2>1, <2>2, <2>3, <2>4 DEF ParametersOwned
<1>6. LastHandleLives'
  BY DEF StatementInv, LastHandleLives
<1>7. NoEphemeralLeak'
  <2>1. ASSUME NEW h \in DOMAIN prepared, prepared'[h].eph
        PROVE  \E d \in Clients : Holding(lane'[d], h)
    <3>1. PICK d \in Clients : Holding(lane[d], h)
      BY <2>1 DEF StatementInv, NoEphemeralLeak, Holding
    <3> QED BY <1>1, <2>1, <3>1
  <2> QED BY <2>1 DEF NoEphemeralLeak, Holding
<1>8. BoundOnce'
  BY DEF StatementInv, BoundOnce
<1> QED BY <1>2, <1>3, <1>4, <1>5, <1>6, <1>7, <1>8 DEF StatementInv

\* An execution uses the parameters of its request, and no others.
LEMMA ConsumedFacts ==
    ASSUME StatementInv, NEW c \in Clients, NEW l \in LaneSet(made, Len(binds)),
           l.params # None => l.params = lane[c].params /\ l.handle = lane[c].handle,
           binds' = Consumed(l)
    PROVE  /\ binds' \in Seq(BindSet) /\ Len(binds') = Len(binds)
           /\ \A p \in 1..Len(binds) :
                /\ binds'[p].to = binds[p].to
                /\ p # l.params => binds'[p] = binds[p]
                /\ p = l.params => binds'[p].ran = <<l.handle>> /\ binds[p].to = l.handle
<1>1. CASE l.params = None
  BY <1>1 DEF Consumed, StatementInv, Shape, None
<1>2. CASE l.params # None
  <2> DEFINE p == l.params
  <2> DEFINE b == [binds[p] EXCEPT !.ran = Append(@, l.handle)]
  <2>1. p \in 1..Len(binds) /\ l.handle \in Nat /\ Len(binds) \in Nat
    BY <1>2, LenProperties DEF LaneSet, None, StatementInv, Shape
  <2>2. binds[p].to = l.handle /\ binds[p].ran = <<>>
    BY <1>2 DEF StatementInv, ParametersOwned, Unused
  <2>3. binds[p] \in BindSet /\ binds \in Seq(BindSet) /\ DOMAIN binds = 1..Len(binds)
    BY <2>1, ElementOfSeq, LenProperties DEF StatementInv, Shape
  <2>4. Append(<<>>, l.handle) = <<l.handle>> /\ <<l.handle>> \in Seq(Nat)
    BY <2>1
  <2>5. b \in BindSet /\ b.to = binds[p].to /\ b.ran = <<l.handle>>
    BY <2>2, <2>3, <2>4 DEF BindSet
  <2>6. binds' = [binds EXCEPT ![p] = b]
    BY <1>2 DEF Consumed
  <2> HIDE DEF b, p
  <2>7. binds' \in Seq(BindSet) /\ Len(binds') = Len(binds)
    BY <2>1, <2>3, <2>5, <2>6, ExceptSeq
  <2>8. \A q \in 1..Len(binds) : binds'[q] = IF q = p THEN b ELSE binds[q]
    BY <2>3, <2>6
  <2> QED BY <2>2, <2>5, <2>7, <2>8 DEF p
<1> QED BY <1>1, <1>2

\* A request executes with the parameters it has, and goes on without.
LEMMA ConsumingStep ==
    ASSUME StatementInv, NEW c \in Clients, NEW l \in LaneSet(made, Len(binds)),
           l.params # None => l.params = lane[c].params /\ l.handle = lane[c].handle,
           lane[c].pc \notin {"meta", "take", "close"},
           NEW r \in LaneSet(made, Len(binds)), RequestRules(r), r.params = None,
           lane' = [lane EXCEPT ![c] = r], binds' = Consumed(l),
           UNCHANGED <<prepared, last, made, told>>
    PROVE  StatementInv'
<1>1. /\ lane'[c] = r /\ \A d \in Clients : d # c => lane'[d] = lane[d]
      /\ lane' \in [Clients -> LaneSet(made, Len(binds))]
  BY DEF StatementInv, Shape
<1>2. /\ binds' \in Seq(BindSet) /\ Len(binds') = Len(binds)
      /\ \A p \in 1..Len(binds) :
           /\ binds'[p].to = binds[p].to
           /\ p # l.params => binds'[p] = binds[p]
           /\ p = l.params => binds'[p].ran = <<l.handle>> /\ binds[p].to = l.handle
  BY ConsumedFacts
<1>3. Shape'
  BY <1>1, <1>2 DEF StatementInv, Shape
<1>4. InOrder'
  BY <1>1 DEF StatementInv, InOrder
<1>5. ToldTrue' /\ LastHandleLives'
  BY DEF StatementInv, ToldTrue, LastHandleLives
<1>6. ParametersOwned'
  <2>1. (\A h \in DOMAIN prepared :
           prepared[h].params # None => Unused(prepared[h].params, h))'
    <3> SUFFICES ASSUME NEW h \in DOMAIN prepared, prepared[h].params # None
                 PROVE  Unused(prepared[h].params, h)'
      OBVIOUS
    <3>1. prepared[h].params \in 1..Len(binds) /\ Unused(prepared[h].params, h)
      BY LenProperties DEF StatementInv, Shape, StatementSet, ParametersOwned, None
    <3>2. prepared[h].params # l.params
      BY DEF StatementInv, ParametersOwned
    <3> QED BY <1>2, <3>1, <3>2 DEF Unused
  <2>2. (\A d \in Clients : lane[d].params # None => Unused(lane[d].params, lane[d].handle))'
    <3> SUFFICES ASSUME NEW d \in Clients, d # c, lane[d].params # None
                 PROVE  /\ binds'[lane[d].params].to = lane[d].handle
                        /\ binds'[lane[d].params].ran = <<>>
      BY <1>1 DEF Unused
    <3>1. lane[d].params \in 1..Len(binds) /\ Unused(lane[d].params, lane[d].handle)
      BY LenProperties DEF StatementInv, Shape, LaneSet, ParametersOwned, None
    <3>2. lane[d].params # l.params
      BY DEF StatementInv, ParametersOwned
    <3> QED BY <1>2, <3>1, <3>2 DEF Unused
  <2>3. \A d \in Clients : \A h \in DOMAIN prepared' :
          lane'[d].params # None => prepared'[h].params # lane'[d].params
    BY <1>1 DEF StatementInv, ParametersOwned
  <2>4. \A d, e \in Clients :
          d # e /\ lane'[d].params # None => lane'[e].params # lane'[d].params
    BY <1>1 DEF StatementInv, ParametersOwned
  <2> QED BY <2>1, <2>2, <2>3, <2>4 DEF ParametersOwned
<1>7. NoEphemeralLeak'
  BY <1>1 DEF StatementInv, NoEphemeralLeak
<1>8. BoundOnce'
  BY <1>2 DEF StatementInv, BoundOnce
<1> QED BY <1>3, <1>4, <1>5, <1>6, <1>7, <1>8 DEF StatementInv

\* A statement is removed, and no request changes but for the step it is at; one
\* that held another ephemeral statement still does.
LEMMA RemovingStep ==
    ASSUME StatementInv, NEW h, Forget(h), UNCHANGED <<told, binds>>,
           lane' \in [Clients -> LaneSet(made, Len(binds))],
           \A d \in Clients :
              /\ RequestRules(lane'[d])
              /\ lane'[d].params = lane[d].params /\ lane'[d].handle = lane[d].handle
              /\ \A g \in DOMAIN prepared \ {h} : Holding(lane[d], g) => Holding(lane'[d], g)
    PROVE  StatementInv'
<1>1. /\ DOMAIN prepared' = DOMAIN prepared \ {h}
      /\ \A g \in DOMAIN prepared \ {h} : prepared'[g] = prepared[g]
      /\ made' = made
  BY DEF Forget
<1>2. last' = IF last = h THEN None ELSE last
  BY DEF Forget
<1>3. Shape'
  BY <1>1, <1>2 DEF StatementInv, Shape, None
<1>4. InOrder'
  BY DEF InOrder
<1>5. ToldTrue'
  BY <1>1 DEF StatementInv, ToldTrue
<1>6. LastHandleLives'
  BY <1>1, <1>2 DEF StatementInv, LastHandleLives
<1>7. ParametersOwned'
  BY <1>1 DEF StatementInv, ParametersOwned, Unused
<1>8. NoEphemeralLeak'
  <2>1. ASSUME NEW g \in DOMAIN prepared', prepared'[g].eph
        PROVE  \E d \in Clients : Holding(lane'[d], g)
    <3>1. g \in DOMAIN prepared \ {h} /\ prepared[g].eph
      BY <1>1, <2>1
    <3>2. PICK d \in Clients : Holding(lane[d], g)
      BY <3>1 DEF StatementInv, NoEphemeralLeak, Holding
    <3> QED BY <3>1, <3>2
  <2> QED BY <2>1 DEF NoEphemeralLeak, Holding
<1>9. BoundOnce'
  BY DEF StatementInv, BoundOnce
<1> QED BY <1>3, <1>4, <1>5, <1>6, <1>7, <1>8, <1>9 DEF StatementInv

\* A request takes the parameters of its statement.
LEMMA TakingStep ==
    ASSUME StatementInv, NEW c \in Clients, NEW h \in DOMAIN prepared, h = lane[c].handle,
           prepared' = [prepared EXCEPT ![h].params = None],
           NEW r \in LaneSet(made, Len(binds)), RequestRules(r),
           lane' = [lane EXCEPT ![c] = r],
           r.params = prepared[h].params, r.handle = h,
           \A g \in DOMAIN prepared : Holding(lane[c], g) => Holding(r, g),
           UNCHANGED <<last, made, told, binds>>
    PROVE  StatementInv'
<1>1. /\ lane'[c] = r /\ \A d \in Clients : d # c => lane'[d] = lane[d]
      /\ lane' \in [Clients -> LaneSet(made, Len(binds))]
  BY DEF StatementInv, Shape
<1>2. /\ DOMAIN prepared' = DOMAIN prepared
      /\ \A g \in DOMAIN prepared : g # h => prepared'[g] = prepared[g]
      /\ prepared'[h] = [prepared[h] EXCEPT !.params = None]
  OBVIOUS
<1>3. /\ prepared[h] \in StatementSet(Len(binds)) /\ Len(binds) \in Nat
  BY LenProperties DEF StatementInv, Shape
<1>4. /\ prepared'[h] \in StatementSet(Len(binds)) /\ prepared'[h].params = None
      /\ prepared'[h].sql = prepared[h].sql /\ prepared'[h].eph = prepared[h].eph
  BY <1>2, <1>3 DEF StatementSet, None
<1>5. Shape'
  BY <1>1, <1>2, <1>4 DEF StatementInv, Shape
<1>6. InOrder'
  BY <1>1 DEF StatementInv, InOrder
<1>7. ToldTrue' /\ LastHandleLives' /\ BoundOnce'
  BY <1>2, <1>4 DEF StatementInv, ToldTrue, LastHandleLives, BoundOnce
<1>8. ParametersOwned'
  <2>1. (\A g \in DOMAIN prepared :
           prepared[g].params # None => Unused(prepared[g].params, g))'
    BY <1>2, <1>4 DEF StatementInv, ParametersOwned, Unused
  <2>2. (\A d \in Clients : lane[d].params # None => Unused(lane[d].params, lane[d].handle))'
    BY <1>1 DEF StatementInv, ParametersOwned, Unused
  <2>3. \A d \in Clients : \A g \in DOMAIN prepared' :
          lane'[d].params # None => prepared'[g].params # lane'[d].params
    <3> SUFFICES ASSUME NEW d \in Clients, NEW g \in DOMAIN prepared, lane'[d].params # None,
                        g # h, prepared'[g].params = lane'[d].params
                 PROVE  FALSE
      BY <1>2, <1>4
    <3>1. CASE d = c
      BY <1>1, <1>2, <3>1 DEF StatementInv, ParametersOwned, Unused
    <3>2. CASE d # c
      BY <1>1, <1>2, <3>2 DEF StatementInv, ParametersOwned
    <3> QED BY <3>1, <3>2
  <2>4. \A d, e \in Clients :
          d # e /\ lane'[d].params # None => lane'[e].params # lane'[d].params
    BY <1>1 DEF StatementInv, ParametersOwned
  <2> QED BY <2>1, <2>2, <2>3, <2>4 DEF ParametersOwned
<1>9. NoEphemeralLeak'
  <2>1. ASSUME NEW g \in DOMAIN prepared, prepared'[g].eph
        PROVE  \E d \in Clients : Holding(lane'[d], g)
    <3>1. prepared[g].eph
      BY <1>2, <1>4, <2>1
    <3>2. PICK d \in Clients : Holding(lane[d], g)
      BY <3>1 DEF StatementInv, NoEphemeralLeak, Holding
    <3> QED BY <1>1, <3>2
  <2> QED BY <1>2, <2>1 DEF NoEphemeralLeak, Holding
<1> QED BY <1>5, <1>6, <1>7, <1>8, <1>9 DEF StatementInv

\* A client binds a parameter set to a statement that is there.
LEMMA BindingStep ==
    ASSUME StatementInv, NEW c \in Clients, NEW h \in DOMAIN prepared,
           prepared' = [prepared EXCEPT ![h].params = Len(binds) + 1],
           binds' = Append(binds, [to |-> h, ran |-> <<>>]),
           lane' = [lane EXCEPT ![c] = Idle], lane[c].pc \notin {"meta", "take", "close"},
           UNCHANGED <<last, made, told>>
    PROVE  StatementInv'
<1> DEFINE n == Len(binds) + 1
           b == [to |-> h, ran |-> <<>>]
<1>1. /\ Len(binds) \in Nat /\ made \in Nat /\ h \in Nat
  BY LenProperties, BoundsAssumption DEF StatementInv, Shape
<1>2. /\ binds \in Seq(BindSet) /\ b \in BindSet /\ b.to = h /\ b.ran = <<>>
  BY <1>1, EmptySeq DEF StatementInv, Shape, BindSet
<1> HIDE DEF b
<1>3. /\ binds' \in Seq(BindSet) /\ Len(binds') = n
      /\ \A p \in 1..Len(binds) : binds'[p] = binds[p]
      /\ binds'[n] = b
  BY <1>1, <1>2, AppendProperties DEF b
<1>4. /\ LaneSet(made, Len(binds)) \subseteq LaneSet(made, n)
      /\ StatementSet(Len(binds)) \subseteq StatementSet(n)
      /\ Idle \in LaneSet(made, n) /\ RequestRules(Idle)
      /\ Idle.params = None /\ Idle.pc = "idle"
  BY <1>1, SetsGrow, IdleLane
<1>5. /\ lane'[c] = Idle /\ \A d \in Clients : d # c => lane'[d] = lane[d]
      /\ lane' \in [Clients -> LaneSet(made, n)]
  BY <1>4 DEF StatementInv, Shape
<1>6. /\ DOMAIN prepared' = DOMAIN prepared
      /\ \A g \in DOMAIN prepared : g # h => prepared'[g] = prepared[g]
      /\ prepared'[h] = [prepared[h] EXCEPT !.params = n]
  OBVIOUS
<1>7. /\ prepared'[h] \in StatementSet(n) /\ prepared'[h].params = n
      /\ prepared'[h].sql = prepared[h].sql /\ prepared'[h].eph = prepared[h].eph
  <2>1. prepared[h] \in StatementSet(n) /\ n \in 0..n
    BY <1>1, <1>4 DEF StatementInv, Shape
  <2> HIDE DEF n
  <2> QED BY <1>6, <2>1 DEF StatementSet
<1>8. Shape'
  BY <1>1, <1>3, <1>4, <1>5, <1>6, <1>7 DEF StatementInv, Shape
<1>9. InOrder'
  BY <1>4, <1>5 DEF StatementInv, InOrder
<1>10. ToldTrue' /\ LastHandleLives'
  BY <1>6, <1>7 DEF StatementInv, ToldTrue, LastHandleLives
<1>11. BoundOnce'
  BY <1>1, <1>2, <1>3 DEF StatementInv, BoundOnce
<1>12. \A d \in Clients : lane[d].params \in 0..Len(binds)
  BY DEF StatementInv, Shape, LaneSet
<1>13. \A g \in DOMAIN prepared : prepared[g].params \in 0..Len(binds)
  BY DEF StatementInv, Shape, StatementSet
<1>14. ParametersOwned'
  <2>1. (\A g \in DOMAIN prepared :
           prepared[g].params # None => Unused(prepared[g].params, g))'
    BY <1>1, <1>2, <1>3, <1>6, <1>7, <1>13 DEF StatementInv, ParametersOwned, Unused, None
  <2>2. (\A d \in Clients : lane[d].params # None => Unused(lane[d].params, lane[d].handle))'
    BY <1>1, <1>3, <1>4, <1>5, <1>12 DEF StatementInv, ParametersOwned, Unused, None
  <2>3. \A d \in Clients : \A g \in DOMAIN prepared' :
          lane'[d].params # None => prepared'[g].params # lane'[d].params
    BY <1>1, <1>4, <1>5, <1>6, <1>7, <1>12 DEF StatementInv, ParametersOwned, None
  <2>4. \A d, e \in Clients :
          d # e /\ lane'[d].params # None => lane'[e].params # lane'[d].params
    BY <1>4, <1>5 DEF StatementInv, ParametersOwned
  <2> QED BY <2>1, <2>2, <2>3, <2>4 DEF ParametersOwned
<1>15. NoEphemeralLeak'
  BY <1>5, <1>6, <1>7 DEF StatementInv, NoEphemeralLeak
<1> QED BY <1>8, <1>9, <1>10, <1>11, <1>14, <1>15 DEF StatementInv

\* A new statement has a handle nobody has heard of.
LEMMA RegisteringStep ==
    ASSUME StatementInv, NEW c \in Clients, NEW l \in LaneSet(made, Len(binds)),
           l.sql \in Sqls,
           l.eph => l.cmd = "ticket" /\ l.named = NoSql /\ l.params = None,
           lane[c].pc \notin {"meta", "take", "close"},
           create_prepared_statement(c, l)
    PROVE  StatementInv'
<1> DEFINE n == Len(binds)
           m == [sql |-> l.sql, query |-> l.query, schema |-> l.schema,
                 eph |-> l.eph, params |-> None]
           r == IF l.eph THEN [l EXCEPT !.handle = NextHandle, !.pc = "meta"] ELSE Idle
<1>1. /\ n \in Nat /\ made \in Nat /\ made + 1 \in 0..MaxHandles /\ MaxHandles \in Nat
  BY LenProperties, BoundsAssumption DEF StatementInv, Shape, create_prepared_statement, Register
<1>2. /\ made' = made + 1 /\ last' = made + 1 /\ UNCHANGED binds
      /\ DOMAIN prepared' = DOMAIN prepared \cup {made + 1}
      /\ prepared'[made + 1] = m
      /\ \A h \in DOMAIN prepared : h # made + 1 => prepared'[h] = prepared[h]
  BY DEF create_prepared_statement, Register, NextHandle
<1>3. /\ made + 1 \notin DOMAIN prepared
      /\ \A t \in told : t[1] \in 1..made /\ t[2] \in Sqls
  BY <1>1 DEF StatementInv, Shape
<1>4. told' = IF l.eph THEN told ELSE told \cup {<<made + 1, l.sql>>}
  BY DEF create_prepared_statement, NextHandle
<1>5. /\ m \in StatementSet(n) /\ m.sql = l.sql /\ m.eph = l.eph /\ m.params = None
  BY <1>1 DEF StatementSet, LaneSet, None
<1>6. /\ LaneSet(made, n) \subseteq LaneSet(made + 1, n)
      /\ Idle \in LaneSet(made + 1, n) /\ RequestRules(Idle)
      /\ Idle.params = None
  BY <1>1, SetsGrow, IdleLane
<1>7. /\ r \in LaneSet(made + 1, n) /\ r.params = None /\ RequestRules(r)
      /\ lane' = [lane EXCEPT ![c] = r]
      /\ l.eph => Holding(r, made + 1)
  <2>1. CASE l.eph
    <3>1. l \in LaneSet(made + 1, n) /\ made + 1 \in 0..(made + 1)
      BY <1>1, <1>6
    <3>2. r = [l EXCEPT !.handle = made + 1, !.pc = "meta"]
      BY <2>1 DEF NextHandle
    <3>3. lane' = [lane EXCEPT ![c] = r]
      BY <2>1 DEF create_prepared_statement, Goto
    <3> HIDE DEF r, n
    <3>4. /\ r \in LaneSet(made + 1, n) /\ r.pc = "meta" /\ r.handle = made + 1
          /\ r.eph = l.eph /\ r.params = l.params /\ r.cmd = l.cmd /\ r.named = l.named
      BY <3>1, <3>2 DEF LaneSet, Pcs
    <3> QED BY <2>1, <3>3, <3>4 DEF RequestRules, Holding
  <2>2. CASE ~l.eph
    BY <1>6, <2>2 DEF create_prepared_statement, Answer
  <2> QED BY <2>1, <2>2
<1> HIDE DEF n, m, r
<1>8. /\ lane'[c] = r /\ \A d \in Clients : d # c => lane'[d] = lane[d]
      /\ lane \in [Clients -> LaneSet(made, n)]
      /\ lane' \in [Clients -> LaneSet(made + 1, n)]
  BY <1>6, <1>7 DEF StatementInv, Shape, n
<1>9. Shape'
  <2>1. \A h \in DOMAIN prepared' : prepared'[h] \in StatementSet(n)
    BY <1>2, <1>3, <1>5 DEF StatementInv, Shape, n
  <2>2. told' \subseteq (1..made') \X Sqls
    BY <1>1, <1>2, <1>3, <1>4 DEF StatementInv, Shape
  <2>3. DOMAIN prepared' \subseteq 1..made'
    BY <1>1, <1>2 DEF StatementInv, Shape
  <2> QED BY <1>1, <1>2, <1>8, <2>1, <2>2, <2>3 DEF StatementInv, Shape, n
<1>10. InOrder'
  BY <1>7, <1>8 DEF StatementInv, InOrder
<1>11. ToldTrue'
  <2> SUFFICES ASSUME NEW t \in told', t[1] \in DOMAIN prepared'
               PROVE  prepared'[t[1]].sql = t[2]
    BY DEF ToldTrue
  <2>1. CASE t \in told
    BY <1>1, <1>2, <1>3, <2>1 DEF StatementInv, ToldTrue
  <2>2. CASE t = <<made + 1, l.sql>>
    BY <1>2, <1>5, <2>2
  <2> QED BY <1>4, <2>1, <2>2
<1>12. LastHandleLives' /\ BoundOnce'
  BY <1>2 DEF StatementInv, LastHandleLives, BoundOnce
<1>13. ParametersOwned'
  BY <1>2, <1>3, <1>5, <1>7, <1>8 DEF StatementInv, ParametersOwned, Unused
<1>14. NoEphemeralLeak'
  <2>1. ASSUME NEW h \in DOMAIN prepared', prepared'[h].eph
        PROVE  \E d \in Clients : Holding(lane'[d], h)
    <3>1. CASE h = made + 1
      BY <1>2, <1>5, <1>7, <1>8, <2>1, <3>1
    <3>2. CASE h # made + 1
      <4>1. h \in DOMAIN prepared /\ prepared[h].eph
        BY <1>2, <2>1, <3>2
      <4>2. PICK d \in Clients : Holding(lane[d], h)
        BY <4>1 DEF StatementInv, NoEphemeralLeak, Holding
      <4> QED BY <1>8, <4>2 DEF Holding
    <3> QED BY <3>1, <3>2
  <2> QED BY <2>1 DEF NoEphemeralLeak, Holding
<1> QED BY <1>9, <1>10, <1>11, <1>12, <1>13, <1>14 DEF StatementInv

-----------------------------------------------------------------------------
\* A request that client c begins or goes on with, having taken no parameters but
\* those it has.
Carried(c, l) == /\ l \in LaneSet(made, Len(binds))
                 /\ l.params # None => l.params = lane[c].params /\ l.handle = lane[c].handle
Ready(c, l) == Carried(c, l) /\ RequestRules(l)

\* The requests in progress are ready.
LEMMA LaneReady == ASSUME StatementInv, NEW c \in Clients PROVE Ready(c, lane[c])
BY DEF StatementInv, Shape, InOrder, Ready, Carried

\* The numbers of handles and parameter sets are naturals.
LEMMA Counts == ASSUME StatementInv PROVE made \in Nat /\ Len(binds) \in Nat
BY LenProperties, BoundsAssumption DEF StatementInv, Shape

\* The cache and the catalog stay, and no request leaves the step before a clearing.
LEMMA CacheKept ==
    ASSUME CacheInv, NEW c \in Clients, lane[c].pc # "clear",
           \A d \in Clients : d # c => lane'[d] = lane[d],
           UNCHANGED <<entries, catalog, silent>>
    PROVE  CacheInv'
BY DEF CacheInv, FreshUnlessOverlapped, At

\* A request goes to another step, or is answered; the statements stay.
LEMMA GoingStep ==
    ASSUME StatementInv, NEW c \in Clients, NEW l, Carried(c, l), NEW p \in Pcs,
           RequestRules([l EXCEPT !.pc = p]), Goto(c, l, p),
           UNCHANGED <<StatementVars, GhostVars>>,
           \A h \in DOMAIN prepared :
              prepared[h].eph /\ Holding(lane[c], h) => Holding([l EXCEPT !.pc = p], h)
    PROVE  StatementInv'
<1> DEFINE r == [l EXCEPT !.pc = p]
<1>1. r \in LaneSet(made, Len(binds)) /\ r.params = l.params /\ r.handle = l.handle
  BY Counts, AtPc DEF Carried
<1>2. lane' = [lane EXCEPT ![c] = r] /\ UNCHANGED <<prepared, last, made, told, binds>>
  BY DEF Goto, StatementVars, GhostVars
<1>3. \A h \in DOMAIN prepared : prepared'[h] \in StatementSet(Len(binds))
  BY <1>2 DEF StatementInv, Shape
<1>4. r.params # None => r.params = lane[c].params /\ r.handle = lane[c].handle
  BY <1>1 DEF Carried
<1>5. RequestRules(r) /\ \A h \in DOMAIN prepared :
                            prepared[h].eph /\ Holding(lane[c], h) => Holding(r, h)
  OBVIOUS
<1> HIDE DEF r
<1> QED BY <1>1, <1>2, <1>3, <1>4, <1>5, QuietStep

\* A request is answered that has no ephemeral statement; the statements stay.
LEMMA AnsweringStep ==
    ASSUME StatementInv, NEW c \in Clients, Answer(c),
           UNCHANGED <<StatementVars, GhostVars>>,
           \A h \in DOMAIN prepared : prepared[h].eph => ~Holding(lane[c], h)
    PROVE  StatementInv'
<1>1. Idle \in LaneSet(made, Len(binds)) /\ RequestRules(Idle) /\ Idle.params = None
  BY Counts, IdleLane
<1>2. lane' = [lane EXCEPT ![c] = Idle] /\ UNCHANGED <<prepared, last, made, told, binds>>
  BY DEF Answer, StatementVars, GhostVars
<1>3. \A h \in DOMAIN prepared : prepared'[h] \in StatementSet(Len(binds))
  BY <1>2 DEF StatementInv, Shape
<1> QED BY <1>1, <1>2, <1>3, QuietStep

\* A step of c changes no other request.
LEMMA OthersStay ==
    ASSUME StatementInv, NEW c \in Clients, NEW l, NEW p, Goto(c, l, p) \/ Answer(c)
    PROVE  \A d \in Clients : d # c => lane'[d] = lane[d]
BY DEF Goto, Answer, StatementInv, Shape

\* A request for a plan, for its registration or its answer, has what it needs.
LEMMA PlannedStep ==
    ASSUME StatementInv, NEW c \in Clients, NEW l, Ready(c, l), NEW schema \in Schemas,
           l.sql \in Sqls, l.cmd \in {"create", "flight info", "info"},
           lane[c].pc \notin {"meta", "take", "close"}, Planned(c, l, schema),
           UNCHANGED <<StatementVars, GhostVars>>
    PROVE  StatementInv' /\ \A d \in Clients : d # c => lane'[d] = lane[d]
<1>1. \A h : ~Holding(lane[c], h)
  BY DEF Holding
<1>2. CASE l.cmd = "info"
  <2>1. Answer(c)
    BY <1>2 DEF Planned, AfterSchema
  <2> QED BY <1>1, <2>1, AnsweringStep, OthersStay
<1>3. CASE l.cmd # "info"
  <2> DEFINE k == [l EXCEPT !.schema = schema]
             p == AfterSchema(l.cmd)
             r == [k EXCEPT !.pc = p]
  <2>1. p = (IF l.cmd = "create" THEN "register" ELSE "remember") /\ p \in Pcs /\ p # "done"
    BY <1>3 DEF AfterSchema, Pcs
  <2>2. Goto(c, k, p)
    BY <2>1 DEF Planned
  <2>3. /\ k \in LaneSet(made, Len(binds)) /\ k.sql = l.sql /\ k.named = l.named
        /\ k.cmd = l.cmd /\ k.eph = l.eph /\ k.params = l.params /\ k.handle = l.handle
        /\ k.pc = l.pc
    BY DEF LaneSet, Ready, Carried
  <2> HIDE DEF p, k
  <2>4. Ready(c, k)
    BY <2>3 DEF Ready, Carried, RequestRules
  <2>5. /\ r.pc = p /\ r.sql = k.sql /\ r.named = k.named /\ r.cmd = k.cmd /\ r.eph = k.eph
    BY <2>1, <2>3 DEF LaneSet
  <2>6. RequestRules(r)
    <3> HIDE DEF r
    <3>1. RequestRules(l) /\ (r.pc = "register" => r.cmd = "create")
      BY <2>1, <2>3, <2>5 DEF Ready, Carried
    <3>2. r.pc \in {"register", "remember"} /\ r.sql \in Sqls
      BY <2>1, <2>3, <2>5
    <3>3. r.sql = l.sql /\ r.named = l.named /\ r.cmd = l.cmd /\ r.eph = l.eph
      BY <2>3, <2>5
    <3> QED BY <3>1, <3>2, <3>3 DEF RequestRules
  <2> QED BY <1>1, <2>1, <2>2, <2>4, <2>6, GoingStep, OthersStay DEF Ready
<1> QED BY <1>2, <1>3

\* The cache is read.
LEMMA LookupStep ==
    ASSUME IInv, NEW c \in Clients, NEW l, Ready(c, l), l.sql \in Sqls,
           l.cmd \in {"create", "flight info", "info"},
           lane[c].pc \notin {"meta", "take", "close", "clear"}, schema_cache_get(c, l)
    PROVE  IInv'
<1>1. /\ StatementInv /\ CacheInv
      /\ UNCHANGED <<StatementVars, GhostVars>> /\ UNCHANGED <<entries, catalog, silent>>
  BY DEF IInv, schema_cache_get
<1>2. CASE l.sql \in DOMAIN entries
  <2>1. Planned(c, l, entries[l.sql].schema) /\ entries[l.sql].schema \in Schemas
    BY <1>1, <1>2 DEF schema_cache_get, CacheInv
  <2>2. StatementInv' /\ \A d \in Clients : d # c => lane'[d] = lane[d]
    BY <1>1, <2>1, PlannedStep
  <2> QED BY <1>1, <2>2, CacheKept DEF IInv
<1>3. CASE l.sql \notin DOMAIN entries
  <2>1. Goto(c, l, "plan") /\ "plan" \in Pcs
    BY <1>3 DEF schema_cache_get, Pcs
  <2>2. RequestRules([l EXCEPT !.pc = "plan"])
    <3> DEFINE r == [l EXCEPT !.pc = "plan"]
    <3>1. /\ r.pc = "plan" /\ r.sql = l.sql /\ r.named = l.named /\ r.cmd = l.cmd
          /\ r.eph = l.eph /\ RequestRules(l)
      BY DEF LaneSet, Ready, Carried
    <3> HIDE DEF r
    <3>2. RequestRules(r)
      BY <3>1 DEF RequestRules
    <3> QED BY <3>2 DEF r
  <2>3. \A h : ~Holding(lane[c], h)
    BY DEF Holding
  <2>4. StatementInv'
    BY <1>1, <2>1, <2>2, <2>3, GoingStep DEF Ready
  <2>5. \A d \in Clients : d # c => lane'[d] = lane[d]
    BY <1>1, <2>1, OthersStay
  <2> QED BY <1>1, <2>4, <2>5, CacheKept DEF IInv
<1> QED BY <1>2, <1>3

\* The plan is made at the catalog's version.
LEMMA PlanStep ==
    ASSUME IInv, NEW c \in Clients, schema_for_query(c)
    PROVE  IInv'
<1> DEFINE l == [lane[c] EXCEPT !.schema = catalog + 1]
           r == [l EXCEPT !.pc = "insert"]
<1>1. /\ StatementInv /\ CacheInv /\ lane[c].pc = "plan" /\ Ready(c, lane[c])
      /\ UNCHANGED <<StatementVars, GhostVars>> /\ UNCHANGED <<entries, catalog, silent>>
      /\ Goto(c, l, "insert") /\ "insert" \in Pcs
  BY LaneReady DEF IInv, schema_for_query, At, Pcs, CacheVars
<1>2. catalog + 1 \in Schemas
  BY <1>1, BoundsAssumption DEF CacheInv, Schemas
<1>3. /\ l \in LaneSet(made, Len(binds)) /\ r.pc = "insert" /\ l.pc = "plan"
      /\ l.sql = lane[c].sql /\ l.named = lane[c].named /\ l.cmd = lane[c].cmd
      /\ l.eph = lane[c].eph /\ l.params = lane[c].params /\ l.handle = lane[c].handle
      /\ r.sql = l.sql /\ r.named = l.named /\ r.cmd = l.cmd /\ r.eph = l.eph
  BY <1>1, <1>2 DEF LaneSet, Ready, Carried
<1>4. Ready(c, l) /\ RequestRules(r)
  <2> HIDE DEF l, r
  <2> QED BY <1>1, <1>3 DEF Ready, Carried, RequestRules
<1>5. \A h : ~Holding(lane[c], h)
  BY <1>1 DEF Holding
<1>6. StatementInv'
  <2> HIDE DEF l
  <2> QED BY <1>1, <1>4, <1>5, GoingStep DEF Ready
<1>7. \A d \in Clients : d # c => lane'[d] = lane[d]
  BY <1>1, OthersStay
<1> QED BY <1>1, <1>6, <1>7, CacheKept DEF IInv

\* An entry of the cache that is marked unless its schema is v.
LEMMA NewEntry ==
    ASSUME NEW S, NEW s \in S, NEW v, NEW e, e = [schema |-> s, late |-> s # v]
    PROVE  e \in [schema : S, late : BOOLEAN] /\ e.schema = s /\ (e.late \/ s = v)
<1>1. e \in [schema : S, late : BOOLEAN] /\ e.schema = s
  OBVIOUS
<1>2. e.late = (s # v)
  OBVIOUS
<1>3. e.late \/ s = v
  BY <1>2, Zenon
<1> QED BY <1>1, <1>3

\* A schema that is put into the cache is marked late unless it is that of now.
LEMMA InsertStep ==
    ASSUME IInv, NEW c \in Clients, schema_cache_insert(c)
    PROVE  IInv'
<1> DEFINE key == lane[c].sql
           schema == lane[c].schema
<1>1. /\ StatementInv /\ CacheInv /\ lane[c].pc = "insert" /\ Ready(c, lane[c])
      /\ UNCHANGED <<StatementVars, GhostVars>> /\ UNCHANGED <<catalog, silent>>
      /\ Planned(c, lane[c], schema) /\ Cache(key, schema)
  BY LaneReady DEF IInv, schema_cache_insert, At
<1>2. key \in Sqls /\ schema \in Schemas /\ lane[c].cmd \in {"create", "flight info", "info"}
  BY <1>1 DEF Ready, Carried, RequestRules, LaneSet
<1>3. StatementInv' /\ \A d \in Clients : d # c => lane'[d] = lane[d]
  BY <1>1, <1>2, PlannedStep
<1> HIDE DEF key, schema
<1>4. PICK gone : entries' = [k \in (DOMAIN entries \cup {key}) \ gone |->
                                IF k = key
                                THEN [schema |-> schema, late |-> schema # catalog + 1]
                                ELSE entries[k]]
  BY <1>1 DEF Cache
<1>5. /\ DOMAIN entries' = (DOMAIN entries \cup {key}) \ gone
      /\ \A k \in DOMAIN entries' :
            entries'[k] = IF k = key
                          THEN [schema |-> schema, late |-> schema # catalog + 1]
                          ELSE entries[k]
  BY <1>4
<1>6. \A k \in DOMAIN entries' :
         /\ k \in Sqls
         /\ entries'[k] \in [schema : Schemas, late : BOOLEAN]
         /\ k = key => entries'[k].late \/ entries'[k].schema = catalog + 1
         /\ k # key => k \in DOMAIN entries /\ entries'[k] = entries[k]
  <2>1. ASSUME NEW k \in DOMAIN entries', k = key
        PROVE  /\ k \in Sqls /\ entries'[k] \in [schema : Schemas, late : BOOLEAN]
               /\ entries'[k].late \/ entries'[k].schema = catalog + 1
    <3> DEFINE e == entries'[k]
               v == catalog + 1
    <3>1. e = [schema |-> schema, late |-> schema # v]
      BY <1>5, <2>1
    <3> HIDE DEF e, v
    <3>2. e \in [schema : Schemas, late : BOOLEAN] /\ e.schema = schema /\ (e.late \/ schema = v)
      BY <1>2, <3>1, NewEntry
    <3> QED BY <1>2, <2>1, <3>2 DEF e, v
  <2>2. ASSUME NEW k \in DOMAIN entries', k # key
        PROVE  /\ k \in Sqls /\ entries'[k] \in [schema : Schemas, late : BOOLEAN]
               /\ k \in DOMAIN entries /\ entries'[k] = entries[k]
    BY <1>1, <1>5, <2>2 DEF CacheInv
  <2>3. ASSUME NEW k \in DOMAIN entries'
        PROVE  /\ k \in Sqls /\ entries'[k] \in [schema : Schemas, late : BOOLEAN]
               /\ k = key => entries'[k].late \/ entries'[k].schema = catalog + 1
               /\ k # key => k \in DOMAIN entries /\ entries'[k] = entries[k]
    <3>1. CASE k = key
      BY <2>1, <3>1
    <3>2. CASE k # key
      BY <2>2, <3>2
    <3> QED BY <3>1, <3>2
  <2> QED BY <2>3
<1>7. FreshUnlessOverlapped'
  BY <1>1, <1>3, <1>6 DEF CacheInv, FreshUnlessOverlapped, At
<1> QED BY <1>1, <1>3, <1>6, <1>7 DEF CacheInv, IInv

\* A schema is kept with the statement.
LEMMA RememberStep ==
    ASSUME IInv, NEW c \in Clients, cache_prepared_statement_schema(c)
    PROVE  IInv'
<1> DEFINE h == lane[c].handle
<1>1. /\ StatementInv /\ CacheInv /\ lane[c].pc = "remember" /\ Ready(c, lane[c])
      /\ UNCHANGED <<last, made, told, binds>> /\ UNCHANGED <<entries, catalog, silent>>
      /\ lane' = [lane EXCEPT ![c] = Idle]
      /\ prepared' = IF h \in DOMAIN prepared
                     THEN [prepared EXCEPT ![h].schema = lane[c].schema] ELSE prepared
  BY LaneReady DEF IInv, cache_prepared_statement_schema, At, Answer, CacheVars, GhostVars
<1>2. Idle \in LaneSet(made, Len(binds)) /\ RequestRules(Idle) /\ Idle.params = None
  BY <1>1, Counts, IdleLane
<1>3. /\ lane[c].schema \in Schemas
      /\ \A g \in DOMAIN prepared : prepared[g] \in StatementSet(Len(binds))
  BY <1>1 DEF Ready, Carried, LaneSet, StatementInv, Shape
<1> HIDE DEF h
<1>4. /\ DOMAIN prepared' = DOMAIN prepared
      /\ \A g \in DOMAIN prepared :
            prepared'[g] = IF g = h THEN [prepared[g] EXCEPT !.schema = lane[c].schema]
                           ELSE prepared[g]
  BY <1>1
<1>5. \A g \in DOMAIN prepared :
         /\ prepared'[g] \in StatementSet(Len(binds))
         /\ prepared'[g].sql = prepared[g].sql /\ prepared'[g].eph = prepared[g].eph
         /\ prepared'[g].params = prepared[g].params
  BY <1>3, <1>4 DEF StatementSet
<1>6. \A g : ~Holding(lane[c], g)
  BY <1>1 DEF Holding
<1>7. StatementInv'
  BY <1>1, <1>2, <1>4, <1>5, <1>6, QuietStep
<1>8. \A d \in Clients : d # c => lane'[d] = lane[d]
  BY <1>1 DEF StatementInv, Shape
<1> QED BY <1>1, <1>7, <1>8, CacheKept DEF IInv

\* An execution that changes the catalog clears the cache next, or was silent.
LEMMA EffectStep ==
    ASSUME CacheInv, NEW c \in Clients, NEW s, NEW clears \in BOOLEAN, Effect(s, clears),
           lane[c].pc # "clear", clears => lane'[c].pc = "clear",
           \A d \in Clients : d # c => lane'[d] = lane[d],
           UNCHANGED entries
    PROVE  CacheInv'
<1>1. CASE s \in Changing
  <2>1. catalog' \in 0..MaxChanges /\ silent' \in BOOLEAN /\ silent' = (silent \/ ~clears)
    BY <1>1, BoundsAssumption DEF CacheInv, Effect
  <2>2. FreshUnlessOverlapped'
    BY <2>1 DEF FreshUnlessOverlapped, At
  <2> QED BY <2>1, <2>2 DEF CacheInv
<1>2. CASE s \notin Changing
  BY <1>2, CacheKept DEF Effect
<1> QED BY <1>1, <1>2

\* A text is executed, or DuckDB refuses it.
LEMMA ExecuteStep ==
    ASSUME IInv, NEW c \in Clients, NEW l, Ready(c, l),
           lane[c].pc \notin {"meta", "take", "close", "clear"}, Execute(c, l)
    PROVE  IInv'
<1>1. /\ StatementInv /\ CacheInv /\ made \in Nat /\ Len(binds) \in Nat
      /\ UNCHANGED <<prepared, last, made, told>> /\ UNCHANGED entries
      /\ binds' = Consumed(l)
  BY Counts DEF IInv, Execute, execute_query_streaming, execute_statement, execution_fails,
                StatementVars, CacheVars
<1>2. ASSUME Answer(c) PROVE StatementInv' /\ \A d \in Clients : d # c => lane'[d] = lane[d]
  <2>1. Idle \in LaneSet(made, Len(binds)) /\ RequestRules(Idle) /\ Idle.params = None
    BY <1>1, IdleLane
  <2>2. lane' = [lane EXCEPT ![c] = Idle]
    BY <1>2 DEF Answer
  <2>3. StatementInv'
    BY <1>1, <2>1, <2>2, ConsumingStep DEF Ready, Carried
  <2> QED BY <1>1, <1>2, <2>3, OthersStay
<1>3. CASE execute_query_streaming(c, l)
  <2>1. Answer(c) /\ Effect(l.sql, FALSE)
    BY <1>3 DEF execute_query_streaming
  <2> QED BY <1>1, <1>2, <2>1, EffectStep DEF IInv
<1>4. CASE execution_fails(c, l)
  <2>1. Answer(c)
    BY <1>4 DEF execution_fails
  <2>2. UNCHANGED <<catalog, silent>> \/ Effect(l.sql, FALSE)
    BY <1>4 DEF execution_fails
  <2> QED BY <1>1, <1>2, <2>1, <2>2, EffectStep, CacheKept DEF IInv
<1>5. CASE execute_statement(c, l)
  <2> DEFINE more == l.sets > 1
             rest == [l EXCEPT !.params = None, !.sets = IF more THEN @ - 1 ELSE 0]
  <2>1. /\ Effect(l.sql, l.sql \in Prefixed) /\ (l.sql \in Prefixed) \in BOOLEAN
        /\ IF l.sql \in Prefixed THEN Goto(c, rest, "clear")
           ELSE IF more THEN Goto(c, rest, "run") ELSE Answer(c)
    BY <1>5 DEF execute_statement, should_invalidate_schema_cache
  <2>2. ASSUME NEW p \in {"clear", "run"}, Goto(c, rest, p)
        PROVE  /\ StatementInv' /\ lane'[c].pc = p
               /\ \A d \in Clients : d # c => lane'[d] = lane[d]
    <3> DEFINE r == [rest EXCEPT !.pc = p]
    <3>1. l \in LaneSet(made, Len(binds)) /\ RequestRules(l) /\ p \in Pcs
      BY DEF Ready, Carried, Pcs
    <3> DEFINE t == IF more THEN l.sets - 1 ELSE 0
    <3>2. t \in 0..MaxSets /\ rest = [l EXCEPT !.params = None, !.sets = t]
      BY <3>1, BoundsAssumption DEF LaneSet
    <3> HIDE DEF t, rest
    <3>3. /\ rest \in LaneSet(made, Len(binds)) /\ rest.params = None /\ rest.named = l.named
          /\ rest.sql = l.sql /\ rest.eph = l.eph /\ rest.cmd = l.cmd
      <4>1. None \in 0..Len(binds)
        BY <1>1 DEF None
      <4> QED BY <3>1, <3>2, <4>1 DEF LaneSet
    <3>4. /\ r \in LaneSet(made, Len(binds)) /\ r.params = None /\ r.named = l.named
          /\ r.sql = l.sql /\ r.eph = l.eph /\ r.cmd = l.cmd /\ r.pc = p
      BY <3>1, <3>3 DEF LaneSet
    <3>5. lane' = [lane EXCEPT ![c] = r]
      BY <2>2 DEF Goto
    <3> HIDE DEF r
    <3>6. RequestRules(r)
      BY <3>1, <3>4 DEF RequestRules
    <3>7. StatementInv'
      BY <1>1, <3>4, <3>5, <3>6, ConsumingStep DEF Ready, Carried
    <3>8. lane'[c] = r
      BY <1>1, <3>5 DEF StatementInv, Shape
    <3> QED BY <1>1, <2>2, <3>4, <3>7, <3>8, OthersStay
  <2> HIDE DEF rest, more
  <2>3. CASE l.sql \in Prefixed
    <3>1. /\ StatementInv' /\ lane'[c].pc = "clear"
          /\ \A d \in Clients : d # c => lane'[d] = lane[d]
      BY <2>1, <2>2, <2>3
    <3> QED BY <1>1, <2>1, <2>3, <3>1, EffectStep DEF IInv
  <2>4. CASE l.sql \notin Prefixed
    <3>1. StatementInv' /\ \A d \in Clients : d # c => lane'[d] = lane[d]
      BY <1>2, <2>1, <2>2, <2>4
    <3> QED BY <1>1, <2>1, <2>4, <3>1, EffectStep DEF IInv
  <2> QED BY <2>3, <2>4
<1> QED BY <1>3, <1>4, <1>5 DEF Execute

\* The cache is emptied after an execution.
LEMMA ClearStep ==
    ASSUME IInv, NEW c \in Clients, clear_schema_cache(c)
    PROVE  IInv'
<1>1. /\ StatementInv /\ CacheInv /\ lane[c].pc = "clear" /\ Ready(c, lane[c])
      /\ UNCHANGED <<StatementVars, GhostVars>> /\ UNCHANGED <<catalog, silent>>
      /\ (Answer(c) \/ Goto(c, lane[c], "run"))
      /\ entries' = <<>> /\ "run" \in Pcs
  BY LaneReady DEF IInv, clear_schema_cache, At, Pcs
<1>2. \A h : ~Holding(lane[c], h)
  BY <1>1 DEF Holding
<1>3. RequestRules([lane[c] EXCEPT !.pc = "run"])
  BY <1>1 DEF Ready, Carried, RequestRules, LaneSet
<1>4. StatementInv'
  BY <1>1, <1>2, <1>3, GoingStep, AnsweringStep DEF Ready
<1>5. DOMAIN entries' = {}
  BY <1>1
<1> QED BY <1>1, <1>4, <1>5 DEF CacheInv, FreshUnlessOverlapped, IInv

\* An append and a failure answer the request.
LEMMA EndStep ==
    ASSUME IInv, NEW c \in Clients, insert_with_appender(c) \/ Fail(c)
    PROVE  IInv'
<1>1. /\ StatementInv /\ CacheInv /\ lane[c].pc \in {"plan", "register", "append"} /\ Answer(c)
      /\ UNCHANGED <<StatementVars, GhostVars>> /\ UNCHANGED <<entries, catalog, silent>>
  BY DEF IInv, insert_with_appender, Fail, At, CacheVars
<1>2. \A h : ~Holding(lane[c], h)
  BY <1>1 DEF Holding
<1>3. StatementInv' /\ \A d \in Clients : d # c => lane'[d] = lane[d]
  BY <1>1, <1>2, AnsweringStep, OthersStay
<1> QED BY <1>1, <1>3, CacheKept DEF IInv

\* A request finds its statement, or that there is none.
LEMMA MetaStep ==
    ASSUME IInv, NEW c \in Clients, NEW l, Carried(c, l),
           \/ l = lane[c] /\ l.pc = "meta"
           \/ l.pc = "idle" /\ lane[c].pc = "idle" /\ ~l.eph /\ l.cmd \in HandleCommands,
           l.named # NoSql => <<l.handle, l.named>> \in told,
           get_prepared_statement_meta(c, l)
    PROVE  IInv'
<1>1. /\ StatementInv /\ CacheInv /\ lane[c].pc # "clear"
      /\ UNCHANGED <<StatementVars, GhostVars>> /\ UNCHANGED <<entries, catalog, silent>>
  BY DEF IInv, get_prepared_statement_meta, CacheVars
<1>2. \A h : Holding(lane[c], h) => l.cmd = "ticket" /\ l.handle = h
  BY <1>1, LaneReady DEF Holding, Ready, RequestRules
<1>3. l.cmd \in HandleCommands \cup {"ticket"} /\ l.cmd # "create"
  BY <1>1, LaneReady DEF Ready, RequestRules, HandleCommands
<1>4. ASSUME Answer(c), \A h \in DOMAIN prepared : prepared[h].eph => ~Holding(lane[c], h)
      PROVE  IInv'
  <2>1. StatementInv' /\ \A d \in Clients : d # c => lane'[d] = lane[d]
    BY <1>1, <1>4, AnsweringStep, OthersStay
  <2> QED BY <1>1, <2>1, CacheKept DEF IInv
<1>5. CASE l.handle \notin DOMAIN prepared
  <2>1. Answer(c)
    BY <1>5 DEF get_prepared_statement_meta
  <2>2. \A h \in DOMAIN prepared : ~Holding(lane[c], h)
    BY <1>2, <1>5
  <2> QED BY <1>4, <2>1, <2>2
<1>6. CASE l.handle \in DOMAIN prepared
  <2> DEFINE m == prepared[l.handle]
  <2>1. PICK pc \in AfterMeta(l.cmd, m) :
           IF pc = "done" THEN Answer(c)
           ELSE \E n \in IF pc = "run" THEN 0..MaxSets ELSE {0} :
                  Goto(c, [l EXCEPT !.sql = m.sql, !.query = m.query,
                                    !.eph = m.eph, !.sets = n], pc)
    BY <1>6 DEF get_prepared_statement_meta
  <2>2. m \in StatementSet(Len(binds)) /\ made \in Nat /\ Len(binds) \in Nat
    BY <1>1, <1>6, Counts DEF StatementInv, Shape
  <2>3. /\ pc \in {"take", "lookup", "done", "bind", "run", "append"}
        /\ l.cmd = "ticket" => pc = "take"
        /\ pc = "lookup" => l.cmd = "flight info"
    BY <1>3, <2>1 DEF AfterMeta, HandleCommands
  <2>4. CASE pc = "done"
    BY <1>2, <1>4, <2>1, <2>3, <2>4
  <2>5. CASE pc # "done"
    <3>1. PICK n \in 0..MaxSets :
              Goto(c, [l EXCEPT !.sql = m.sql, !.query = m.query, !.eph = m.eph, !.sets = n], pc)
      <4>1. (IF pc = "run" THEN 0..MaxSets ELSE {0}) \subseteq 0..MaxSets
        BY BoundsAssumption
      <4>2. \E n \in IF pc = "run" THEN 0..MaxSets ELSE {0} :
              Goto(c, [l EXCEPT !.sql = m.sql, !.query = m.query, !.eph = m.eph, !.sets = n], pc)
        BY <2>1, <2>5
      <4> HIDE DEF m
      <4> QED BY <4>1, <4>2
    <3> DEFINE k == [l EXCEPT !.sql = m.sql, !.query = m.query, !.eph = m.eph, !.sets = n]
               r == [k EXCEPT !.pc = pc]
    <3>2. /\ pc \in Pcs /\ m.sql \in Sqls /\ l \in LaneSet(made, Len(binds))
          /\ m.query \in BOOLEAN /\ m.eph \in BOOLEAN
      BY <2>2, <2>3, <2>5 DEF Pcs, StatementSet, Carried
    <3>3. l.named # NoSql => m.sql = l.named
      BY <1>1, <1>6 DEF StatementInv, ToldTrue
    <3>4. \A h \in DOMAIN prepared :
             prepared[h].eph /\ Holding(lane[c], h) => m.eph /\ l.cmd = "ticket" /\ l.handle = h
      BY <1>2
    <3> HIDE DEF m
    <3>5. /\ k \in LaneSet(made, Len(binds)) /\ k.params = l.params /\ k.handle = l.handle
          /\ k.sql = m.sql /\ k.eph = m.eph /\ k.cmd = l.cmd /\ k.named = l.named
      BY <2>2, <3>2 DEF LaneSet
    <3>6. Goto(c, k, pc)
      BY <3>1
    <3> HIDE DEF k
    <3>7. /\ r.pc = pc /\ r.handle = l.handle /\ r.sql = m.sql /\ r.eph = m.eph
          /\ r.cmd = l.cmd /\ r.named = l.named
      BY <3>2, <3>5 DEF LaneSet
    <3>8. Carried(c, k)
      BY <3>5 DEF Carried
    <3>9. /\ RequestRules(r)
          /\ \A h \in DOMAIN prepared : prepared[h].eph /\ Holding(lane[c], h) => Holding(r, h)
      <4> HIDE DEF r
      <4>1. RequestRules(r)
        BY <1>3, <2>3, <2>5, <3>2, <3>3, <3>7 DEF RequestRules
      <4>2. \A h \in DOMAIN prepared : prepared[h].eph /\ Holding(lane[c], h) => Holding(r, h)
        BY <2>3, <3>4, <3>7 DEF Holding
      <4> QED BY <4>1, <4>2
    <3>10. StatementInv' /\ \A d \in Clients : d # c => lane'[d] = lane[d]
      BY <1>1, <3>2, <3>6, <3>8, <3>9, GoingStep, OthersStay
    <3> QED BY <1>1, <3>10, CacheKept DEF IInv
  <2> QED BY <2>4, <2>5
<1> QED BY <1>5, <1>6

\* Parameters are bound to the statement, when it is still there.
LEMMA BindStep ==
    ASSUME IInv, NEW c \in Clients, set_prepared_statement_parameters(c)
    PROVE  IInv'
<1>1. /\ StatementInv /\ CacheInv /\ lane[c].pc = "bind" /\ Answer(c)
      /\ UNCHANGED <<entries, catalog, silent>> /\ UNCHANGED <<last, made, told>>
  BY DEF IInv, set_prepared_statement_parameters, At, CacheVars
<1>2. \A h : ~Holding(lane[c], h)
  BY <1>1 DEF Holding
<1>3. StatementInv'
  <2>1. CASE lane[c].handle \in DOMAIN prepared
    BY <1>1, <2>1, BindingStep DEF set_prepared_statement_parameters, Answer
  <2>2. CASE lane[c].handle \notin DOMAIN prepared
    <3>1. UNCHANGED <<StatementVars, GhostVars>>
      BY <1>1, <2>2 DEF set_prepared_statement_parameters, StatementVars, GhostVars
    <3> QED BY <1>1, <1>2, <3>1, AnsweringStep
  <2> QED BY <2>1, <2>2
<1>4. \A d \in Clients : d # c => lane'[d] = lane[d]
  BY <1>1, OthersStay
<1> QED BY <1>1, <1>3, <1>4, CacheKept DEF IInv

\* A request takes its statement's parameters, when it is still there.
LEMMA TakeStep ==
    ASSUME IInv, NEW c \in Clients, take_prepared_statement_parameters(c)
    PROVE  IInv'
<1> DEFINE h == lane[c].handle
           p == IF lane[c].eph THEN "close" ELSE "run"
           k == [lane[c] EXCEPT !.params = prepared[h].params]
           r == [k EXCEPT !.pc = p]
<1>1. /\ StatementInv /\ CacheInv /\ lane[c].pc = "take" /\ Ready(c, lane[c])
      /\ UNCHANGED <<last, made, told, binds>> /\ UNCHANGED <<entries, catalog, silent>>
  BY LaneReady DEF IInv, take_prepared_statement_parameters, At, CacheVars, GhostVars
<1>2. CASE h \in DOMAIN prepared
  <2>1. /\ prepared' = [prepared EXCEPT ![h].params = None] /\ Goto(c, k, p)
    BY <1>2 DEF take_prepared_statement_parameters
  <2>2. /\ prepared[h].params \in 0..Len(binds) /\ p \in Pcs
        /\ lane[c] \in LaneSet(made, Len(binds))
    BY <1>1, <1>2 DEF Pcs, StatementInv, Shape, StatementSet
  <2>3. lane' = [lane EXCEPT ![c] = r]
    BY <2>1 DEF Goto
  <2> HIDE DEF p
  <2>4. /\ k \in LaneSet(made, Len(binds)) /\ k.params = prepared[h].params
        /\ k.handle = h /\ k.sql = lane[c].sql /\ k.named = lane[c].named
        /\ k.cmd = lane[c].cmd /\ k.eph = lane[c].eph
    BY <2>2 DEF LaneSet
  <2> HIDE DEF k
  <2>5. /\ r \in LaneSet(made, Len(binds)) /\ r.params = prepared[h].params
        /\ r.handle = h /\ r.sql = lane[c].sql /\ r.named = lane[c].named
        /\ r.cmd = lane[c].cmd /\ r.eph = lane[c].eph /\ r.pc = p
    BY <2>2, <2>4 DEF LaneSet
  <2> HIDE DEF r, h
  <2>6. p \in {"close", "run"} /\ (lane[c].eph => p = "close")
    BY DEF p
  <2>7. RequestRules(r)
    BY <1>1, <2>5, <2>6 DEF RequestRules, Ready
  <2>8. \A g \in DOMAIN prepared : Holding(lane[c], g) => Holding(r, g)
    BY <2>5, <2>6 DEF Holding, h
  <2>9. StatementInv'
    BY <1>1, <1>2, <2>1, <2>3, <2>5, <2>7, <2>8, TakingStep DEF h
  <2>10. \A d \in Clients : d # c => lane'[d] = lane[d]
    BY <1>1, <2>1, OthersStay
  <2> QED BY <1>1, <2>9, <2>10, CacheKept DEF IInv
<1>3. CASE h \notin DOMAIN prepared
  <2>1. Answer(c) /\ UNCHANGED <<StatementVars, GhostVars>>
    BY <1>1, <1>3 DEF take_prepared_statement_parameters, StatementVars, GhostVars
  <2>2. \A g \in DOMAIN prepared : ~Holding(lane[c], g)
    BY <1>3 DEF Holding
  <2>3. StatementInv' /\ \A d \in Clients : d # c => lane'[d] = lane[d]
    BY <1>1, <2>1, <2>2, AnsweringStep, OthersStay
  <2> QED BY <1>1, <2>3, CacheKept DEF IInv
<1> QED BY <1>2, <1>3

\* A request closes its ephemeral statement, when it is still there.
LEMMA CloseStep ==
    ASSUME IInv, NEW c \in Clients, close_prepared_statement(c)
    PROVE  IInv'
<1> DEFINE h == lane[c].handle
           r == [lane[c] EXCEPT !.pc = "run"]
<1>1. /\ StatementInv /\ CacheInv /\ lane[c].pc = "close" /\ Ready(c, lane[c])
      /\ UNCHANGED <<told, binds>> /\ UNCHANGED <<entries, catalog, silent>>
      /\ Goto(c, lane[c], "run")
  BY LaneReady DEF IInv, close_prepared_statement, At, CacheVars, GhostVars
<1>2. /\ r \in LaneSet(made, Len(binds)) /\ r.pc = "run" /\ r.params = lane[c].params
      /\ r.handle = lane[c].handle /\ r.sql = lane[c].sql /\ r.named = lane[c].named
      /\ r.cmd = lane[c].cmd /\ r.eph = lane[c].eph
  BY <1>1 DEF LaneSet, Pcs, Ready, Carried
<1>3. lane' = [lane EXCEPT ![c] = r]
  BY <1>1 DEF Goto
<1> HIDE DEF r
<1>4. RequestRules(r)
  BY <1>1, <1>2 DEF RequestRules, Ready
<1>5. \A d \in Clients : d # c => lane'[d] = lane[d]
  BY <1>1, OthersStay
<1>6. CASE h \in DOMAIN prepared
  <2>1. Forget(h)
    BY <1>6 DEF close_prepared_statement
  <2>2. lane' \in [Clients -> LaneSet(made, Len(binds))] /\ lane'[c] = r
    BY <1>1, <1>2, <1>3 DEF StatementInv, Shape
  <2>3. \A d \in Clients :
              /\ RequestRules(lane'[d])
              /\ lane'[d].params = lane[d].params /\ lane'[d].handle = lane[d].handle
    BY <1>1, <1>2, <1>4, <1>5, <2>2 DEF StatementInv, InOrder
  <2>4. \A d \in Clients : \A g \in DOMAIN prepared \ {h} :
           Holding(lane[d], g) => Holding(lane'[d], g)
    BY <1>5 DEF Holding
  <2>5. StatementInv'
    BY <1>1, <2>1, <2>2, <2>3, <2>4, RemovingStep
  <2> QED BY <1>1, <1>5, <2>5, CacheKept DEF IInv
<1>7. CASE h \notin DOMAIN prepared
  <2>1. UNCHANGED <<StatementVars, GhostVars>> /\ "run" \in Pcs
    BY <1>1, <1>7 DEF close_prepared_statement, GhostVars, Pcs
  <2>2. \A g \in DOMAIN prepared : ~Holding(lane[c], g)
    BY <1>7 DEF Holding
  <2>3. RequestRules([lane[c] EXCEPT !.pc = "run"])
    BY <1>4 DEF r
  <2>4. StatementInv'
    BY <1>1, <2>1, <2>2, <2>3, GoingStep DEF Ready
  <2> QED BY <1>1, <1>5, <2>4, CacheKept DEF IInv
<1> QED BY <1>6, <1>7

\* A statement is made.
LEMMA CreateStep ==
    ASSUME IInv, NEW c \in Clients, NEW l, Ready(c, l), l.sql \in Sqls,
           l.eph => l.cmd = "ticket" /\ l.named = NoSql /\ l.params = None,
           lane[c].pc \notin {"meta", "take", "close", "clear"},
           create_prepared_statement(c, l)
    PROVE  IInv'
<1>1. /\ StatementInv /\ CacheInv /\ UNCHANGED <<entries, catalog, silent>>
  BY DEF IInv, create_prepared_statement, CacheVars
<1>2. StatementInv'
  BY <1>1, RegisteringStep DEF Ready, Carried
<1>3. \A d \in Clients : d # c => lane'[d] = lane[d]
  BY <1>1, OthersStay DEF create_prepared_statement
<1> QED BY <1>1, <1>2, <1>3, CacheKept DEF IInv

\* A client closes a statement it was told of.
LEMMA CloseRequestStep ==
    ASSUME IInv, NEW c \in Clients, NEW n, do_action_close_prepared_statement(c, n)
    PROVE  IInv'
<1>1. /\ StatementInv /\ CacheInv /\ UNCHANGED <<entries, catalog, silent, lane>>
      /\ Forget(n[1]) /\ UNCHANGED <<told, binds>>
  BY DEF IInv, do_action_close_prepared_statement, CacheVars, GhostVars
<1>2. lane' \in [Clients -> LaneSet(made, Len(binds))] /\ \A d \in Clients : RequestRules(lane'[d])
  BY <1>1 DEF StatementInv, Shape, InOrder
<1>3. StatementInv'
  BY <1>1, <1>2, RemovingStep
<1>4. CacheInv'
  BY <1>1 DEF CacheInv, FreshUnlessOverlapped, At
<1> QED BY <1>3, <1>4 DEF IInv

\* The empty handle stands for the session's last statement.
LEMMA LastHandleStep ==
    ASSUME IInv, NEW c \in Clients, NEW l, Ready(c, l), l.pc = "idle", lane[c].pc = "idle",
           ~l.eph, l.params = None, l.cmd \in HandleCommands, l.named = NoSql,
           last_prepared_statement_handle(c, l)
    PROVE  IInv'
<1> DEFINE k == [l EXCEPT !.handle = last]
           r == [k EXCEPT !.pc = "meta"]
<1>1. /\ StatementInv /\ CacheInv /\ Goto(c, k, "meta") /\ "meta" \in Pcs
      /\ UNCHANGED <<StatementVars, GhostVars>> /\ UNCHANGED <<entries, catalog, silent>>
  BY DEF IInv, last_prepared_statement_handle, CacheVars, Pcs
<1>2. last \in 0..made /\ l \in LaneSet(made, Len(binds))
  BY <1>1 DEF StatementInv, Shape, Ready, Carried
<1>3. /\ k \in LaneSet(made, Len(binds)) /\ k.params = None
      /\ r.pc = "meta" /\ r.cmd = l.cmd /\ r.named = NoSql /\ r.eph = l.eph
  BY <1>2 DEF LaneSet, Pcs
<1> HIDE DEF k
<1>4. Carried(c, k) /\ RequestRules(r)
  <2> HIDE DEF r
  <2> QED BY <1>3 DEF Carried, RequestRules
<1>5. \A h : ~Holding(lane[c], h)
  BY DEF Holding
<1>6. StatementInv' /\ \A d \in Clients : d # c => lane'[d] = lane[d]
  BY <1>1, <1>4, <1>5, GoingStep, OthersStay
<1> QED BY <1>1, <1>6, CacheKept DEF IInv

-----------------------------------------------------------------------------
\* A request that begins has taken no parameters, and is ready if it names no text.
LEMMA FreshRequest ==
    ASSUME NEW c \in Clients, NEW l \in LaneSet(made, Len(binds)),
           l.pc = "idle", l.params = None
    PROVE  Carried(c, l) /\ (l.named = NoSql /\ (l.eph => l.cmd # "create") => Ready(c, l))
BY DEF Carried, Ready, RequestRules

\* A client asks for a statement or for what a text returns, or has a text executed.
LEMMA TextRequest ==
    ASSUME IInv, NEW c \in Clients, lane[c].pc = "idle", NEW s \in Sqls,
           \/ do_action_create_prepared_statement(c, s)
           \/ get_flight_info_statement(c, s)
           \/ do_put_statement_update(c, s)
           \/ execute_ephemeral_ticket_statement(c, s)
    PROVE  IInv'
<1>1. /\ StatementInv /\ s \in Sqls \cup {NoSql}
      /\ {"create", "info", "update", "ticket"} \subseteq Commands
  BY DEF IInv, Commands
<1>2. /\ Idle \in LaneSet(made, Len(binds)) /\ Idle.pc = "idle" /\ Idle.params = None
      /\ ~Idle.eph /\ Idle.named = NoSql
  BY <1>1, Counts, IdleLane
<1> DEFINE q == s \in Queries
<1>3. CASE do_action_create_prepared_statement(c, s)
  <2> DEFINE l == [Idle EXCEPT !.cmd = "create", !.sql = s, !.query = q]
  <2>1. schema_cache_get(c, l) \/ create_prepared_statement(c, l)
    BY <1>3 DEF do_action_create_prepared_statement
  <2>2. q \in BOOLEAN
    OBVIOUS
  <2> HIDE DEF q
  <2>3. l \in LaneSet(made, Len(binds))
    BY <1>1, <1>2, <2>2 DEF LaneSet
  <2>4. /\ l.pc = "idle" /\ l.params = None /\ l.cmd = "create" /\ l.sql = s
        /\ l.eph = Idle.eph /\ l.named = NoSql
    BY <1>2 DEF LaneSet
  <2> HIDE DEF l
  <2>5. Ready(c, l)
    BY <1>2, <2>3, <2>4, FreshRequest
  <2> QED BY <1>2, <2>1, <2>4, <2>5, LookupStep, CreateStep
<1>4. CASE get_flight_info_statement(c, s)
  <2> DEFINE l == [Idle EXCEPT !.cmd = "info", !.sql = s]
  <2>1. schema_cache_get(c, l)
    BY <1>4 DEF get_flight_info_statement
  <2>2. /\ l \in LaneSet(made, Len(binds)) /\ l.pc = "idle" /\ l.params = None
        /\ l.cmd = "info" /\ l.sql = s /\ l.eph = Idle.eph /\ l.named = NoSql
    BY <1>1, <1>2 DEF LaneSet
  <2> HIDE DEF l
  <2>3. Ready(c, l)
    BY <1>2, <2>2, FreshRequest
  <2> QED BY <2>1, <2>2, <2>3, LookupStep
<1>5. CASE do_put_statement_update(c, s)
  <2> DEFINE l == [Idle EXCEPT !.cmd = "update", !.sql = s]
  <2>1. Execute(c, l)
    BY <1>5 DEF do_put_statement_update
  <2>2. /\ l \in LaneSet(made, Len(binds)) /\ l.pc = "idle" /\ l.params = None
        /\ l.cmd = "update" /\ l.eph = Idle.eph /\ l.named = NoSql
    BY <1>1, <1>2 DEF LaneSet
  <2> HIDE DEF l
  <2>3. Ready(c, l)
    BY <1>2, <2>2, FreshRequest
  <2> QED BY <2>1, <2>3, ExecuteStep
<1>6. CASE execute_ephemeral_ticket_statement(c, s)
  <2>1. PICK rows \in TicketRows(s) :
           LET l == [Idle EXCEPT !.cmd = "ticket", !.sql = s, !.query = rows, !.eph = rows]
           IN  IF rows THEN create_prepared_statement(c, l) ELSE Execute(c, l)
    BY <1>6 DEF execute_ephemeral_ticket_statement
  <2> DEFINE l == [Idle EXCEPT !.cmd = "ticket", !.sql = s, !.query = rows, !.eph = rows]
  <2>2. create_prepared_statement(c, l) \/ Execute(c, l)
    BY <2>1
  <2>3. rows \in BOOLEAN
    <3>1. TicketRows(s) \subseteq BOOLEAN
      BY DEF TicketRows
    <3> QED BY <3>1
  <2>4. /\ l \in LaneSet(made, Len(binds)) /\ l.pc = "idle" /\ l.params = None
        /\ l.cmd = "ticket" /\ l.sql = s /\ l.named = NoSql
    BY <1>1, <1>2, <2>3 DEF LaneSet
  <2> HIDE DEF l
  <2>5. Ready(c, l)
    BY <2>4, FreshRequest
  <2> QED BY <2>2, <2>4, <2>5, CreateStep, ExecuteStep
<1> QED BY <1>3, <1>4, <1>5, <1>6

\* A client names a handle it was told of, or none.
LEMMA HandleRequest ==
    ASSUME IInv, NEW c \in Clients, lane[c].pc = "idle", NEW cmd \in HandleCommands,
           NEW n \in told \cup {<<None, NoSql>>}, resolve_session_and_meta(c, cmd, n)
    PROVE  IInv'
<1> DEFINE m == IF cmd \in {"get", "put"} THEN n[2] ELSE NoSql
           l == [Idle EXCEPT !.cmd = cmd, !.handle = n[1], !.named = m]
<1>1. /\ StatementInv /\ made \in Nat /\ told \subseteq (1..made) \X Sqls
      /\ cmd \in Commands /\ FALSE \in BOOLEAN /\ NoSql \in Sqls \cup {NoSql}
  BY Counts DEF IInv, StatementInv, Shape, Commands
<1>2. n = <<n[1], n[2]>> /\ n[1] \in 0..made /\ n[2] \in Sqls \cup {NoSql}
      /\ (n[1] = None => n[2] = NoSql) /\ (n[1] # None => n \in told)
  BY <1>1 DEF None
<1>3. m \in Sqls \cup {NoSql} /\ (m # NoSql => m = n[2])
  BY <1>2
<1>4. IF n[1] = None THEN last_prepared_statement_handle(c, l)
      ELSE get_prepared_statement_meta(c, l)
  BY DEF resolve_session_and_meta
<1> HIDE DEF m
<1>5. /\ Idle \in LaneSet(made, Len(binds)) /\ Idle.pc = "idle" /\ Idle.params = None
      /\ ~Idle.eph
  BY <1>1, Counts, IdleLane
<1>6. /\ Carried(c, l) /\ l.params = None /\ l.pc = "idle" /\ l.cmd = cmd /\ l.handle = n[1]
      /\ l.named = m /\ ~l.eph /\ (m = NoSql => Ready(c, l))
  <2>1. /\ l \in LaneSet(made, Len(binds)) /\ l.pc = "idle" /\ l.params = None
        /\ l.cmd = cmd /\ l.handle = n[1] /\ l.named = m /\ l.eph = Idle.eph
    BY <1>1, <1>2, <1>3, <1>5 DEF LaneSet
  <2> HIDE DEF l
  <2> QED BY <1>5, <2>1, FreshRequest
<1> HIDE DEF l
<1>7. CASE n[1] = None
  <2>1. m = NoSql
    BY <1>2, <1>3, <1>7
  <2> QED BY <1>4, <1>6, <1>7, <2>1, LastHandleStep
<1>8. CASE n[1] # None
  <2>1. l.named # NoSql => <<l.handle, l.named>> \in told
    BY <1>2, <1>3, <1>6, <1>8
  <2> QED BY <1>4, <1>6, <1>8, <2>1, MetaStep
<1> QED BY <1>7, <1>8

\* Every step keeps the invariant.
LEMMA NextStep == ASSUME IInv, [Next]_vars PROVE IInv'
<1>1. CASE UNCHANGED vars
  <2>1. UNCHANGED <<prepared, last, made, entries, lane, catalog, silent, told, binds>>
    BY <1>1 DEF vars
  <2>2. StatementInv'
    BY <2>1 DEF IInv, StatementInv, Shape, InOrder, ToldTrue, ParametersOwned, Unused,
                LastHandleLives, NoEphemeralLeak, BoundOnce
  <2>3. CacheInv'
    BY <2>1 DEF IInv, CacheInv, FreshUnlessOverlapped, At
  <2> QED BY <2>2, <2>3 DEF IInv
<1>2. ASSUME NEW c \in Clients, At(c, "idle"), Request(c) PROVE IInv'
  BY <1>2, TextRequest, HandleRequest, CloseRequestStep DEF Request, At
<1>3. ASSUME NEW c \in Clients, Step(c) PROVE IInv'
  <2>1. Ready(c, lane[c])
    BY LaneReady DEF IInv
  <2>2. CASE At(c, "meta") /\ get_prepared_statement_meta(c, lane[c])
    BY <2>1, <2>2, MetaStep DEF At, Ready, RequestRules
  <2>3. CASE At(c, "register") /\ create_prepared_statement(c, lane[c])
    <3>1. lane[c].pc = "register" /\ lane[c].sql \in Sqls /\ ~lane[c].eph
      BY <2>1, <2>3 DEF At, Ready, RequestRules
    <3> QED BY <2>1, <2>3, <3>1, CreateStep
  <2>4. CASE At(c, "lookup") /\ schema_cache_get(c, lane[c])
    <3>1. /\ lane[c].pc = "lookup" /\ lane[c].sql \in Sqls
          /\ lane[c].cmd \in {"create", "flight info", "info"}
      BY <2>1, <2>4 DEF At, Ready, RequestRules
    <3> QED BY <2>1, <2>4, <3>1, LookupStep
  <2>5. CASE At(c, "run") /\ Execute(c, lane[c])
    BY <2>1, <2>5, ExecuteStep DEF At
  <2> QED BY <1>3, <2>2, <2>3, <2>4, <2>5, BindStep, TakeStep, CloseStep, PlanStep, InsertStep,
             RememberStep, ClearStep, EndStep DEF Step
<1> QED BY <1>1, <1>2, <1>3 DEF Next

\* The invariant holds of a new session.
LEMMA InitStep == Init => IInv
<1> SUFFICES ASSUME Init PROVE IInv
  OBVIOUS
<1>1. made = 0 /\ last = 0 /\ told = {} /\ binds = <<>> /\ catalog = 0 /\ silent = FALSE
  BY DEF Init, None
<1>2. DOMAIN prepared = {} /\ DOMAIN entries = {} /\ lane = [c \in Clients |-> Idle]
  BY DEF Init
<1>3. binds \in Seq(BindSet) /\ Len(binds) = 0
  BY <1>1, EmptySeq
<1>4. /\ Idle \in LaneSet(made, Len(binds)) /\ RequestRules(Idle)
      /\ Idle.pc = "idle" /\ Idle.params = None
  BY <1>1, <1>3, IdleLane
<1>5. lane \in [Clients -> LaneSet(made, Len(binds))] /\ \A c \in Clients : lane[c] = Idle
  BY <1>2, <1>4
<1>6. Shape
  BY <1>1, <1>2, <1>3, <1>5, BoundsAssumption DEF Shape
<1>7. InOrder /\ ToldTrue /\ LastHandleLives /\ NoEphemeralLeak
  BY <1>1, <1>2, <1>4, <1>5 DEF InOrder, ToldTrue, LastHandleLives, NoEphemeralLeak, None
<1>8. ParametersOwned /\ BoundOnce
  BY <1>1, <1>2, <1>3, <1>4, <1>5 DEF ParametersOwned, BoundOnce
<1>9. CacheInv
  <2>1. catalog \in 0..MaxChanges
    BY <1>1, BoundsAssumption
  <2>2. silent \in BOOLEAN
    BY <1>1, Zenon
  <2> QED BY <1>2, <2>1, <2>2 DEF CacheInv, FreshUnlessOverlapped
<1> QED BY <1>6, <1>7, <1>8, <1>9 DEF IInv, StatementInv

\* The invariant holds in every state of the session.
LEMMA Inductive == Spec => []IInv
BY InitStep, NextStep, PTL DEF Spec

-----------------------------------------------------------------------------
\* The keys in the order of their use are those of the cache, each once, and there
\* are no more of them than the cache has room for.
KeysInOrder ==
    /\ order \in Seq(Sqls) /\ IsInjective(order) /\ Range(order) = DOMAIN entries
    /\ IsFiniteSet(DOMAIN entries) /\ Cardinality(DOMAIN entries) <= Capacity

\* A key that was used is the last one.
LEMMA TouchedFacts ==
    ASSUME KeysInOrder, NEW key \in Sqls
    PROVE  /\ Touched(key) \in Seq(Sqls) /\ Touched(key) # <<>> /\ IsInjective(Touched(key))
           /\ Range(Touched(key)) = DOMAIN entries \cup {key}
<1>1. Touched(key) = Append(Without(order, key), key)
  BY DEF Touched, Without
<1>2. PICK k \in Seq(Sqls) : k = Without(order, key) /\ Keeps(k, order, key)
  BY WithoutFacts DEF KeysInOrder
<1>3. IsInjective(k) /\ Range(k) = DOMAIN entries \ {key}
  BY <1>2 DEF Keeps, KeysInOrder
<1>4. /\ Append(k, key) \in Seq(Sqls) /\ IsInjective(Append(k, key))
      /\ Range(Append(k, key)) = Range(k) \cup {key} /\ Len(Append(k, key)) = Len(k) + 1
  BY <1>3, PushedFacts
<1>5. Append(k, key) # <<>>
  BY AppendProperties
<1> QED BY <1>1, <1>2, <1>3, <1>4, <1>5

\* A key that is put into the cache: at most one other key goes.
LEMMA CacheStep ==
    ASSUME KeysInOrder, NEW key \in Sqls, NEW schema, Cache(key, schema)
    PROVE  KeysInOrder'
<1> DEFINE keys == DOMAIN entries \cup {key}
           full == Cardinality(keys) > Capacity
           t == Touched(key)
           gone == IF full THEN {Head(t)} ELSE {}
<1>1. /\ t \in Seq(Sqls) /\ t # <<>> /\ IsInjective(t) /\ Range(t) = keys
  BY TouchedFacts
<1>2. /\ IsFiniteSet(keys) /\ Cardinality(keys) \in Nat /\ Cardinality(keys) <= Capacity + 1
  <2>1. IsFiniteSet(DOMAIN entries) /\ Cardinality(DOMAIN entries) <= Capacity
    BY DEF KeysInOrder
  <2>2. Cardinality(DOMAIN entries) \in Nat
    BY <2>1, FS_CardinalityType
  <2>3. /\ IsFiniteSet(keys)
        /\ \/ Cardinality(keys) = Cardinality(DOMAIN entries)
           \/ Cardinality(keys) = Cardinality(DOMAIN entries) + 1
    BY <2>1, FS_AddElement
  <2> HIDE DEF keys
  <2> QED BY <2>1, <2>2, <2>3, BoundsAssumption
<1>3. DOMAIN entries' = keys \ gone /\ order' = IF full THEN Tail(t) ELSE t
  BY DEF Cache
<1> HIDE DEF t, keys
<1>4. CASE full
  <2>1. /\ Tail(t) \in Seq(Sqls) /\ IsInjective(Tail(t))
        /\ Range(Tail(t)) = Range(t) \ {Head(t)} /\ Head(t) \in Range(t)
    BY <1>1, TailFacts
  <2>2. order' = Tail(t) /\ DOMAIN entries' = keys \ {Head(t)}
    BY <1>3, <1>4
  <2>3. /\ IsFiniteSet(keys \ {Head(t)})
        /\ Cardinality(keys \ {Head(t)}) = Cardinality(keys) - 1
    BY <1>1, <1>2, <2>1, FS_RemoveElement
  <2>4. Cardinality(keys \ {Head(t)}) <= Capacity
    BY <1>2, <2>3, BoundsAssumption
  <2> QED BY <1>1, <2>1, <2>2, <2>3, <2>4 DEF KeysInOrder
<1>5. CASE ~full
  <2>1. order' = t /\ DOMAIN entries' = keys
    BY <1>3, <1>5
  <2>2. Cardinality(keys) <= Capacity
    BY <1>2, <1>5, BoundsAssumption
  <2> QED BY <1>1, <1>2, <2>1, <2>2 DEF KeysInOrder
<1> QED BY <1>4, <1>5

\* Only a lookup, an insertion and a clearing change the cache.
Looked(c, l) == l.sql \in Sqls /\ schema_cache_get(c, l)
CacheChanges(c) ==
    \/ UNCHANGED CacheVars
    \/ \E l : Looked(c, l)
    \/ schema_cache_insert(c)
    \/ clear_schema_cache(c)

\* A step changes the cache in no other way.
LEMMA CacheChangesOnly ==
    ASSUME IInv, NEW c \in Clients, (At(c, "idle") /\ Request(c)) \/ Step(c)
    PROVE  CacheChanges(c)
<1>1. \A l : Execute(c, l) => UNCHANGED CacheVars
  BY DEF Execute, execute_query_streaming, execute_statement, execution_fails
<1>2. \A l : create_prepared_statement(c, l) => UNCHANGED CacheVars
  BY DEF create_prepared_statement
<1>3. ASSUME NEW s \in Sqls, NEW l, l.sql = s, schema_cache_get(c, l) PROVE CacheChanges(c)
  BY <1>3 DEF CacheChanges, Looked
<1>4. \A cmd : Idle.sql = NoSql /\ [Idle EXCEPT !.cmd = cmd].sql = NoSql
  BY DEF Idle
<1>5. ASSUME NEW s \in Sqls, do_action_create_prepared_statement(c, s) PROVE CacheChanges(c)
  <2> DEFINE l == [Idle EXCEPT !.cmd = "create", !.sql = s, !.query = s \in Queries]
  <2>1. l.sql = s
    BY DEF Idle
  <2>2. schema_cache_get(c, l) \/ create_prepared_statement(c, l)
    BY <1>5 DEF do_action_create_prepared_statement
  <2> HIDE DEF l
  <2> QED BY <1>2, <1>3, <2>1, <2>2 DEF CacheChanges
<1>6. ASSUME NEW s \in Sqls, get_flight_info_statement(c, s) PROVE CacheChanges(c)
  <2> DEFINE l == [Idle EXCEPT !.cmd = "info", !.sql = s]
  <2>1. l.sql = s
    BY DEF Idle
  <2>2. schema_cache_get(c, l)
    BY <1>6 DEF get_flight_info_statement
  <2> HIDE DEF l
  <2> QED BY <1>3, <2>1, <2>2
<1>7. ASSUME NEW s \in Sqls,
             do_put_statement_update(c, s) \/ execute_ephemeral_ticket_statement(c, s)
      PROVE  CacheChanges(c)
  BY <1>1, <1>2, <1>7
  DEF do_put_statement_update, execute_ephemeral_ticket_statement, CacheChanges
<1>8. ASSUME NEW cmd, NEW n, resolve_session_and_meta(c, cmd, n) PROVE CacheChanges(c)
  BY <1>8 DEF resolve_session_and_meta, last_prepared_statement_handle,
              get_prepared_statement_meta, CacheVars, CacheChanges
<1>9. ASSUME NEW n, do_action_close_prepared_statement(c, n) PROVE CacheChanges(c)
  BY <1>9 DEF do_action_close_prepared_statement, CacheVars, CacheChanges
<1>10. CASE Request(c)
  BY <1>5, <1>6, <1>7, <1>8, <1>9, <1>10 DEF Request
<1>11. CASE Step(c)
  <2>1. CASE At(c, "lookup") /\ schema_cache_get(c, lane[c])
    <3>1. lane[c].sql \in Sqls
      BY <2>1 DEF IInv, StatementInv, InOrder, RequestRules, At
    <3> QED BY <2>1, <3>1 DEF CacheChanges, Looked
  <2>2. CASE \/ At(c, "meta") /\ get_prepared_statement_meta(c, lane[c])
             \/ set_prepared_statement_parameters(c)
             \/ take_prepared_statement_parameters(c)
             \/ close_prepared_statement(c)
    BY <2>2 DEF get_prepared_statement_meta, set_prepared_statement_parameters,
                take_prepared_statement_parameters, close_prepared_statement, CacheVars,
                CacheChanges
  <2>3. CASE \/ schema_for_query(c) \/ cache_prepared_statement_schema(c)
             \/ insert_with_appender(c) \/ Fail(c)
    BY <2>3 DEF schema_for_query, cache_prepared_statement_schema, insert_with_appender, Fail,
                CacheVars, CacheChanges
  <2> QED BY <1>1, <1>2, <1>11, <2>1, <2>2, <2>3 DEF Step, CacheChanges
<1> QED BY <1>10, <1>11

\* The keys stay in order.
LEMMA KeysStep == ASSUME IInv, KeysInOrder, [Next]_vars PROVE KeysInOrder'
<1>1. CASE UNCHANGED CacheVars
  BY <1>1 DEF CacheVars, KeysInOrder
<1>2. CASE UNCHANGED vars
  BY <1>1, <1>2 DEF vars, CacheVars
<1>3. ASSUME NEW c \in Clients, NEW l, Looked(c, l) PROVE KeysInOrder'
  <2>1. /\ UNCHANGED entries
        /\ UNCHANGED order \/ (l.sql \in DOMAIN entries /\ order' = Touched(l.sql))
    <3>1. schema_cache_get(c, l)
      BY <1>3 DEF Looked
    <3>2. UNCHANGED entries
      BY <3>1 DEF schema_cache_get
    <3>3. CASE l.sql \in DOMAIN entries
      BY <3>1, <3>2, <3>3 DEF schema_cache_get
    <3>4. CASE l.sql \notin DOMAIN entries
      BY <3>1, <3>2, <3>4 DEF schema_cache_get
    <3> QED BY <3>2, <3>3, <3>4
  <2>2. CASE l.sql \in DOMAIN entries /\ order' = Touched(l.sql)
    <3>1. DOMAIN entries \cup {l.sql} = DOMAIN entries /\ l.sql \in Sqls
      BY <1>3, <2>2 DEF Looked
    <3> QED BY <2>1, <2>2, <3>1, TouchedFacts DEF KeysInOrder
  <2> QED BY <1>1, <2>1, <2>2 DEF CacheVars
<1>4. ASSUME NEW c \in Clients, schema_cache_insert(c) PROVE KeysInOrder'
  <2>1. lane[c].sql \in Sqls
    BY <1>4 DEF IInv, StatementInv, InOrder, RequestRules, schema_cache_insert, At
  <2> QED BY <1>4, <2>1, CacheStep DEF schema_cache_insert
<1>5. ASSUME NEW c \in Clients, clear_schema_cache(c) PROVE KeysInOrder'
  <2>1. order' = <<>> /\ entries' = <<>> /\ DOMAIN entries' = {}
    BY <1>5 DEF clear_schema_cache
  <2> QED BY <2>1, EmptyFacts, FS_EmptySet, BoundsAssumption DEF KeysInOrder
<1>6. ASSUME NEW c \in Clients, CacheChanges(c) PROVE KeysInOrder'
  BY <1>1, <1>3, <1>4, <1>5, <1>6 DEF CacheChanges
<1> QED BY <1>2, <1>6, CacheChangesOnly DEF Next

\* A new session's cache is empty.
LEMMA KeysInit == Init => KeysInOrder
<1> SUFFICES ASSUME Init PROVE KeysInOrder
  OBVIOUS
<1>1. order = <<>> /\ DOMAIN entries = {}
  BY DEF Init
<1> QED BY <1>1, EmptyFacts, FS_EmptySet, BoundsAssumption DEF KeysInOrder

\* The cache of query schemas never has more entries than its capacity, and the keys
\* kept in the order of their use are those of its entries, each once: an eviction
\* finds the oldest entry (session/mod.rs SchemaCache).
THEOREM CacheIsBounded == Spec => []KeysInOrder
BY KeysInit, KeysStep, Inductive, PTL DEF Spec

\* Type correctness, the order of the cache's keys included.
THEOREM PreparedTypes == Spec => []TypeOK
<1>1. IInv /\ KeysInOrder => TypeOK
  BY DEF IInv, StatementInv, CacheInv, Shape, KeysInOrder, TypeOK, LaneSet, StatementSet, Commands
<1> QED BY <1>1, Inductive, CacheIsBounded, PTL

\* What the empty handle stands for is a statement that is still there
\* (close_prepared_statement forgets the handle in the same critical section).
THEOREM LastHandleIsThere == Spec => []LastHandleLives
<1>1. IInv => LastHandleLives
  BY DEF IInv, StatementInv
<1> QED BY <1>1, Inductive, PTL

\* An ephemeral statement in the map has a request that is about to close it
\* (execute_ephemeral_ticket_statement).
THEOREM EphemeralIsClosed == Spec => []NoEphemeralLeak
<1>1. IInv => NoEphemeralLeak
  BY DEF IInv, StatementInv
<1> QED BY <1>1, Inductive, PTL

\* Parameters are used once, by an execution of the statement they were bound to
\* (take_prepared_statement_parameters).
THEOREM ParametersUsedOnce == Spec => []BoundOnce
<1>1. IInv => BoundOnce
  BY DEF IInv, StatementInv
<1> QED BY <1>1, Inductive, PTL

\* A request executes the text its handle was given out for
\* (resolve_session_and_meta; handles are never given out twice).
THEOREM HandleMeansText == Spec => []RunsWhatItNames
<1>1. IInv => RunsWhatItNames
  BY DEF IInv, StatementInv, InOrder, RequestRules, RunsWhatItNames
<1> QED BY <1>1, Inductive, PTL

\* A cached schema is the catalog's, but for changes on the paths that clear no
\* cache and for plans that were late (schema_for_query, clear_schema_cache).
THEOREM CachedSchemaIsFresh == Spec => []FreshUnlessOverlapped
<1>1. IInv => FreshUnlessOverlapped
  BY DEF IInv, CacheInv
<1> QED BY <1>1, Inductive, PTL

-----------------------------------------------------------------------------
(* Filters pushed down: trees of expressions, their text and its meaning.        *)

\* The depths of expressions.
Levels == 0 .. (MaxDepth + 1)

\* Trees is what its recursive definition says: there are no expressions of no
\* level, and those of one level more are over those of the level below.
LEMMA TreesDef ==
    /\ Trees[0] = {}
    /\ \A n \in 1 .. (MaxDepth + 1) : Trees[n] = Over(Trees[n - 1])
<1> DEFINE Level(f, n) == IF n = 0 THEN {} ELSE Over(f[n - 1])
           Grown(F, m) == F = [n \in 0 .. m |-> Level(F, n)]
           Good == {m \in Nat : \E F : Grown(F, m)}
<1>1. 0 \in Good
  <2> DEFINE F == [n \in 0 .. 0 |-> {}]
  <2>1. F = [n \in 0 .. 0 |-> Level(F, n)]
    <3>1. \A n \in 0 .. 0 : Level(F, n) = {}
      OBVIOUS
    <3> HIDE DEF Level
    <3> QED BY <3>1
  <2> HIDE DEF F, Level
  <2> QED BY <2>1
<1>2. ASSUME NEW m \in Nat, m \in Good PROVE m + 1 \in Good
  <2>1. PICK F : Grown(F, m)
    BY <1>2
  <2> DEFINE G == [n \in 0 .. (m + 1) |-> Level(F, n)]
  <2>2. \A n \in 0 .. m : F[n] = Level(F, n)
    <3> HIDE DEF Level
    <3> QED BY <2>1
  <2>3. \A n \in 0 .. m : G[n] = F[n]
    <3> HIDE DEF Level
    <3> QED BY <2>2
  <2>4. ASSUME NEW n \in 0 .. (m + 1) PROVE Level(F, n) = Level(G, n)
    <3>1. CASE n = 0
      BY <3>1
    <3>2. CASE n # 0
      <4>1. n - 1 \in 0 .. m
        BY <3>2
      <4>2. F[n - 1] = G[n - 1]
        BY <2>3, <4>1
      <4> HIDE DEF G
      <4> QED BY <3>2, <4>2
    <3> QED BY <3>1, <3>2
  <2>5. G = [n \in 0 .. (m + 1) |-> Level(G, n)]
    <3>1. \A n \in 0 .. (m + 1) : G[n] = Level(G, n)
      <4>1. \A n \in 0 .. (m + 1) : G[n] = Level(F, n)
        BY DEF G
      <4> HIDE DEF G, Level
      <4> QED BY <2>4, <4>1
    <3>2. G = [n \in 0 .. (m + 1) |-> G[n]]
      OBVIOUS
    <3> HIDE DEF G, Level
    <3> QED BY <3>1, <3>2
  <2> HIDE DEF G, Level
  <2> QED BY <2>5
<1>3. MaxDepth + 1 \in Good
  <2>1. Nat \subseteq Good
    <3> HIDE DEF Good
    <3> QED BY <1>1, <1>2, SetInduction
  <2> HIDE DEF Good
  <2> QED BY <2>1, DepthAssumption
<1>4. Trees = CHOOSE F : Grown(F, MaxDepth + 1)
  BY DEF Trees
<1>5. Grown(Trees, MaxDepth + 1)
  <2>1. \E F : Grown(F, MaxDepth + 1)
    BY <1>3
  <2> HIDE DEF Grown
  <2> QED BY <1>4, <2>1
<1>6. \A n \in 0 .. (MaxDepth + 1) : Trees[n] = Level(Trees, n)
  <2> HIDE DEF Level
  <2> QED BY <1>5
<1> QED BY <1>6, DepthAssumption

\* A tree's children are trees of the level below, and any such children make one.
LEMMA TreeFacts ==
    ASSUME NEW n \in 0 .. MaxDepth
    PROVE  /\ \A e \in Trees[n + 1] :
                 /\ e \in [class : Classes, type : Types, value : Int, children : Seq(Trees[n])]
                 /\ WellFormed(e)
           /\ \A e \in [class : Classes, type : Types, value : Int, children : Seq(Trees[n])] :
                 WellFormed(e) => e \in Trees[n + 1]
<1>1. n + 1 \in 1 .. (MaxDepth + 1) /\ (n + 1) - 1 = n
  BY DepthAssumption
<1>2. Trees[n + 1] = Over(Trees[n])
  BY <1>1, TreesDef
<1> QED BY <1>2 DEF Over

\* A tree of few levels is one of more.
LEMMA TreesGrow ==
    \A n \in 0 .. MaxDepth : Trees[n] \subseteq Trees[n + 1]
<1> DEFINE Good == {n \in Nat : n <= MaxDepth => Trees[n] \subseteq Trees[n + 1]}
<1>1. 0 \in Good
  BY TreesDef
<1>2. ASSUME NEW n \in Nat, n \in Good PROVE n + 1 \in Good
  <2> SUFFICES ASSUME n + 1 <= MaxDepth, NEW e \in Trees[n + 1] PROVE e \in Trees[(n + 1) + 1]
    OBVIOUS
  <2>1. n \in 0 .. MaxDepth /\ n + 1 \in 0 .. MaxDepth
    BY DepthAssumption
  <2>2. Trees[n] \subseteq Trees[n + 1]
    BY <1>2, <2>1
  <2>3. /\ e \in [class : Classes, type : Types, value : Int, children : Seq(Trees[n])]
        /\ WellFormed(e)
    BY <2>1, TreeFacts
  <2>4. e.children \in Seq(Trees[n + 1])
    BY <2>2, <2>3
  <2>5. e \in [class : Classes, type : Types, value : Int, children : Seq(Trees[n + 1])]
    BY <2>3, <2>4
  <2> QED BY <2>1, <2>3, <2>5, TreeFacts
<1>3. Nat \subseteq Good
  <2> HIDE DEF Good
  <2> QED BY <1>1, <1>2, SetInduction
<1> QED BY <1>3, DepthAssumption

\* The trees of every depth are expressions.
LEMMA TreesAreExprs ==
    \A n \in Levels : Trees[n] \subseteq Exprs
<1> DEFINE Good == {k \in Nat : k <= MaxDepth + 1 => Trees[(MaxDepth + 1) - k] \subseteq Exprs}
<1>1. 0 \in Good
  BY DepthAssumption DEF Exprs
<1>2. ASSUME NEW k \in Nat, k \in Good PROVE k + 1 \in Good
  <2> SUFFICES ASSUME k + 1 <= MaxDepth + 1
               PROVE  Trees[(MaxDepth + 1) - (k + 1)] \subseteq Exprs
    OBVIOUS
  <2>0. PICK n : n = (MaxDepth + 1) - (k + 1)
    OBVIOUS
  <2>1. n \in 0 .. MaxDepth /\ n + 1 = (MaxDepth + 1) - k
    <3>1. PICK m \in Nat : m = MaxDepth
      BY DepthAssumption
    <3>2. n = m - k /\ k <= m
      BY <2>0, <3>1
    <3> QED BY <3>1, <3>2
  <2>2. Trees[n] \subseteq Trees[n + 1] /\ Trees[n + 1] \subseteq Exprs
    <3>1. k <= MaxDepth + 1
      BY DepthAssumption
    <3>2. Trees[(MaxDepth + 1) - k] \subseteq Exprs
      BY <1>2, <3>1
    <3> QED BY <2>1, <3>2, TreesGrow
  <2> QED BY <2>0, <2>2
<1>3. Nat \subseteq Good
  <2> HIDE DEF Good
  <2> QED BY <1>1, <1>2, SetInduction
<1>4. ASSUME NEW n \in Levels PROVE Trees[n] \subseteq Exprs
  <2>1. PICK k \in Nat : k = (MaxDepth + 1) - n /\ k <= MaxDepth + 1 /\ (MaxDepth + 1) - k = n
    BY DepthAssumption DEF Levels
  <2>2. k \in Good
    BY <1>3
  <2> QED BY <2>1, <2>2
<1> QED BY <1>4

\* The fields of an expression, and that it is a well-formed record of them.
LEMMA ExprFacts ==
    ASSUME NEW e \in Exprs
    PROVE  /\ e.class \in Classes /\ e.type \in Types /\ e.value \in Int
           /\ e.children \in Seq(Exprs) /\ WellFormed(e)
           /\ e = [class |-> e.class, type |-> e.type, value |-> e.value, children |-> e.children]
<1>1. MaxDepth \in 0 .. MaxDepth /\ MaxDepth \in Levels
  BY DepthAssumption DEF Levels
<1>2. /\ e \in [class : Classes, type : Types, value : Int, children : Seq(Trees[MaxDepth])]
      /\ WellFormed(e)
  BY <1>1, TreeFacts DEF Exprs
<1>3. Trees[MaxDepth] \subseteq Exprs
  BY <1>1, TreesAreExprs
<1> QED BY <1>2, <1>3

\* The translation of an expression from those of its children.
LEMMA SqlDef ==
    \A e \in Exprs : expression_to_sql[e] = sql_of(e, [i \in DOMAIN e.children |-> expression_to_sql[e.children[i]]])
<1> DEFINE Body(F, e) == sql_of(e, [i \in DOMAIN e.children |-> F[e.children[i]]])
           Defined(F, n) == F = [e \in Trees[n] |-> Body(F, e)]
           Good == {n \in Nat : n <= MaxDepth + 1 => \E F : Defined(F, n)}
<1>1. ASSUME NEW n \in 0 .. MaxDepth, NEW e \in Trees[n + 1], NEW F, NEW G,
             \A c \in Trees[n] : F[c] = G[c]
      PROVE  Body(F, e) = Body(G, e)
  <2>1. e.children \in Seq(Trees[n])
    BY <1>1, TreeFacts
  <2>2. \A i \in DOMAIN e.children : F[e.children[i]] = G[e.children[i]]
    BY <1>1, <2>1
  <2> QED 
    <3>1. [i \in DOMAIN e.children |-> F[e.children[i]]] = [i \in DOMAIN e.children |-> G[e.children[i]]]
      BY <2>2
    <3> QED BY <3>1, Zenon
<1> HIDE DEF Body
<1>2. 0 \in Good
  <2> DEFINE F == [e \in Trees[0] |-> 0]
  <2>1. Trees[0] = {}
    BY TreesDef
  <2>2. Defined(F, 0)
    BY <2>1
  <2> HIDE DEF F, Defined
  <2> QED BY <2>2
<1>3. ASSUME NEW n \in Nat, n \in Good PROVE n + 1 \in Good
  <2> SUFFICES ASSUME n + 1 <= MaxDepth + 1 PROVE \E G : Defined(G, n + 1)
    OBVIOUS
  <2>1. n \in 0 .. MaxDepth /\ n <= MaxDepth + 1
    BY DepthAssumption
  <2>2. PICK F : Defined(F, n)
    BY <1>3, <2>1
  <2> DEFINE G == [e \in Trees[n + 1] |-> Body(F, e)]
  <2>3. \A c \in Trees[n] : F[c] = Body(F, c)
    BY <2>2
  <2>4. \A c \in Trees[n] : G[c] = F[c]
    BY <2>1, <2>3, TreesGrow
  <2>5. \A e \in Trees[n + 1] : G[e] = Body(F, e)
    OBVIOUS
  <2>6. G = [e \in Trees[n + 1] |-> G[e]]
    OBVIOUS
  <2> HIDE DEF G
  <2>7. \A e \in Trees[n + 1] : Body(F, e) = Body(G, e)
    BY <1>1, <2>1, <2>4
  <2>8. Defined(G, n + 1)
    BY <2>5, <2>6, <2>7
  <2> HIDE DEF Defined
  <2> QED BY <2>8
<1>4. \E F : Defined(F, MaxDepth + 1)
  <2>1. Nat \subseteq Good
    <3> HIDE DEF Good
    <3> QED BY <1>2, <1>3, SetInduction
  <2>2. MaxDepth + 1 \in Good
    BY <2>1, DepthAssumption
  <2> HIDE DEF Defined
  <2> QED BY <2>2, DepthAssumption
<1>5. expression_to_sql = CHOOSE F : Defined(F, MaxDepth + 1)
  BY DEF expression_to_sql, Exprs, Body
<1>6. Defined(expression_to_sql, MaxDepth + 1)
  <2> HIDE DEF Defined
  <2> QED BY <1>4, <1>5
<1>7. \A e \in Exprs : expression_to_sql[e] = Body(expression_to_sql, e)
  BY <1>6 DEF Exprs
<1> QED BY <1>7 DEF Body

\* The value of an expression from those of its children.
LEMMA ValueDef ==
    ASSUME NEW row PROVE
    \A e \in Exprs : Value(e, row) = value_of(e, [i \in DOMAIN e.children |-> Value(e.children[i], row)], row)
<1> DEFINE Body(F, e) == value_of(e, [i \in DOMAIN e.children |-> F[e.children[i]]], row)
           Defined(F, n) == F = [e \in Trees[n] |-> Body(F, e)]
           Good == {n \in Nat : n <= MaxDepth + 1 => \E F : Defined(F, n)}
<1>1. ASSUME NEW n \in 0 .. MaxDepth, NEW e \in Trees[n + 1], NEW F, NEW G,
             \A c \in Trees[n] : F[c] = G[c]
      PROVE  Body(F, e) = Body(G, e)
  <2>1. e.children \in Seq(Trees[n])
    BY <1>1, TreeFacts
  <2>2. \A i \in DOMAIN e.children : F[e.children[i]] = G[e.children[i]]
    BY <1>1, <2>1
  <2> QED 
    <3>1. [i \in DOMAIN e.children |-> F[e.children[i]]] = [i \in DOMAIN e.children |-> G[e.children[i]]]
      BY <2>2
    <3> QED BY <3>1, Zenon
<1> HIDE DEF Body
<1>2. 0 \in Good
  <2> DEFINE F == [e \in Trees[0] |-> 0]
  <2>1. Trees[0] = {}
    BY TreesDef
  <2>2. Defined(F, 0)
    BY <2>1
  <2> HIDE DEF F, Defined
  <2> QED BY <2>2
<1>3. ASSUME NEW n \in Nat, n \in Good PROVE n + 1 \in Good
  <2> SUFFICES ASSUME n + 1 <= MaxDepth + 1 PROVE \E G : Defined(G, n + 1)
    OBVIOUS
  <2>1. n \in 0 .. MaxDepth /\ n <= MaxDepth + 1
    BY DepthAssumption
  <2>2. PICK F : Defined(F, n)
    BY <1>3, <2>1
  <2> DEFINE G == [e \in Trees[n + 1] |-> Body(F, e)]
  <2>3. \A c \in Trees[n] : F[c] = Body(F, c)
    BY <2>2
  <2>4. \A c \in Trees[n] : G[c] = F[c]
    BY <2>1, <2>3, TreesGrow
  <2>5. \A e \in Trees[n + 1] : G[e] = Body(F, e)
    OBVIOUS
  <2>6. G = [e \in Trees[n + 1] |-> G[e]]
    OBVIOUS
  <2> HIDE DEF G
  <2>7. \A e \in Trees[n + 1] : Body(F, e) = Body(G, e)
    BY <1>1, <2>1, <2>4
  <2>8. Defined(G, n + 1)
    BY <2>5, <2>6, <2>7
  <2> HIDE DEF Defined
  <2> QED BY <2>8
<1>4. \E F : Defined(F, MaxDepth + 1)
  <2>1. Nat \subseteq Good
    <3> HIDE DEF Good
    <3> QED BY <1>2, <1>3, SetInduction
  <2>2. MaxDepth + 1 \in Good
    BY <2>1, DepthAssumption
  <2> HIDE DEF Defined
  <2> QED BY <2>2, DepthAssumption
<1>5. PICK V : V = CHOOSE F : Defined(F, MaxDepth + 1)
  OBVIOUS
<1>6. Defined(V, MaxDepth + 1)
  <2> HIDE DEF Defined
  <2> QED BY <1>4, <1>5
<1>7. \A e \in Exprs : V[e] = Body(V, e)
  BY <1>6 DEF Exprs
<1>8. \A e : Value(e, row) = V[e]
  BY <1>5 DEF Value, Exprs, Body
<1> QED BY <1>7, <1>8 DEF Body

\* Completeness of an expression from that of its children.
LEMMA CompleteDef ==
    \A e \in Exprs : Complete[e] <=> /\ e.class \notin {"Unknown", "Cast"} /\ Supported(e)
                                        /\ \A i \in DOMAIN e.children : Complete[e.children[i]]
<1> DEFINE Body(F, e) == (/\ e.class \notin {"Unknown", "Cast"} /\ Supported(e)
                           /\ \A i \in DOMAIN e.children : F[e.children[i]])
           Defined(F, n) == F = [e \in Trees[n] |-> Body(F, e)]
           Good == {n \in Nat : n <= MaxDepth + 1 => \E F : Defined(F, n)}
<1>1. ASSUME NEW n \in 0 .. MaxDepth, NEW e \in Trees[n + 1], NEW F, NEW G,
             \A c \in Trees[n] : F[c] = G[c]
      PROVE  Body(F, e) = Body(G, e)
  <2>1. e.children \in Seq(Trees[n])
    BY <1>1, TreeFacts
  <2>2. \A i \in DOMAIN e.children : F[e.children[i]] = G[e.children[i]]
    BY <1>1, <2>1
  <2> QED BY <2>2, Zenon
<1> HIDE DEF Body
<1>2. 0 \in Good
  <2> DEFINE F == [e \in Trees[0] |-> 0]
  <2>1. Trees[0] = {}
    BY TreesDef
  <2>2. Defined(F, 0)
    BY <2>1
  <2> HIDE DEF F, Defined
  <2> QED BY <2>2
<1>3. ASSUME NEW n \in Nat, n \in Good PROVE n + 1 \in Good
  <2> SUFFICES ASSUME n + 1 <= MaxDepth + 1 PROVE \E G : Defined(G, n + 1)
    OBVIOUS
  <2>1. n \in 0 .. MaxDepth /\ n <= MaxDepth + 1
    BY DepthAssumption
  <2>2. PICK F : Defined(F, n)
    BY <1>3, <2>1
  <2> DEFINE G == [e \in Trees[n + 1] |-> Body(F, e)]
  <2>3. \A c \in Trees[n] : F[c] = Body(F, c)
    BY <2>2
  <2>4. \A c \in Trees[n] : G[c] = F[c]
    BY <2>1, <2>3, TreesGrow
  <2>5. \A e \in Trees[n + 1] : G[e] = Body(F, e)
    OBVIOUS
  <2>6. G = [e \in Trees[n + 1] |-> G[e]]
    OBVIOUS
  <2> HIDE DEF G
  <2>7. \A e \in Trees[n + 1] : Body(F, e) = Body(G, e)
    BY <1>1, <2>1, <2>4
  <2>8. Defined(G, n + 1)
    BY <2>5, <2>6, <2>7
  <2> HIDE DEF Defined
  <2> QED BY <2>8
<1>4. \E F : Defined(F, MaxDepth + 1)
  <2>1. Nat \subseteq Good
    <3> HIDE DEF Good
    <3> QED BY <1>2, <1>3, SetInduction
  <2>2. MaxDepth + 1 \in Good
    BY <2>1, DepthAssumption
  <2> HIDE DEF Defined
  <2> QED BY <2>2, DepthAssumption
<1>5. Complete = CHOOSE F : Defined(F, MaxDepth + 1)
  BY DEF Complete, Exprs, Body
<1>6. Defined(Complete, MaxDepth + 1)
  <2> HIDE DEF Defined
  <2> QED BY <1>4, <1>5
<1>7. \A e \in Exprs : Complete[e] = Body(Complete, e)
  BY <1>6 DEF Exprs
<1> QED BY <1>7 DEF Body

\* What weakens an expression from what weakens its children.
LEMMA OnlyWeakenedDef ==
    \A e \in Exprs : OnlyWeakened[e] <=>
      \/ Complete[e]
      \/ expression_to_sql[e] = Untranslated
      \/ /\ e.class = "Conjunction" /\ e.type = "AND"
         /\ \A i \in DOMAIN e.children : OnlyWeakened[e.children[i]]
      \/ /\ e.class = "Operator" /\ e.type = "NOT_IN" /\ Complete[e.children[1]]
         /\ \A i \in DOMAIN e.children : \/ Complete[e.children[i]]
                                         \/ expression_to_sql[e.children[i]] = Untranslated
<1> DEFINE Body(F, e) == (\/ Complete[e]
                           \/ expression_to_sql[e] = Untranslated
                           \/ /\ e.class = "Conjunction" /\ e.type = "AND"
                              /\ \A i \in DOMAIN e.children : F[e.children[i]]
                           \/ /\ e.class = "Operator" /\ e.type = "NOT_IN" /\ Complete[e.children[1]]
                              /\ \A i \in DOMAIN e.children :
                                   \/ Complete[e.children[i]]
                                   \/ expression_to_sql[e.children[i]] = Untranslated)
           Defined(F, n) == F = [e \in Trees[n] |-> Body(F, e)]
           Good == {n \in Nat : n <= MaxDepth + 1 => \E F : Defined(F, n)}
<1>1. ASSUME NEW n \in 0 .. MaxDepth, NEW e \in Trees[n + 1], NEW F, NEW G,
             \A c \in Trees[n] : F[c] = G[c]
      PROVE  Body(F, e) = Body(G, e)
  <2>1. e.children \in Seq(Trees[n])
    BY <1>1, TreeFacts
  <2>2. \A i \in DOMAIN e.children : F[e.children[i]] = G[e.children[i]]
    BY <1>1, <2>1
  <2> QED BY <2>2, Zenon
<1> HIDE DEF Body
<1>2. 0 \in Good
  <2> DEFINE F == [e \in Trees[0] |-> 0]
  <2>1. Trees[0] = {}
    BY TreesDef
  <2>2. Defined(F, 0)
    BY <2>1
  <2> HIDE DEF F, Defined
  <2> QED BY <2>2
<1>3. ASSUME NEW n \in Nat, n \in Good PROVE n + 1 \in Good
  <2> SUFFICES ASSUME n + 1 <= MaxDepth + 1 PROVE \E G : Defined(G, n + 1)
    OBVIOUS
  <2>1. n \in 0 .. MaxDepth /\ n <= MaxDepth + 1
    BY DepthAssumption
  <2>2. PICK F : Defined(F, n)
    BY <1>3, <2>1
  <2> DEFINE G == [e \in Trees[n + 1] |-> Body(F, e)]
  <2>3. \A c \in Trees[n] : F[c] = Body(F, c)
    BY <2>2
  <2>4. \A c \in Trees[n] : G[c] = F[c]
    BY <2>1, <2>3, TreesGrow
  <2>5. \A e \in Trees[n + 1] : G[e] = Body(F, e)
    OBVIOUS
  <2>6. G = [e \in Trees[n + 1] |-> G[e]]
    OBVIOUS
  <2> HIDE DEF G
  <2>7. \A e \in Trees[n + 1] : Body(F, e) = Body(G, e)
    BY <1>1, <2>1, <2>4
  <2>8. Defined(G, n + 1)
    BY <2>5, <2>6, <2>7
  <2> HIDE DEF Defined
  <2> QED BY <2>8
<1>4. \E F : Defined(F, MaxDepth + 1)
  <2>1. Nat \subseteq Good
    <3> HIDE DEF Good
    <3> QED BY <1>2, <1>3, SetInduction
  <2>2. MaxDepth + 1 \in Good
    BY <2>1, DepthAssumption
  <2> HIDE DEF Defined
  <2> QED BY <2>2, DepthAssumption
<1>5. OnlyWeakened = CHOOSE F : Defined(F, MaxDepth + 1)
  BY DEF OnlyWeakened, Exprs, Body
<1>6. Defined(OnlyWeakened, MaxDepth + 1)
  <2> HIDE DEF Defined
  <2> QED BY <1>4, <1>5
<1>7. \A e \in Exprs : OnlyWeakened[e] = Body(OnlyWeakened, e)
  BY <1>6 DEF Exprs
<1> QED BY <1>7 DEF Body

\* What was translated, in its order.
LEMMA KnownFacts ==
    ASSUME NEW T, NEW s \in Seq(T)
    PROVE  /\ Known(s) \in Seq(T) /\ Len(Known(s)) <= Len(s)
           /\ \A j \in 1 .. Len(Known(s)) :
                 Known(s)[j] # Untranslated /\ \E i \in 1 .. Len(s) : Known(s)[j] = s[i]
           /\ \A i \in 1 .. Len(s) :
                 s[i] # Untranslated => \E j \in 1 .. Len(Known(s)) : Known(s)[j] = s[i]
           /\ Len(Known(s)) = Len(s) => Known(s) = s
           /\ (\A i \in 1 .. Len(s) : s[i] # Untranslated) => Len(Known(s)) = Len(s)
           /\ Len(s) > 0 /\ s[1] # Untranslated =>
                 /\ Len(Known(s)) > 0 /\ Known(s)[1] = s[1]
                 /\ \A j \in 2 .. Len(Known(s)) : \E i \in 2 .. Len(s) : Known(s)[j] = s[i]
<1>1. Known(s) = Without(s, Untranslated)
  BY DEF Known, Without
<1>2. Known(s) \in Seq(T) /\ Keeps(Known(s), s, Untranslated)
  BY <1>1, WithoutFacts
<1> QED BY <1>2 DEF Keeps

\* What a translation looks like: the expression itself, the text of what a cast
\* casts, the known parts, or all the parts.
LEMMA SqlShape ==
    ASSUME NEW e \in Exprs, NEW sqls, sql_of(e, sqls) # Untranslated
    PROVE  LET d == sql_of(e, sqls) known == Known(sqls)
           IN  \/ e.class \in {"ColumnRef", "Constant"} /\ d = e
               \/ e.class = "Cast" /\ d = sqls[1]
               \/ /\ d = Expr(e.class, e.type, known)
                  /\ \/ e.class = "Conjunction" /\ known # <<>>
                     \/ /\ e.class = "Operator" /\ e.type \in Lists
                        /\ sqls[1] # Untranslated /\ Len(known) > 1
                     \/ e.class = "Function" /\ e.type \notin Patterns
               \/ /\ d = Expr(e.class, e.type, sqls)
                  /\ Supported(e) /\ Len(known) = Len(sqls)
                  /\ \/ e.class \in {"Comparison", "Between"}
                     \/ e.class = "Operator" /\ e.type \notin Lists
                     \/ e.class = "Function" /\ e.type \in Patterns
<1>1. e.class \in Classes
  BY ExprFacts
<1>2. CASE e.class \in {"ColumnRef", "Constant", "Unknown", "Cast", "Conjunction"}
  BY <1>2 DEF sql_of
<1>3. CASE e.class = "Operator" /\ e.type \in Lists
  BY <1>3 DEF sql_of
<1>4. CASE e.class = "Function" /\ e.type \notin Patterns
  BY <1>4 DEF sql_of
<1>5. CASE \/ e.class \in {"Comparison", "Between"}
           \/ e.class = "Operator" /\ e.type \notin Lists
           \/ e.class = "Function" /\ e.type \in Patterns
  BY <1>5 DEF sql_of
<1> QED BY <1>1, <1>2, <1>3, <1>4, <1>5 DEF Classes

\* "No SQL" is no expression, so that a translated child is told from a dropped one.
LEMMA NoTreeIsUntranslated ==
    Untranslated \notin Exprs
<1>1. Untranslated.class = "None"
  BY DEF Untranslated, Expr
<1>2. "None" \notin Classes
  BY DEF Classes
<1> QED BY <1>1, <1>2, ExprFacts

\* The translation of a tree is a tree of as many levels, and an operand where
\* the tree is one.
LEMMA SqlClosed ==
    \A n \in Levels : \A e \in Trees[n] :
      expression_to_sql[e] # Untranslated =>
        expression_to_sql[e] \in Trees[n] /\ (Operand(e) => Operand(expression_to_sql[e]))
<1> DEFINE Closed(n, e, d) == d \in Trees[n] /\ (Operand(e) => Operand(d))
           Good == {n \in Nat : n <= MaxDepth + 1 =>
                      \A e \in Trees[n] : expression_to_sql[e] # Untranslated => Closed(n, e, expression_to_sql[e])}
<1>1. 0 \in Good
  BY TreesDef
<1>2. ASSUME NEW n \in Nat, n \in Good PROVE n + 1 \in Good
  <2> SUFFICES ASSUME n + 1 <= MaxDepth + 1, NEW e \in Trees[n + 1],
                      expression_to_sql[e] # Untranslated
               PROVE  Closed(n + 1, e, expression_to_sql[e])
    OBVIOUS
  <2>1. n \in 0 .. MaxDepth /\ n <= MaxDepth + 1 /\ n \in Levels /\ n + 1 \in Levels
    BY DepthAssumption DEF Levels
  <2>2. /\ e.class \in Classes /\ e.type \in Types /\ e.value \in Int
        /\ e.children \in Seq(Trees[n]) /\ WellFormed(e) /\ e \in Exprs
    BY <2>1, TreeFacts, TreesAreExprs
  <2>3. PICK c \in Seq(Trees[n]) : c = e.children
    BY <2>2
  <2> DEFINE S == [i \in DOMAIN e.children |-> expression_to_sql[e.children[i]]]
             T == Trees[n] \union {Untranslated}
  <2>4. PICK s : s = S
    OBVIOUS
  <2>5. /\ DOMAIN s = 1 .. Len(c) /\ Len(c) \in Nat
        /\ \A i \in 1 .. Len(c) : c[i] \in Trees[n] /\ s[i] = expression_to_sql[c[i]]
    BY <2>3, <2>4
  <2>6. \A i \in 1 .. Len(c) : s[i] # Untranslated => Closed(n, c[i], s[i])
    <3>1. \A d \in Trees[n] : expression_to_sql[d] # Untranslated => Closed(n, d, expression_to_sql[d])
      BY <1>2, <2>1
    <3> HIDE DEF Closed
    <3> QED BY <2>5, <3>1
  <2>7. s \in Seq(T) /\ Len(s) = Len(c)
    <3>1. \A i \in 1 .. Len(c) : s[i] \in T
      BY <2>5, <2>6
    <3>2. s = [i \in 1 .. Len(c) |-> s[i]]
      BY <2>3, <2>4, <2>5
    <3> HIDE DEF T
    <3> QED BY <2>5, <3>1, <3>2
  <2>8. expression_to_sql[e] = sql_of(e, s)
    BY <2>2, <2>4, SqlDef
  <2>9. PICK k \in Seq(T) :
          /\ k = Known(s) /\ Len(k) <= Len(s)
          /\ \A j \in 1 .. Len(k) : k[j] # Untranslated /\ \E i \in 1 .. Len(s) : k[j] = s[i]
          /\ Len(k) = Len(s) => k = s
    <3> HIDE DEF T
    <3> QED BY <2>7, KnownFacts
  <2>10. /\ k \in Seq(Trees[n])
         /\ (\A i \in DOMAIN c : Operand(c[i])) => \A j \in 1 .. Len(k) : Operand(k[j])
    <3>1. \A j \in 1 .. Len(k) : \E i \in 1 .. Len(c) : k[j] = s[i] /\ Closed(n, c[i], s[i])
      <4> HIDE DEF Closed
      <4> QED BY <2>6, <2>7, <2>9
    <3>2. \A j \in 1 .. Len(k) : k[j] \in Trees[n]
      BY <3>1
    <3>3. k \in Seq(Trees[n])
      BY <2>9, <3>2
    <3>4. ASSUME \A i \in DOMAIN c : Operand(c[i]), NEW j \in 1 .. Len(k) PROVE Operand(k[j])
      <4>1. PICK i \in 1 .. Len(c) : k[j] = s[i] /\ Closed(n, c[i], s[i])
        <5> HIDE DEF Closed
        <5> QED BY <3>1
      <4> QED BY <2>5, <3>4, <4>1
    <3> QED BY <3>3, <3>4
  <2>11. ASSUME NEW args \in Seq(Trees[n]), WellFormed(Expr(e.class, e.type, args))
         PROVE  Closed(n + 1, e, Expr(e.class, e.type, args))
    <3>1. PICK d : d = Expr(e.class, e.type, args)
      OBVIOUS
    <3>2. /\ d.class = e.class /\ d.type = e.type /\ d.children = args /\ d.value = 0
          /\ d \in [class : Classes, type : Types, value : Int, children : Seq(Trees[n])]
      BY <2>2, <3>1 DEF Expr
    <3>3. d \in Trees[n + 1]
      BY <2>1, <2>11, <3>1, <3>2, TreeFacts
    <3>4. Operand(e) => Operand(d)
      BY <3>2 DEF Operand
    <3> QED BY <3>1, <3>3, <3>4
  <2>12. CASE expression_to_sql[e] = e
    BY <2>12
  <2>13. CASE e.class = "Cast" /\ expression_to_sql[e] = s[1]
    <3>1. Len(c) = 1 /\ Operand(c[1])
      BY <2>2, <2>3, <2>13 DEF WellFormed
    <3>2. Closed(n, c[1], s[1])
      <4> HIDE DEF Closed
      <4> QED BY <2>6, <2>13, <3>1
    <3> QED BY <2>1, <2>13, <3>1, <3>2, TreesGrow
  <2>14. ASSUME NEW args \in Seq(Trees[n]), args = k,
                \/ e.class = "Conjunction" /\ args # <<>>
                \/ e.class = "Operator" /\ e.type \in Lists /\ Len(args) > 1
                \/ e.class = "Function" /\ e.type \notin Patterns
         PROVE  Closed(n + 1, e, Expr(e.class, e.type, args))
    <3>1. WellFormed(Expr(e.class, e.type, args))
      <4>1. PICK d : d = Expr(e.class, e.type, args)
        OBVIOUS
      <4>2. d.class = e.class /\ d.type = e.type /\ d.children = args /\ d.value = 0
        BY <4>1 DEF Expr
      <4> SUFFICES WellFormed(d)
        BY <4>1
      <4>3. CASE e.class = "Conjunction" /\ args # <<>>
        BY <2>2, <4>2, <4>3 DEF WellFormed
      <4>4. CASE e.class = "Operator" /\ e.type \in Lists /\ Len(args) > 1
        <5>1. \A i \in DOMAIN c : Operand(c[i])
          BY <2>2, <2>3, <2>5, <4>4 DEF WellFormed, Lists, Tests
        <5>2. \A i \in 1 .. Len(args) : Operand(args[i])
          BY <2>10, <2>14, <5>1
        <5>3. e.type # "NOT" /\ e.type \notin Tests
          BY <4>4 DEF Lists, Tests
        <5> QED BY <4>2, <4>4, <5>2, <5>3 DEF WellFormed
      <4>5. CASE e.class = "Function" /\ e.type \notin Patterns
        BY <4>2, <4>5 DEF WellFormed
      <4> QED BY <2>14, <4>3, <4>4, <4>5
    <3> QED BY <2>11, <3>1
  <2>15. ASSUME expression_to_sql[e] = Expr(e.class, e.type, s), Len(k) = Len(s),
                e.class \notin {"Cast", "Constant", "ColumnRef"}
         PROVE  Closed(n + 1, e, expression_to_sql[e])
    <3>1. /\ s \in Seq(Trees[n])
          /\ (\A i \in DOMAIN c : Operand(c[i])) => \A j \in 1 .. Len(s) : Operand(s[j])
      BY <2>9, <2>10, <2>15
    <3>2. WellFormed(Expr(e.class, e.type, s))
      <4>1. PICK d : d = Expr(e.class, e.type, s)
        OBVIOUS
      <4>2. d.class = e.class /\ d.type = e.type /\ d.children = s /\ d.value = 0
        BY <4>1 DEF Expr
      <4>3. Len(d.children) = Len(e.children) /\ DOMAIN c = 1 .. Len(c)
        BY <2>3, <2>5, <2>7, <4>2
      <4>4. (\A i \in 1 .. Len(e.children) : Operand(e.children[i]))
              => \A i \in 1 .. Len(d.children) : Operand(d.children[i])
        BY <2>3, <2>5, <2>7, <3>1, <4>2
      <4>5. WellFormed(d)
        BY <2>2, <4>2, <4>3, <4>4 DEF WellFormed
      <4> QED BY <4>1, <4>5
    <3> QED BY <2>11, <2>15, <3>1, <3>2
  <2> HIDE DEF Closed
  <2>16. sql_of(e, s) # Untranslated
    BY <2>8
  <2> QED BY <2>2, <2>8, <2>9, <2>10, <2>12, <2>13, <2>14, <2>15, <2>16, SqlShape
<1>3. Nat \subseteq Good
  <2> HIDE DEF Good
  <2> QED BY <1>1, <1>2, SetInduction
<1> QED BY <1>3, DepthAssumption DEF Levels

\* A complete expression is its own translation.
LEMMA Exact ==
    \A e \in Exprs : Complete[e] => expression_to_sql[e] = e
<1> DEFINE Good == {n \in Nat : n <= MaxDepth + 1 =>
                      \A e \in Trees[n] : Complete[e] => expression_to_sql[e] = e}
<1>1. 0 \in Good
  BY TreesDef
<1>2. ASSUME NEW n \in Nat, n \in Good PROVE n + 1 \in Good
  <2> SUFFICES ASSUME n + 1 <= MaxDepth + 1, NEW e \in Trees[n + 1], Complete[e]
               PROVE  expression_to_sql[e] = e
    OBVIOUS
  <2>1. n \in 0 .. MaxDepth /\ n <= MaxDepth + 1 /\ n \in Levels /\ n + 1 \in Levels
    BY DepthAssumption DEF Levels
  <2>2. PICK c \in Seq(Trees[n]) : c = e.children
    BY <2>1, TreeFacts
  <2>3. /\ e \in Exprs /\ e.class \in Classes /\ WellFormed(e)
        /\ e = [class |-> e.class, type |-> e.type, value |-> e.value, children |-> c]
    BY <2>1, <2>2, TreesAreExprs, ExprFacts
  <2>4. /\ e.class \notin {"Unknown", "Cast"} /\ Supported(e)
        /\ \A i \in DOMAIN c : Complete[c[i]]
    BY <2>2, <2>3, CompleteDef
  <2>5. \A i \in DOMAIN c : c[i] \in Trees[n] /\ expression_to_sql[c[i]] = c[i]
    BY <1>2, <2>1, <2>4
  <2>6. [i \in DOMAIN c |-> expression_to_sql[c[i]]] = c
    BY <2>5
  <2>7. expression_to_sql[e] = sql_of(e, c)
    BY <2>2, <2>3, <2>6, SqlDef
  <2>8. \A i \in 1 .. Len(c) : c[i] # Untranslated
    BY <2>1, <2>5, TreesAreExprs, NoTreeIsUntranslated
  <2>9. Known(c) = c
    BY <2>8, KnownFacts
  <2>10. e.class # "Constant" => Expr(e.class, e.type, c) = e
    BY <2>3 DEF Expr, WellFormed
  <2>11. CASE e.class \in {"ColumnRef", "Constant"}
    BY <2>7, <2>11 DEF sql_of
  <2>12. CASE e.class = "Conjunction"
    <3>1. c # <<>>
      BY <2>2, <2>3, <2>12 DEF WellFormed
    <3> QED BY <2>7, <2>9, <2>10, <2>12, <3>1 DEF sql_of
  <2>13. CASE e.class = "Operator" /\ e.type \in Lists
    <3>1. Len(c) > 1
      BY <2>2, <2>3, <2>13 DEF WellFormed
    <3>2. c[1] # Untranslated
      BY <2>8, <3>1
    <3> QED BY <2>7, <2>9, <2>10, <2>13, <3>1, <3>2 DEF sql_of
  <2>14. CASE e.class = "Function" /\ e.type \notin Patterns
    <3>1. c # <<>> \/ c = <<>>
      OBVIOUS
    <3> QED BY <2>7, <2>9, <2>10, <2>14, <3>1 DEF sql_of
  <2>15. CASE \/ e.class \in {"Comparison", "Between"}
              \/ e.class = "Operator" /\ e.type \notin Lists
              \/ e.class = "Function" /\ e.type \in Patterns
    BY <2>4, <2>7, <2>9, <2>10, <2>15 DEF sql_of
  <2> QED BY <2>3, <2>4, <2>11, <2>12, <2>13, <2>14, <2>15 DEF Classes
<1>3. Nat \subseteq Good
  <2> HIDE DEF Good
  <2> QED BY <1>1, <1>2, SetInduction
<1>4. MaxDepth + 1 \in Good
  BY <1>3, DepthAssumption
<1> QED BY <1>4, DepthAssumption DEF Exprs

\* The order of the truth values.
Truths == {Null, 0, 1}

\* AND: the weakest of some truth values is one of them, and true if all are.
LEMMA WeakestFacts ==
    ASSUME NEW vs \in SUBSET Truths, vs # {}
    PROVE  Weakest(vs) \in vs /\ (Weakest(vs) = 1 <=> \A v \in vs : v = 1)
<1>1. \E v \in vs : \A w \in vs : Rank(v) <= Rank(w)
  <2>1. CASE 0 \in vs
    BY <2>1 DEF Truths, Null, Rank
  <2>2. CASE 0 \notin vs /\ Null \in vs
    BY <2>2 DEF Truths, Null, Rank
  <2>3. CASE 0 \notin vs /\ Null \notin vs
    <3>1. \A v \in vs : v = 1
      BY <2>3 DEF Truths
    <3>2. PICK v \in vs : v = 1
      BY <3>1
    <3>3. Rank(1) \in Int
      BY DEF Rank, Null
    <3> QED BY <3>1, <3>2, <3>3
  <2> QED BY <2>1, <2>2, <2>3
<1>2. PICK m : m = Weakest(vs)
  OBVIOUS
<1>3. m \in vs /\ \A w \in vs : Rank(m) <= Rank(w)
  BY <1>1, <1>2 DEF Weakest
<1>4. m = 1 => \A v \in vs : v = 1
  BY <1>3 DEF Truths, Null, Rank
<1> QED BY <1>2, <1>3, <1>4

\* OR and IN: the strongest is one of them, and false if all are.
LEMMA StrongestFacts ==
    ASSUME NEW vs \in SUBSET Truths, vs # {}
    PROVE  Strongest(vs) \in vs /\ (Strongest(vs) = 0 <=> \A v \in vs : v = 0)
<1>1. \E v \in vs : \A w \in vs : Rank(v) >= Rank(w)
  <2>1. CASE 1 \in vs
    BY <2>1 DEF Truths, Null, Rank
  <2>2. CASE 1 \notin vs /\ Null \in vs
    BY <2>2 DEF Truths, Null, Rank
  <2>3. CASE 1 \notin vs /\ Null \notin vs
    <3>1. \A v \in vs : v = 0
      BY <2>3 DEF Truths
    <3>2. PICK v \in vs : v = 0
      BY <3>1
    <3>3. Rank(0) \in Int
      BY DEF Rank, Null
    <3> QED BY <3>1, <3>2, <3>3
  <2> QED BY <2>1, <2>2, <2>3
<1>2. PICK m : m = Strongest(vs)
  OBVIOUS
<1>3. m \in vs /\ \A w \in vs : Rank(m) >= Rank(w)
  BY <1>1, <1>2 DEF Strongest
<1>4. m = 0 => \A v \in vs : v = 0
  BY <1>3 DEF Truths, Null, Rank
<1> QED BY <1>2, <1>3, <1>4

\* A conjunction is true where all its members are.
LEMMA ConjunctionValue ==
    ASSUME NEW row, NEW e \in Exprs, e.class = "Conjunction", e.type = "AND"
    PROVE  Truth3(Value(e, row)) = 1
             <=> \A i \in 1 .. Len(e.children) : Truth3(Value(e.children[i], row)) = 1
<1>1. PICK c \in Seq(Exprs) : c = e.children
  BY ExprFacts
<1>2. Len(c) \in Nat /\ Len(c) > 0 /\ DOMAIN c = 1 .. Len(c)
  BY <1>1, ExprFacts DEF WellFormed
<1>3. PICK vs : vs = [i \in DOMAIN c |-> Value(c[i], row)]
  OBVIOUS
<1>4. PICK ts : ts = {Truth3(vs[i]) : i \in DOMAIN vs}
  OBVIOUS
<1>5. Value(e, row) = Weakest(ts)
  <2>1. Value(e, row) = value_of(e, vs, row)
    BY <1>1, <1>3, ValueDef
  <2> QED BY <1>4, <2>1 DEF value_of
<1>6. DOMAIN vs = 1 .. Len(c) /\ \A i \in 1 .. Len(c) : vs[i] = Value(c[i], row)
  BY <1>2, <1>3
<1>7. ts \in SUBSET Truths /\ ts # {}
  <2>1. \A v : Truth3(v) \in Truths
    BY DEF Truth3, Truths, Null
  <2>2. 1 \in DOMAIN vs
    BY <1>2, <1>6
  <2> QED BY <1>4, <2>1, <2>2
<1>8. Weakest(ts) \in Truths /\ (Weakest(ts) = 1 <=> \A v \in ts : v = 1)
  BY <1>7, WeakestFacts
<1>9. Truth3(Weakest(ts)) = 1 <=> Weakest(ts) = 1
  BY <1>8 DEF Truths, Null, Truth3
<1>10. (\A v \in ts : v = 1) <=> \A i \in 1 .. Len(c) : Truth3(Value(c[i], row)) = 1
  BY <1>4, <1>6
<1> QED BY <1>1, <1>5, <1>8, <1>9, <1>10

\* NOT IN is true where no listed value equals the first.
LEMMA NotInValue ==
    ASSUME NEW row, NEW e \in Exprs, e.class = "Operator", e.type = "NOT_IN"
    PROVE  Truth3(Value(e, row)) = 1
             <=> \A i \in 2 .. Len(e.children) :
                   Compare("=", Value(e.children[1], row), Value(e.children[i], row)) = 0
<1>1. PICK c \in Seq(Exprs) : c = e.children
  BY ExprFacts
<1>2. Len(c) \in Nat /\ Len(c) > 1 /\ DOMAIN c = 1 .. Len(c)
  <2>1. "NOT_IN" \in Lists
    BY DEF Lists
  <2> QED BY <1>1, <2>1, ExprFacts DEF WellFormed
<1>3. PICK vs : vs = [i \in DOMAIN c |-> Value(c[i], row)]
  OBVIOUS
<1>4. DOMAIN vs = 1 .. Len(c) /\ Len(vs) = Len(c) /\ \A i \in 1 .. Len(c) : vs[i] = Value(c[i], row)
  BY <1>2, <1>3
<1>5. PICK ts : ts = {Compare("=", vs[1], vs[i]) : i \in 2 .. Len(vs)}
  OBVIOUS
<1>6. Value(e, row) = Not3(Strongest(ts))
  <2>1. Value(e, row) = value_of(e, vs, row)
    BY <1>1, <1>3, ValueDef
  <2> QED BY <1>5, <2>1 DEF value_of
<1>7. ts \in SUBSET Truths /\ ts # {}
  <2>1. \A x, y : Compare("=", x, y) \in Truths
    BY DEF Compare, Truth, Truths, Null
  <2>2. 2 \in 2 .. Len(vs)
    BY <1>2, <1>4
  <2> QED BY <1>5, <2>1, <2>2
<1>8. Strongest(ts) \in Truths /\ (Strongest(ts) = 0 <=> \A v \in ts : v = 0)
  BY <1>7, StrongestFacts
<1>9. Truth3(Not3(Strongest(ts))) = 1 <=> Strongest(ts) = 0
  BY <1>8 DEF Truths, Null, Truth3, Not3
<1>10. (\A v \in ts : v = 0)
         <=> \A i \in 2 .. Len(c) : Compare("=", Value(c[1], row), Value(c[i], row)) = 0
  <2>1. \A i \in 2 .. Len(c) : i \in 1 .. Len(c)
    OBVIOUS
  <2>2. 1 \in 1 .. Len(c)
    BY <1>2
  <2>3. (\A v \in ts : v = 0) <=> \A i \in 2 .. Len(c) : Compare("=", vs[1], vs[i]) = 0
    BY <1>4, <1>5
  <2>4. vs[1] = Value(c[1], row) /\ \A i \in 2 .. Len(c) : vs[i] = Value(c[i], row)
    BY <1>4, <2>1, <2>2
  <2> QED BY <2>3, <2>4
<1> QED BY <1>1, <1>6, <1>8, <1>9, <1>10

\* Dropping the rest of a conjunction, or values a NOT IN excludes, keeps every
\* row the expression selects.
LEMMA Weaker ==
    ASSUME NEW row
    PROVE  \A e \in Exprs :
             OnlyWeakened[e] /\ expression_to_sql[e] # Untranslated /\ Truth3(Value(e, row)) = 1
               => Truth3(Value(expression_to_sql[e], row)) = 1
<1> DEFINE Weakens(e) ==
             OnlyWeakened[e] /\ expression_to_sql[e] # Untranslated /\ Truth3(Value(e, row)) = 1
               => Truth3(Value(expression_to_sql[e], row)) = 1
           Good == {n \in Nat : n <= MaxDepth + 1 => \A e \in Trees[n] : Weakens(e)}
<1>1. 0 \in Good
  BY TreesDef
<1>2. ASSUME NEW n \in Nat, n \in Good PROVE n + 1 \in Good
  <2> SUFFICES ASSUME n + 1 <= MaxDepth + 1, NEW e \in Trees[n + 1],
                      OnlyWeakened[e], expression_to_sql[e] # Untranslated, Truth3(Value(e, row)) = 1
               PROVE  Truth3(Value(expression_to_sql[e], row)) = 1
    OBVIOUS
  <2>1. n \in 0 .. MaxDepth /\ n <= MaxDepth + 1 /\ n \in Levels /\ n + 1 \in Levels
    BY DepthAssumption DEF Levels
  <2>2. PICK c \in Seq(Trees[n]) : c = e.children
    BY <2>1, TreeFacts
  <2>3. e \in Exprs /\ e.class \in Classes /\ WellFormed(e) /\ expression_to_sql[e] \in Exprs
    BY <2>1, TreesAreExprs, ExprFacts, SqlClosed
  <2>4. PICK s : s = [i \in DOMAIN c |-> expression_to_sql[c[i]]]
    OBVIOUS
  <2>5. /\ DOMAIN c = 1 .. Len(c) /\ Len(c) \in Nat /\ DOMAIN s = 1 .. Len(c)
        /\ \A i \in 1 .. Len(c) : c[i] \in Exprs /\ s[i] = expression_to_sql[c[i]] /\ Weakens(c[i])
    <3>1. \A i \in 1 .. Len(c) : c[i] \in Trees[n]
      OBVIOUS
    <3>2. \A d \in Trees[n] : d \in Exprs /\ Weakens(d)
      <4> HIDE DEF Weakens
      <4> QED BY <1>2, <2>1, TreesAreExprs
    <3> HIDE DEF Weakens
    <3> QED BY <2>4, <3>1, <3>2
  <2>6. expression_to_sql[e] = sql_of(e, s)
    BY <2>2, <2>3, <2>4, SqlDef
  <2> DEFINE T == Exprs \union {Untranslated}
  <2>7. s \in Seq(T) /\ Len(s) = Len(c)
    <3>1. \A i \in 1 .. Len(c) : s[i] \in T
      BY <2>5, <2>1, SqlClosed, TreesAreExprs
    <3>2. s = [i \in 1 .. Len(c) |-> s[i]]
      BY <2>4, <2>5
    <3> HIDE DEF T
    <3> QED BY <2>5, <3>1, <3>2
  <2>8. PICK k \in Seq(T) :
          /\ k = Known(s)
          /\ \A j \in 1 .. Len(k) : k[j] # Untranslated /\ \E i \in 1 .. Len(s) : k[j] = s[i]
          /\ Len(s) > 0 /\ s[1] # Untranslated =>
                /\ Len(k) > 0 /\ k[1] = s[1]
                /\ \A j \in 2 .. Len(k) : \E i \in 2 .. Len(s) : k[j] = s[i]
    <3> HIDE DEF T
    <3> QED BY <2>7, KnownFacts
  <2>9. CASE Complete[e]
    BY <2>3, <2>9, Exact
  <2>10. CASE /\ e.class = "Conjunction" /\ e.type = "AND"
              /\ \A i \in DOMAIN c : OnlyWeakened[c[i]]
    <3>1. PICK d \in Exprs : d = expression_to_sql[e] /\ d = Expr(e.class, e.type, k)
      <4>1. expression_to_sql[e] = Expr(e.class, e.type, k)
        BY <2>6, <2>8, <2>10 DEF sql_of
      <4> QED BY <2>3, <4>1
    <3>2. d.class = "Conjunction" /\ d.type = "AND" /\ d.children = k
      BY <2>10, <3>1 DEF Expr
    <3>3. \A i \in 1 .. Len(c) : Truth3(Value(c[i], row)) = 1
      BY <2>2, <2>3, <2>10, ConjunctionValue
    <3>4. ASSUME NEW j \in 1 .. Len(k) PROVE Truth3(Value(k[j], row)) = 1
      <4>1. PICK i \in 1 .. Len(c) : k[j] = s[i] /\ s[i] # Untranslated
        BY <2>7, <2>8
      <4>2. s[i] = expression_to_sql[c[i]] /\ Weakens(c[i])
        <5> HIDE DEF Weakens
        <5> QED BY <2>5
      <4> QED BY <2>5, <2>10, <3>3, <4>1, <4>2
    <3> QED BY <3>1, <3>2, <3>4, ConjunctionValue
  <2>11. CASE /\ e.class = "Operator" /\ e.type = "NOT_IN" /\ Complete[c[1]]
              /\ \A i \in DOMAIN c : Complete[c[i]] \/ expression_to_sql[c[i]] = Untranslated
    <3>1. Len(c) > 1 /\ "NOT_IN" \in Lists
      BY <2>2, <2>3, <2>11 DEF WellFormed, Lists
    <3>2. \A i \in 1 .. Len(c) : s[i] # Untranslated => s[i] = c[i]
      BY <2>5, <2>11, Exact
    <3>3. s[1] = c[1] /\ s[1] # Untranslated
      BY <2>5, <2>11, <3>1, Exact, NoTreeIsUntranslated
    <3>4. PICK d \in Exprs : d = expression_to_sql[e] /\ d = Expr(e.class, e.type, k)
      <4>1. expression_to_sql[e] = Expr(e.class, e.type, k)
        BY <2>6, <2>8, <2>11, <3>1 DEF sql_of
      <4> QED BY <2>3, <4>1
    <3>5. d.class = "Operator" /\ d.type = "NOT_IN" /\ d.children = k
      BY <2>11, <3>4 DEF Expr
    <3>6. \A i \in 2 .. Len(c) : Compare("=", Value(c[1], row), Value(c[i], row)) = 0
      BY <2>2, <2>3, <2>11, NotInValue
    <3>7. k[1] = c[1] /\ \A j \in 2 .. Len(k) : \E i \in 2 .. Len(c) : k[j] = s[i]
      <4>1. Len(s) = Len(c) /\ Len(s) > 0
        BY <2>5, <2>7, <3>1
      <4> HIDE DEF T
      <4> QED BY <2>8, <3>3, <4>1
    <3>8. ASSUME NEW j \in 2 .. Len(k)
          PROVE  Compare("=", Value(k[1], row), Value(k[j], row)) = 0
      <4>1. PICK i \in 2 .. Len(c) : k[j] = s[i]
        BY <3>7
      <4>2. j \in 1 .. Len(k) /\ i \in 1 .. Len(c)
        BY <2>5
      <4>3. k[j] = c[i]
        BY <2>8, <3>2, <4>1, <4>2
      <4> QED BY <3>6, <3>7, <4>3
    <3> QED BY <3>4, <3>5, <3>8, NotInValue
  <2> QED BY <2>2, <2>3, <2>9, <2>10, <2>11, OnlyWeakenedDef
<1>3. Nat \subseteq Good
  <2> HIDE DEF Good
  <2> QED BY <1>1, <1>2, SetInduction
<1>4. MaxDepth + 1 \in Good
  BY <1>3, DepthAssumption
<1> QED BY <1>4, DepthAssumption DEF Exprs

\* The clause of a list of filters: the conditions that were translated, ANDed.
LEMMA ClauseValue ==
    ASSUME NEW row, NEW filters \in Seq(Trees[MaxDepth])
    PROVE  LET where == parse_filters_to_where_clause(filters)
           IN  Selects(where, row)
                 <=> \A i \in 1 .. Len(filters) :
                       expression_to_sql[filters[i]] # Untranslated
                         => Truth3(Value(expression_to_sql[filters[i]], row)) = 1
<1>1. MaxDepth \in 0 .. MaxDepth /\ MaxDepth \in Levels /\ Trees[MaxDepth] \subseteq Exprs
  BY DepthAssumption, TreesAreExprs DEF Levels
<1>2. PICK s : s = sqls_of(filters)
  OBVIOUS
<1>3. /\ Len(filters) \in Nat /\ DOMAIN filters = 1 .. Len(filters) /\ DOMAIN s = 1 .. Len(filters)
      /\ \A i \in 1 .. Len(filters) : s[i] = expression_to_sql[filters[i]]
  BY <1>2 DEF sqls_of
<1> DEFINE T == Trees[MaxDepth] \union {Untranslated}
<1>4. s \in Seq(T) /\ Len(s) = Len(filters)
  <2>1. \A i \in 1 .. Len(filters) : s[i] \in T
    BY <1>1, <1>3, SqlClosed
  <2>2. s = [i \in 1 .. Len(filters) |-> s[i]]
    BY <1>2, <1>3 DEF sqls_of
  <2> HIDE DEF T
  <2> QED BY <1>3, <2>1, <2>2
<1>5. PICK k \in Seq(T) :
        /\ k = Known(s)
        /\ \A j \in 1 .. Len(k) : k[j] # Untranslated /\ \E i \in 1 .. Len(s) : k[j] = s[i]
        /\ \A i \in 1 .. Len(s) : s[i] # Untranslated => \E j \in 1 .. Len(k) : k[j] = s[i]
  <2> HIDE DEF T
  <2> QED BY <1>4, KnownFacts
<1>6. k \in Seq(Trees[MaxDepth]) /\ Len(k) \in Nat
  <2>1. \A j \in 1 .. Len(k) : k[j] \in T
    <3> HIDE DEF T
    <3> QED OBVIOUS
  <2>2. \A j \in 1 .. Len(k) : k[j] \in Trees[MaxDepth]
    BY <1>5, <2>1
  <2>3. Len(k) \in Nat /\ DOMAIN k = 1 .. Len(k) /\ k = [j \in 1 .. Len(k) |-> k[j]]
    <3> HIDE DEF T
    <3> QED OBVIOUS
  <2> QED BY <2>2, <2>3
<1>7. (\A j \in 1 .. Len(k) : Truth3(Value(k[j], row)) = 1)
        <=> \A i \in 1 .. Len(filters) : s[i] # Untranslated => Truth3(Value(s[i], row)) = 1
  <2> HIDE DEF T
  <2>1. ASSUME \A j \in 1 .. Len(k) : Truth3(Value(k[j], row)) = 1,
               NEW i \in 1 .. Len(filters), s[i] # Untranslated
        PROVE  Truth3(Value(s[i], row)) = 1
    <3>1. PICK j \in 1 .. Len(k) : k[j] = s[i]
      BY <1>4, <1>5, <2>1
    <3> QED BY <2>1, <3>1
  <2>2. ASSUME \A i \in 1 .. Len(filters) : s[i] # Untranslated => Truth3(Value(s[i], row)) = 1,
               NEW j \in 1 .. Len(k)
        PROVE  Truth3(Value(k[j], row)) = 1
    <3>1. PICK i \in 1 .. Len(s) : k[j] = s[i] /\ s[i] # Untranslated
      BY <1>5
    <3> QED BY <1>4, <2>2, <3>1
  <2> QED BY <2>1, <2>2
<1>8. CASE k = <<>>
  <2>1. parse_filters_to_where_clause(filters) = Untranslated
    BY <1>2, <1>5, <1>8 DEF parse_filters_to_where_clause
  <2>2. 1 .. Len(k) = {}
    BY <1>8
  <2> QED BY <1>3, <1>7, <2>1, <2>2 DEF Selects
<1>9. CASE k # <<>>
  <2>1. PICK d : d = Expr("Conjunction", "AND", k)
    OBVIOUS
  <2>2. parse_filters_to_where_clause(filters) = d
    BY <1>2, <1>5, <1>9, <2>1 DEF parse_filters_to_where_clause
  <2>3. d.class = "Conjunction" /\ d.type = "AND" /\ d.children = k /\ d.value = 0
    BY <2>1 DEF Expr
  <2>4. d \in Exprs
    <3>1. d \in [class : Classes, type : Types, value : Int, children : Seq(Trees[MaxDepth])]
      <4>1. d = [class |-> "Conjunction", type |-> "AND", value |-> 0, children |-> k]
        BY <2>1 DEF Expr
      <4>2. "Conjunction" \in Classes
        BY DEF Classes
      <4>5. "AND" \in Types /\ 0 \in Int
        BY DEF Types
      <4>3. PICK K : K = Seq(Trees[MaxDepth])
        OBVIOUS
      <4>4. k \in K
        BY <1>6, <4>3
      <4> HIDE DEF T
      <4> QED BY <4>1, <4>2, <4>3, <4>4, <4>5
    <3>2. WellFormed(d)
      BY <1>6, <1>9, <2>3 DEF WellFormed
    <3> QED BY <1>1, <3>1, <3>2, TreeFacts DEF Exprs
  <2>5. d # Untranslated
    BY <2>4, NoTreeIsUntranslated
  <2>6. Truth3(Value(d, row)) = 1 <=> \A j \in 1 .. Len(k) : Truth3(Value(k[j], row)) = 1
    BY <2>3, <2>4, ConjunctionValue
  <2> QED BY <1>3, <1>7, <2>2, <2>5, <2>6 DEF Selects
<1> QED BY <1>8, <1>9

\* Filters whose translation only weakens them keep, under the clause, every row
\* they select, and exactly those where everything was translated.
LEMMA ClauseKeepsRows ==
    ASSUME NEW row, NEW filters \in Seq(Trees[MaxDepth]),
           \A i \in DOMAIN filters : OnlyWeakened[filters[i]]
    PROVE  LET where == parse_filters_to_where_clause(filters)
               wanted == \A i \in DOMAIN filters : Selects(filters[i], row)
           IN  /\ wanted => Selects(where, row)
               /\ (\A i \in DOMAIN filters : Complete[filters[i]]) => (Selects(where, row) <=> wanted)
<1>1. Trees[MaxDepth] \subseteq Exprs /\ MaxDepth \in Levels
  BY DepthAssumption, TreesAreExprs DEF Levels
<1>2. /\ DOMAIN filters = 1 .. Len(filters)
      /\ \A i \in 1 .. Len(filters) : filters[i] \in Exprs /\ filters[i] # Untranslated
  BY <1>1, NoTreeIsUntranslated
<1>3. \A i \in 1 .. Len(filters) : Selects(filters[i], row) <=> Truth3(Value(filters[i], row)) = 1
  BY <1>2 DEF Selects
<1>4. (\A i \in DOMAIN filters : Selects(filters[i], row))
        => Selects(parse_filters_to_where_clause(filters), row)
  BY <1>2, <1>3, Weaker, ClauseValue
<1>5. ASSUME \A i \in DOMAIN filters : Complete[filters[i]]
      PROVE  Selects(parse_filters_to_where_clause(filters), row)
               <=> \A i \in DOMAIN filters : Selects(filters[i], row)
  <2>1. \A i \in 1 .. Len(filters) : expression_to_sql[filters[i]] = filters[i]
    BY <1>2, <1>5, Exact
  <2> QED BY <1>2, <1>3, <2>1, ClauseValue
<1> QED BY <1>4, <1>5

-----------------------------------------------------------------------------
(* Prepared INSERTs: where the values of the batches land.                       *)

\* Where an entry first is in a sequence; 0 where it is not.
LEMMA PositionFacts ==
    ASSUME NEW T, NEW s \in Seq(T), NEW x
    PROVE  /\ position(s, x) \in 0 .. Len(s)
           /\ position(s, x) # 0 => s[position(s, x)] = x
           /\ (\E i \in 1 .. Len(s) : s[i] = x) <=> position(s, x) # 0
<1> DEFINE I == {i \in 1 .. Len(s) : s[i] = x}
<1>1. position(s, x) = IF I # {} THEN Min(I) ELSE 0
  BY DEF position, SelectInSeq
<1>2. CASE I = {}
  BY <1>1, <1>2
<1>3. CASE I # {}
  <2>1. I \subseteq Nat /\ I \subseteq 1 .. Len(s)
    OBVIOUS
  <2>2. Min(I) \in I
    <3> HIDE DEF I
    <3> QED BY <1>3, <2>1, Least DEF Min
  <2> QED BY <1>1, <1>3, <2>1, <2>2
<1> QED BY <1>2, <1>3

\* What align_batch_to_table_schema takes its values from.
Used(batch, w) ==
    IF /\ has_positional_field_names(batch)
       /\ Len(batch.names) > w
       /\ Len(batch.names) % w = 0
       /\ Len(batch.rows) = 1
    THEN reshape_batch_for_multi_row_insert(batch, w) ELSE batch

Numbered == [number : Int, word : STRING]

\* A batch's rows are of its width.
LEMMA BatchFacts ==
    ASSUME NEW batch \in Batches
    PROVE  /\ batch.names \in Seq(Numbered) /\ batch.rows \in Seq(Seq(Int))
           /\ Len(batch.names) \in Nat /\ Len(batch.rows) \in Nat
           /\ DOMAIN batch.rows = 1 .. Len(batch.rows)
           /\ \A r \in 1 .. Len(batch.rows) :
                 batch.rows[r] \in Seq(Int) /\ Len(batch.rows[r]) = Len(batch.names)
<1>1. batch.names \in Seq(Numbered) /\ batch.rows \in Seq(Seq(Int))
  BY DEF Batches, Numbered
<1>2. \A r \in DOMAIN batch.rows : Len(batch.rows[r]) = Len(batch.names)
  BY DEF Batches
<1>3. PICK rows \in Seq(Seq(Int)) : rows = batch.rows
  BY <1>1
<1>4. Len(rows) \in Nat /\ DOMAIN rows = 1 .. Len(rows) /\ \A r \in 1 .. Len(rows) : rows[r] \in Seq(Int)
  OBVIOUS
<1>5. Len(batch.names) \in Nat
  BY <1>1
<1> QED BY <1>1, <1>2, <1>3, <1>4, <1>5, Zenon

\* A batch's values in the order they were sent, by row and column.
LEMMA FlattenBatch ==
    ASSUME NEW batch \in Batches, NEW n \in Nat, n = Len(batch.names)
    PROVE  RowByRow(FlattenSeq(batch.rows), batch.rows, n)
<1>1. /\ batch.rows \in Seq(Seq(Int))
      /\ \A r \in 1 .. Len(batch.rows) : Len(batch.rows[r]) = Len(batch.names)
  BY BatchFacts, Zenon
<1>2. PICK rows \in Seq(Seq(Int)) : rows = batch.rows /\ \A r \in 1 .. Len(rows) : Len(rows[r]) = n
  BY <1>1, Zenon
<1>3. RowByRow(FlattenSeq(rows), rows, n)
  BY <1>2, FlattenRows
<1> QED BY <1>2, <1>3

\* The rows that are aligned have the values of the batch, w in a row.
Dealt(used, batch, w) ==
    /\ Len(used.names) = w
    /\ Len(used.rows) \in Nat /\ DOMAIN used.rows = 1 .. Len(used.rows)
    /\ Len(FlattenSeq(batch.rows)) \div w = Len(used.rows)
    /\ \A r \in 1 .. Len(used.rows), c \in 1 .. w :
          used.rows[r][c] = FlattenSeq(batch.rows)[(r - 1) * w + c]
    /\ has_positional_field_names(used) <=> has_positional_field_names(batch)
    /\ ~ has_positional_field_names(batch) => used = batch

\* A batch of the listed width is taken as it is.
LEMMA DealtAsSent ==
    ASSUME NEW batch \in Batches, NEW w \in Nat \ {0}, Len(batch.names) = w
    PROVE  Dealt(Used(batch, w), batch, w)
<1>0. /\ Len(batch.rows) \in Nat /\ DOMAIN batch.rows = 1 .. Len(batch.rows)
      /\ batch.rows \in Seq(Seq(Int))
      /\ \A r \in 1 .. Len(batch.rows) : Len(batch.rows[r]) = w
  BY BatchFacts
<1>1. Used(batch, w) = batch
  BY DEF Used
<1>2. /\ Len(FlattenSeq(batch.rows)) = Len(batch.rows) * w
      /\ \A r \in 1 .. Len(batch.rows), c \in 1 .. w :
            FlattenSeq(batch.rows)[(r - 1) * w + c] = batch.rows[r][c]
  <2>1. RowByRow(FlattenSeq(batch.rows), batch.rows, w)
    BY FlattenBatch
  <2> QED BY <2>1, Zenon DEF RowByRow
<1>3. Len(FlattenSeq(batch.rows)) \div w = Len(batch.rows)
  <2>1. PICK k \in Nat : k = Len(batch.rows)
    BY <1>0
  <2>2. (k * w) \div w = k
    BY ProductDiv
  <2> QED BY <1>2, <2>1, <2>2, Zenon
<1>4. \A r \in 1 .. Len(batch.rows), c \in 1 .. w :
         batch.rows[r][c] = FlattenSeq(batch.rows)[(r - 1) * w + c]
  BY <1>2, Zenon
<1>5. Dealt(batch, batch, w)
  BY <1>0, <1>3, <1>4, Zenon DEF Dealt
<1> QED BY <1>1, <1>5, Zenon

\* A wide batch of one row is taken as several rows (multi-row VALUES).
LEMMA DealtAsRows ==
    ASSUME NEW batch \in Batches, NEW w \in Nat \ {0}, Len(batch.names) # w,
           has_positional_field_names(batch), Len(batch.rows) = 1, Len(batch.names) % w = 0
    PROVE  Dealt(Used(batch, w), batch, w)
<1>1. /\ batch.names \in Seq(Numbered) /\ batch.rows \in Seq(Seq(Int))
      /\ batch.rows[1] \in Seq(Int) /\ Len(batch.rows[1]) = Len(batch.names)
  <2>1. 1 \in 1 .. Len(batch.rows)
    OBVIOUS
  <2> QED BY <2>1, BatchFacts, Zenon
<1>2. batch.names # <<>>
  BY DEF has_positional_field_names
<1>3. PICK n \in Nat : n = Len(batch.names) /\ n # 0
  BY <1>1, <1>2, EmptySeq, LenProperties
<1>4. PICK row \in Seq(Int) : row = batch.rows[1] /\ Len(row) = n
  BY <1>1, <1>3
<1>5. PICK q \in Nat : q = n \div w /\ n = w * q
  <2>1. w \in Nat /\ w # 0
    OBVIOUS
  <2>2. \E q, r \in Nat : q = n \div w /\ r = n % w /\ r < w /\ n = w * q + r
    BY <2>1, DivMod, Zenon
  <2>3. PICK q \in Nat, r \in Nat : q = n \div w /\ r = n % w /\ r < w /\ n = w * q + r
    BY <2>2, Zenon
  <2>4. r = 0
    BY <1>3, <2>3, Zenon
  <2>5. n = w * q
    <3>1. PICK v \in Nat : v = w * q
      BY <2>1
    <3> QED BY <2>3, <2>4, <3>1
  <2> QED BY <2>3, <2>5, Zenon
<1>6. n = q * w
  <2>1. w * q = q * w
    OBVIOUS
  <2> QED BY <1>5, <2>1, Zenon
<1>7. n > w
  <2>1. q # 0
    BY <1>3, <1>6
  <2>2. 1 * w <= q * w
    BY <2>1, ProductMono
  <2> QED BY <1>3, <1>6, <2>2
<1>8. PICK used : used = Batch([i \in 1 .. w |-> Numeral(i)],
                               [r \in 1 .. q |-> [c \in 1 .. w |-> row[(r - 1) * w + c]]])
  OBVIOUS
<1>9. Used(batch, w) = used
  <2>1. Used(batch, w) = reshape_batch_for_multi_row_insert(batch, w)
    BY <1>3, <1>7 DEF Used
  <2>2. @ = used
    BY <1>3, <1>4, <1>5, <1>8 DEF reshape_batch_for_multi_row_insert
  <2> QED BY <2>1, <2>2
<1>10. PICK values : values = FlattenSeq(batch.rows)
  OBVIOUS
<1>11. Len(values) = n /\ \A c \in 1 .. n : values[c] = row[c]
  <2>1. PICK rows \in Seq(Seq(Int)) : rows = batch.rows /\ Len(rows) = 1 /\ rows[1] = row
    BY <1>1, <1>4
  <2>2. \A i \in 1 .. Len(rows) : Len(rows[i]) = n
    BY <1>4, <2>1
  <2>3. /\ Len(values) = 1 * n
        /\ \A r \in 1 .. 1, c \in 1 .. n : values[(r - 1) * n + c] = rows[r][c]
    <3>2. /\ Len(FlattenSeq(batch.rows)) = Len(batch.rows) * n
          /\ \A r \in 1 .. Len(batch.rows), c \in 1 .. n :
                FlattenSeq(batch.rows)[(r - 1) * n + c] = batch.rows[r][c]
      <4>1. RowByRow(FlattenSeq(batch.rows), batch.rows, n)
        BY <1>3, FlattenBatch
      <4> QED BY <4>1, Zenon DEF RowByRow
    <3>3. Len(batch.rows) = 1
      OBVIOUS
    <3>4. Len(values) = 1 * n
      BY <1>10, <3>2, <3>3, Zenon
    <3>5. \A r \in 1 .. 1, c \in 1 .. n : values[(r - 1) * n + c] = batch.rows[r][c]
      BY <1>10, <3>2, <3>3, Zenon
    <3> QED BY <2>1, <3>4, <3>5, Zenon
  <2>4. ASSUME NEW c \in 1 .. n PROVE values[c] = row[c]
    <3>1. (1 - 1) * n + c = c
      OBVIOUS
    <3>2. values[(1 - 1) * n + c] = rows[1][c]
      BY <2>3
    <3> QED BY <2>1, <3>1, <3>2
  <2> QED BY <2>3, <2>4
<1>12. \A r \in 1 .. q, c \in 1 .. w : (r - 1) * w + c \in 1 .. n
  <2> TAKE r \in 1 .. q, c \in 1 .. w
  <2>1. PICK p \in Nat : p = r - 1
    OBVIOUS
  <2>2. p * w \in Nat /\ (p + 1) * w = p * w + w
    BY Product
  <2>3. (p + 1) * w <= q * w
    BY <2>1, ProductMono
  <2>4. PICK v \in Nat : v = p * w
    BY <2>2
  <2>5. v + w <= n /\ c <= w
    BY <1>6, <2>2, <2>3, <2>4
  <2>6. v + c \in 1 .. n
    BY <2>5
  <2> QED BY <2>1, <2>4, <2>6
<1>13. used.names = [i \in 1 .. w |-> Numeral(i)] /\ Len(used.names) = w
  BY <1>8 DEF Batch
<1>14. /\ used.rows = [r \in 1 .. q |-> [c \in 1 .. w |-> row[(r - 1) * w + c]]]
       /\ Len(used.rows) = q /\ DOMAIN used.rows = 1 .. q
  BY <1>8 DEF Batch
<1>15. has_positional_field_names(used)
  <2>1. used.names # <<>> /\ DOMAIN used.names = 1 .. w /\ 1 \in 1 .. w
    BY <1>13
  <2>2. \A i \in 1 .. w : used.names[i].number = i
    <3> TAKE i \in 1 .. w
    <3>1. used.names[i] = Numeral(i)
      BY <1>13
    <3>2. Numeral(i).number = i
      BY DEF Numeral
    <3> QED BY <3>1, <3>2
  <2>3. used.names[1].number = 1
    BY <2>1, <2>2
  <2>4. \A i \in DOMAIN used.names : used.names[i].number = used.names[1].number + i - 1
    BY <2>1, <2>2, <2>3
  <2> QED BY <2>1, <2>3, <2>4 DEF has_positional_field_names
<1>16. Len(values) \div w = q
  BY <1>5, <1>11
<1>17. \A r \in 1 .. q, c \in 1 .. w : used.rows[r][c] = values[(r - 1) * w + c]
  <2> TAKE r \in 1 .. q, c \in 1 .. w
  <2>1. used.rows[r][c] = row[(r - 1) * w + c]
    BY <1>14
  <2>2. values[(r - 1) * w + c] = row[(r - 1) * w + c]
    BY <1>11, <1>12, Zenon
  <2> QED BY <2>1, <2>2, Zenon
<1>18. Dealt(used, batch, w)
  BY <1>10, <1>13, <1>14, <1>15, <1>16, <1>17 DEF Dealt
<1> QED BY <1>9, <1>18, Zenon

\* The slot of a listed column: where Meant looks for its value.
Slot(batch, columns, name) ==
    IF has_positional_field_names(batch) THEN position(columns, name)
    ELSE position(batch.names, Word(name))

\* The lookup the code builds finds the slot of every listed column.
LEMMA SlotFacts ==
    ASSUME NEW batch \in Batches, NEW columns \in Seq(STRING), IsInjective(columns),
           columns # <<>>, NEW used, Dealt(used, batch, Len(columns)),
           has_positional_field_names(batch)
             \/ ToSet(batch.names) = {Word(columns[i]) : i \in DOMAIN columns}
    PROVE  LET lookup == build_lookup(used, columns)
           IN  /\ DOMAIN lookup = {columns[i] : i \in DOMAIN columns}
               /\ \A name \in DOMAIN lookup :
                     /\ lookup[name] = Slot(batch, columns, name)
                     /\ lookup[name] \in 1 .. Len(columns)
<1> DEFINE listed == {columns[i] : i \in DOMAIN columns}
<1>1. Len(columns) \in Nat /\ DOMAIN columns = 1 .. Len(columns)
  OBVIOUS
<1>2. CASE has_positional_field_names(batch)
  <2>1. has_positional_field_names(used)
    BY <1>2 DEF Dealt
  <2>2. ASSUME NEW name \in listed
        PROVE  /\ position(columns, name) \in 1 .. Len(columns)
               /\ (CHOOSE i \in DOMAIN columns :
                     columns[i] = name /\ \A j \in DOMAIN columns : columns[j] = name => j <= i)
                  = position(columns, name)
    <3>1. PICK p \in 1 .. Len(columns) : p = position(columns, name) /\ columns[p] = name
      BY <1>1, <2>2, PositionFacts
    <3>2. \A j \in DOMAIN columns : columns[j] = name => j = p
      BY <1>1, <3>1 DEF IsInjective
    <3>3. p \in DOMAIN columns /\ \A j \in DOMAIN columns : columns[j] = name => j <= p
      BY <1>1, <3>1, <3>2
    <3>4. (CHOOSE i \in DOMAIN columns :
             columns[i] = name /\ \A j \in DOMAIN columns : columns[j] = name => j <= i) = p
      BY <3>1, <3>2, <3>3
    <3> QED BY <3>1, <3>4
  <2>3. build_lookup(used, columns) = [name \in listed |-> position(columns, name)]
    BY <2>1, <2>2 DEF build_lookup
  <2>4. \A name \in listed : Slot(batch, columns, name) = position(columns, name)
    BY <1>2 DEF Slot
  <2> QED BY <2>2, <2>3, <2>4
<1>3. CASE ~ has_positional_field_names(batch)
  <2>1. used = batch /\ ~ has_positional_field_names(used)
    BY <1>3 DEF Dealt
  <2>2. Len(batch.names) = Len(columns)
    BY <2>1 DEF Dealt
  <2>3. \A name \in listed : position(batch.names, Word(name)) \in 1 .. Len(columns)
    <3> TAKE name \in listed
    <3>1. Word(name) \in ToSet(batch.names)
      BY <1>3
    <3>2. PICK i \in 1 .. Len(batch.names) : batch.names[i] = Word(name)
      BY <3>1, BatchFacts DEF ToSet
    <3>3. batch.names \in Seq(Numbered)
      BY BatchFacts
    <3>4. /\ position(batch.names, Word(name)) \in 0 .. Len(batch.names)
          /\ position(batch.names, Word(name)) # 0
      BY <3>2, <3>3, PositionFacts
    <3> QED BY <1>1, <2>2, <3>4
  <2>4. build_lookup(used, columns) = [name \in listed |-> position(batch.names, Word(name))]
    BY <2>1 DEF build_lookup
  <2>5. \A name \in listed : Slot(batch, columns, name) = position(batch.names, Word(name))
    BY <1>3 DEF Slot
  <2> QED BY <2>3, <2>4, <2>5
<1> QED BY <1>2, <1>3

\* A batch without columns and rows adds none.
LEMMA EmptyBatchLands ==
    ASSUME NEW table \in Seq(STRING), NEW columns \in Seq(STRING), columns # <<>>
    PROVE  Meant(Batch(<<>>, <<>>), table, columns) = <<>>
<1>1. PICK w \in Nat : w = Len(columns) /\ w # 0
  BY EmptySeq, LenProperties
<1>2. FlattenSeq(<<>>) = <<>> /\ Len(<<>>) = 0
  BY DEF FlattenSeq
<1>3. 0 \div w = 0
  <2>1. (0 * w) \div w = 0
    BY <1>1, ProductDiv
  <2>2. 0 * w = 0
    BY <1>1
  <2> QED BY <2>1, <2>2
<1>4. Batch(<<>>, <<>>).rows = <<>>
  BY DEF Batch
<1>5. 1 .. (Len(FlattenSeq(Batch(<<>>, <<>>).rows)) \div Len(columns)) = {}
  BY <1>1, <1>2, <1>3, <1>4
<1> QED BY <1>5 DEF Meant

\* A batch that fits is aligned to the rows the statement means.
LEMMA BatchLands ==
    ASSUME NEW table \in Seq(STRING),
           NEW columns \in Seq(STRING), IsInjective(columns), columns # <<>>,
           NEW batch \in Batches, Fits(batch, table, columns)
    PROVE  align_batch_to_table_schema(batch, table, columns)
             = Batch([i \in DOMAIN table |-> Word(table[i])], Meant(batch, table, columns))
<1>1. CASE batch = Batch(<<>>, <<>>)
  BY <1>1, EmptyBatchLands DEF align_batch_to_table_schema
<1>2. CASE batch # Batch(<<>>, <<>>)
  <2>1. PICK w \in Nat \ {0} : w = Len(columns)
    BY EmptySeq, LenProperties
  <2>2. PICK used : used = Used(batch, w)
    OBVIOUS
  <2>3. /\ Dealt(used, batch, w)
        /\ has_positional_field_names(batch)
             \/ ToSet(batch.names) = {Word(columns[i]) : i \in DOMAIN columns}
    BY <1>2, <2>1, <2>2, DealtAsSent, DealtAsRows DEF Fits
  <2>4. PICK lookup : lookup = build_lookup(used, columns)
    OBVIOUS
  <2>5. /\ DOMAIN lookup = {columns[i] : i \in DOMAIN columns}
        /\ \A name \in DOMAIN lookup :
              lookup[name] = Slot(batch, columns, name) /\ lookup[name] \in 1 .. w
    BY <2>1, <2>3, <2>4, SlotFacts
  <2>6. \A name : Contains(columns, name) <=> name \in DOMAIN lookup
    BY <2>5 DEF Contains
  <2> DEFINE cell(row, name) == IF name \in DOMAIN lookup THEN row[lookup[name]] ELSE NullValue
             Rows == [r \in DOMAIN used.rows |-> [i \in DOMAIN table |-> cell(used.rows[r], table[i])]]
             values == FlattenSeq(batch.rows)
             slot(name) == Slot(batch, columns, name)
             meant(r, name) == IF ~ Contains(columns, name) THEN NullValue
                               ELSE values[(r - 1) * w + slot(name)]
             MRows == [r \in 1 .. (Len(values) \div w) |-> [i \in DOMAIN table |-> meant(r, table[i])]]
  <2>7. align_batch_to_table_schema(batch, table, columns)
          = Batch([i \in DOMAIN table |-> Word(table[i])], Rows)
    <3>1. Len(used.names) = Len(columns)
      BY <2>1, <2>3 DEF Dealt
    <3>2. \A i \in 1 .. w : i # 0
      OBVIOUS
    <3>3. ~ \E name \in DOMAIN lookup : lookup[name] = 0
      BY <2>5, <3>2, Zenon
    <3> QED BY <1>2, <2>1, <2>2, <2>4, <3>1, <3>3 DEF align_batch_to_table_schema, Used
  <2>8. Meant(batch, table, columns) = MRows
    BY <2>1 DEF Meant, Slot
  <2>9. DOMAIN used.rows = 1 .. (Len(values) \div w)
    BY <2>3 DEF Dealt
  <2>10. ASSUME NEW r \in DOMAIN used.rows, NEW i \in DOMAIN table
         PROVE  cell(used.rows[r], table[i]) = meant(r, table[i])
    <3>1. CASE Contains(columns, table[i])
      <4>1. lookup[table[i]] = slot(table[i]) /\ slot(table[i]) \in 1 .. w
        BY <2>5, <2>6, <3>1
      <4>2. used.rows[r][slot(table[i])] = values[(r - 1) * w + slot(table[i])]
        BY <2>3, <4>1 DEF Dealt
      <4> QED BY <2>6, <3>1, <4>1, <4>2
    <3>2. CASE ~ Contains(columns, table[i])
      BY <2>6, <3>2
    <3> QED BY <3>1, <3>2
  <2> HIDE DEF cell, meant
  <2>11. Rows = MRows
    BY <2>9, <2>10
  <2> HIDE DEF Rows, MRows
  <2> QED BY <2>7, <2>8, <2>11
<1> QED BY <1>1, <1>2

\* Without a list of columns the batch's rows are the rows that are meant.
LEMMA SentLands ==
    ASSUME NEW table \in Seq(STRING), IsInjective(table), table # <<>>,
           NEW batch \in Batches, Len(batch.names) = Len(table)
    PROVE  Meant(batch, table, <<>>) = batch.rows
<1>1. PICK w \in Nat \ {0} : w = Len(table) /\ DOMAIN table = 1 .. w
  BY EmptySeq, LenProperties
<1>2. /\ Len(FlattenSeq(batch.rows)) = Len(batch.rows) * w
      /\ \A r \in 1 .. Len(batch.rows), c \in 1 .. w :
            FlattenSeq(batch.rows)[(r - 1) * w + c] = batch.rows[r][c]
  <2>1. RowByRow(FlattenSeq(batch.rows), batch.rows, w)
    BY <1>1, FlattenBatch
  <2> QED BY <2>1, Zenon DEF RowByRow
<1>3. PICK k \in Nat : k = Len(batch.rows)
  BY BatchFacts
<1>4. (k * w) \div w = k
  BY ProductDiv
<1>5. \A i \in 1 .. w : position(table, table[i]) = i /\ Contains(table, table[i])
  <2> TAKE i \in 1 .. w
  <2>1. /\ position(table, table[i]) \in 0 .. w /\ position(table, table[i]) # 0
        /\ table[position(table, table[i])] = table[i]
    BY <1>1, PositionFacts
  <2> QED BY <1>1, <2>1 DEF IsInjective, Contains
<1> DEFINE values == FlattenSeq(batch.rows)
           cell(r, name) == IF ~ Contains(table, name) THEN NullValue
                            ELSE values[(r - 1) * w + position(table, name)]
           MRows == [r \in 1 .. (Len(values) \div w) |-> [i \in 1 .. w |-> cell(r, table[i])]]
<1>6. Meant(batch, table, <<>>) = MRows
  BY <1>1 DEF Meant
<1>7. Len(values) \div w = k
  BY <1>2, <1>3, <1>4, Zenon
<1>8. \A r \in 1 .. k, i \in 1 .. w : cell(r, table[i]) = batch.rows[r][i]
  BY <1>2, <1>3, <1>5, Zenon
<1> HIDE DEF cell, values
<1>9. MRows = [r \in 1 .. k |-> [i \in 1 .. w |-> batch.rows[r][i]]]
  BY <1>7, <1>8
<1>10. ASSUME NEW r \in 1 .. k PROVE [i \in 1 .. w |-> batch.rows[r][i]] = batch.rows[r]
  <2>1. batch.rows[r] \in Seq(Int) /\ Len(batch.rows[r]) = w
    BY <1>1, <1>3, BatchFacts
  <2>2. PICK row \in Seq(Int) : row = batch.rows[r] /\ Len(row) = w
    BY <2>1
  <2>3. [i \in 1 .. w |-> row[i]] = row
    BY <2>2
  <2> QED BY <2>2, <2>3, Zenon
<1>11. batch.rows \in Seq(Seq(Int)) /\ Len(batch.rows) = k
  BY <1>3, BatchFacts
<1>12. batch.rows = [r \in 1 .. k |-> batch.rows[r]]
  BY <1>11
<1> HIDE DEF MRows
<1>13. [r \in 1 .. k |-> [i \in 1 .. w |-> batch.rows[r][i]]] = [r \in 1 .. k |-> batch.rows[r]]
  BY <1>10
<1> QED BY <1>6, <1>9, <1>12, <1>13, Zenon

\* The batches of a DoPut that fit add what they mean, one after the other.
LEMMA AllLand ==
    ASSUME NEW table \in Seq(STRING), IsInjective(table), table # <<>>,
           NEW columns \in Seq(STRING), IsInjective(columns),
           NEW batches \in Seq(Batches),
           \A b \in DOMAIN batches : Fits(batches[b], table, columns)
    PROVE  insert_batches(batches, table, columns)
             = FlattenSeq([b \in DOMAIN batches |-> Meant(batches[b], table, columns)])
<1>0. \A b \in DOMAIN batches : batches[b] \in Batches
  OBVIOUS
<1>1. CASE columns = <<>>
  <2>1. \A b \in DOMAIN batches : Len(batches[b].names) = Len(table)
    BY <1>1 DEF Fits
  <2>2. \A b \in DOMAIN batches : Meant(batches[b], table, columns) = batches[b].rows
    BY <1>0, <1>1, <2>1, SentLands
  <2> QED BY <1>1, <2>1, <2>2 DEF insert_batches, Appended
<1>2. CASE columns # <<>>
  <2> DEFINE words == [i \in DOMAIN table |-> Word(table[i])]
             aligned == [b \in DOMAIN batches |->
                           align_batch_to_table_schema(batches[b], table, columns)]
  <2>1. \A b \in DOMAIN batches : aligned[b] = Batch(words, Meant(batches[b], table, columns))
    BY <1>0, <1>2, BatchLands
  <2>2. words # <<>> /\ Len(words) = Len(table)
    OBVIOUS
  <2> HIDE DEF words
  <2>3. DOMAIN aligned = DOMAIN batches
    OBVIOUS
  <2>4. insert_batches(batches, table, columns)
          = IF \E b \in DOMAIN aligned : aligned[b] = Failed THEN NoRows ELSE Appended(aligned, table)
    BY <1>2 DEF insert_batches
  <2> HIDE DEF aligned
  <2>5. \A b \in DOMAIN batches :
           /\ aligned[b] # Failed /\ Len(aligned[b].names) = Len(table)
           /\ aligned[b].rows = Meant(batches[b], table, columns)
    <3> TAKE b \in DOMAIN batches
    <3>1. PICK m : m = Meant(batches[b], table, columns)
      OBVIOUS
    <3>2. aligned[b] = [names |-> words, rows |-> m]
      BY <2>1, <3>1 DEF Batch
    <3>3. Failed.names = <<>>
      BY DEF Failed, Batch
    <3> QED BY <2>2, <3>1, <3>2, <3>3
  <2>6. Appended(aligned, table) = FlattenSeq([b \in DOMAIN batches |-> aligned[b].rows])
    <3>1. ~ \E b \in DOMAIN aligned : Len(aligned[b].names) # Len(table)
      BY <2>3, <2>5
    <3> QED BY <2>3, <3>1, Zenon DEF Appended
  <2>7. [b \in DOMAIN batches |-> aligned[b].rows]
          = [b \in DOMAIN batches |-> Meant(batches[b], table, columns)]
    BY <2>5
  <2> QED BY <2>3, <2>4, <2>5, <2>6, <2>7
<1> QED BY <1>1, <1>2

-----------------------------------------------------------------------------
(* The requests.                                                                 *)

\* A request is one of those that arrive, and its answer is its translation.
AnswerIsTranslation ==
    /\ Elsewhere \/ request \in ScanRequests \union InsertRequests \union ReadRequests
    /\ Answered("scan") => answer = endpoint_query(request.descriptor, request.filters)
    /\ Answered("insert") =>
          answer = insert_batches(request.batches, request.table, request.columns)
    /\ Answered("read") =>
          answer = for_streaming_query(request.tokens, request.columns, request.rows)

\* The state machine answers a request with its translation, and with no other's.
THEOREM Translated == TrSpec => []AnswerIsTranslation
<1>1. Elsewhere \/ TrInit => AnswerIsTranslation
  BY DEF TrInit, Elsewhere, AnswerIsTranslation, Answered
<1>2. AnswerIsTranslation /\ [TrNext \/ (Elsewhere /\ UNCHANGED request)]_trVars
        => AnswerIsTranslation'
  <2> SUFFICES ASSUME AnswerIsTranslation, [TrNext \/ (Elsewhere /\ UNCHANGED request)]_trVars
               PROVE  AnswerIsTranslation'
    OBVIOUS
  <2>0. CASE do_action_endpoints
    BY <2>0 DEF do_action_endpoints, Handle, Elsewhere, AnswerIsTranslation, Answered
  <2>1. CASE do_put_prepared_statement_update
    BY <2>1 DEF do_put_prepared_statement_update, Handle, Elsewhere, AnswerIsTranslation, Answered
  <2>2. CASE execute_read
    BY <2>2 DEF execute_read, Handle, Elsewhere, AnswerIsTranslation, Answered
  <2>3. CASE Elsewhere /\ UNCHANGED request
    BY <2>3 DEF Elsewhere, AnswerIsTranslation, Answered
  <2>4. CASE UNCHANGED trVars
    BY <2>4 DEF trVars, Elsewhere, AnswerIsTranslation, Answered
  <2> QED BY <2>0, <2>1, <2>2, <2>3, <2>4 DEF TrNext
<1> QED BY <1>1, <1>2, PTL DEF TrSpec

\* Property PushdownKeepsRows: filters of any depth whose translation only weakens
\* them keep every row they select, and exactly those where all was translated.
THEOREM PushedDownRowsKept == TrSpec => []PushdownKeepsRows
<1>1. AnswerIsTranslation => PushdownKeepsRows
  <2> SUFFICES ASSUME AnswerIsTranslation, Answered("scan"),
                      \A i \in DOMAIN request.filters : OnlyWeakened[request.filters[i]],
                      NEW row
               PROVE  LET wanted == \A i \in DOMAIN request.filters : Selects(request.filters[i], row)
                      IN  /\ wanted => Selects(answer.where, row)
                          /\ request.descriptor = "path" /\ (\A i \in DOMAIN request.filters : Complete[request.filters[i]])
                               => (Selects(answer.where, row) <=> wanted)
    BY DEF PushdownKeepsRows
  <2>1. request \in ScanRequests
    BY RequestsAssumption DEF Elsewhere, AnswerIsTranslation, Answered
  <2>2. request.filters \in Seq(Trees[MaxDepth]) /\ request.descriptor \in {"path", "cmd"}
    BY <2>1, RequestsAssumption
  <2>3. answer = endpoint_query(request.descriptor, request.filters)
    BY DEF AnswerIsTranslation
  <2>4. CASE request.descriptor = "cmd"
    BY <2>3, <2>4 DEF endpoint_query, Selects
  <2>5. CASE request.descriptor = "path"
    <3>1. answer.where = parse_filters_to_where_clause(request.filters)
      BY <2>3, <2>5 DEF endpoint_query
    <3> QED BY <2>2, <3>1, ClauseKeepsRows
  <2> QED BY <2>2, <2>4, <2>5
<1> QED BY <1>1, Translated, PTL

\* Property ValuesLand: for any table, list of columns and batches that fit, every
\* value reaches its row and column, and the other columns get NULL.
THEOREM InsertedValuesLand == TrSpec => []ValuesLand
<1>1. AnswerIsTranslation => ValuesLand
  <2> SUFFICES ASSUME AnswerIsTranslation, Answered("insert"),
                      \A b \in DOMAIN request.batches :
                         Fits(request.batches[b], request.table, request.columns)
               PROVE  answer = FlattenSeq([b \in DOMAIN request.batches |->
                                 Meant(request.batches[b], request.table, request.columns)])
    BY DEF ValuesLand
  <2>1. request \in InsertRequests
    BY RequestsAssumption DEF Elsewhere, AnswerIsTranslation, Answered
  <2>2. /\ request.table \in Seq(STRING) /\ request.table # <<>> /\ IsInjective(request.table)
        /\ request.columns \in Seq(STRING) /\ IsInjective(request.columns)
        /\ request.batches \in Seq(Batches)
    BY <2>1, RequestsAssumption
  <2>3. answer = insert_batches(request.batches, request.table, request.columns)
    BY DEF AnswerIsTranslation
  <2> QED BY <2>2, <2>3, AllLand
<1> QED BY <1>1, Translated, PTL

\* Property ProjectionKeepsResult: for any columns and rows, a rewritten query keeps
\* names, order and values, and converts exactly what the early schema announced.
THEOREM ProjectedResultKept == TrSpec => []ProjectionKeepsResult
<1>1. AnswerIsTranslation => ProjectionKeepsResult
  <2> SUFFICES ASSUME AnswerIsTranslation, Answered("read") PROVE ProjectionKeepsResult
    BY DEF ProjectionKeepsResult
  <2>1. PICK columns, rows : columns = request.columns /\ rows = request.rows
    OBVIOUS
  <2>2. answer = for_streaming_query(request.tokens, columns, rows)
    BY <2>1 DEF AnswerIsTranslation
  <2>3. answer.probed <=> query_body(request.tokens) # NoQuery
    BY <2>2 DEF for_streaming_query
  <2>4. query_body(request.tokens) # NoQuery => ~ Contains(query_body(request.tokens), ";")
    BY DEF query_body
  <2>5. ASSUME ~ answer.asis
        PROVE  /\ answer.schema = empty_schema_query(columns)
               /\ answer.rows = [r \in DOMAIN rows |-> [i \in DOMAIN columns |->
                                   [name |-> columns[i].name,
                                    value |-> Exported(columns[i].type, rows[r][i])]]]
    BY <2>2, <2>5 DEF for_streaming_query, project_columns, source_of
  <2>6. \A i \in DOMAIN columns :
           /\ empty_schema_query(columns)[i].name = columns[i].name
           /\ empty_schema_query(columns)[i].type # columns[i].type
                 <=> contains_variant(columns[i].type)
    BY DEF empty_schema_query, exported_type, contains_variant
  <2>7. \A type, value : /\ Exported(type, value)[2] = value
                         /\ Exported(type, value)[1] = "json"
                               <=> contains_variant(type) /\ value # "NULL"
    BY DEF Exported
  <2>8. ASSUME ~ answer.asis
        PROVE  [i \in DOMAIN columns |-> columns[i].name] = [i \in DOMAIN columns |-> answer.schema[i].name]
    BY <2>5, <2>6, <2>8
  <2>9. ASSUME ~ answer.asis, NEW r \in DOMAIN rows, NEW i \in DOMAIN columns
        PROVE  LET cell == answer.rows[r][i]
               IN  /\ cell.name = columns[i].name
                   /\ cell.value[2] = rows[r][i]
                   /\ cell.value[1] = "json"
                         <=> (answer.schema[i].type # columns[i].type /\ rows[r][i] # "NULL")
    <3>1. answer.rows[r][i] = [name |-> columns[i].name,
                               value |-> Exported(columns[i].type, rows[r][i])]
      BY <2>5, <2>9
    <3>2. /\ answer.rows[r][i].name = columns[i].name
          /\ answer.rows[r][i].value = Exported(columns[i].type, rows[r][i])
      BY <3>1
    <3>3. answer.schema[i].type # columns[i].type <=> contains_variant(columns[i].type)
      BY <2>5, <2>6, <2>9
    <3>4. PICK type, value : type = columns[i].type /\ value = rows[r][i]
      OBVIOUS
    <3>5. Exported(type, value)[2] = value
          /\ (Exported(type, value)[1] = "json" <=> contains_variant(type) /\ value # "NULL")
      BY <2>7, Zenon
    <3> QED BY <3>2, <3>3, <3>4, <3>5
  <2>10. answer.probed => ~ Contains(query_body(request.tokens), ";")
    BY <2>3, <2>4
  <2>11. ~ answer.asis =>
           /\ [i \in DOMAIN columns |-> columns[i].name] = [i \in DOMAIN columns |-> answer.schema[i].name]
           /\ \A r \in DOMAIN rows, i \in DOMAIN columns :
                LET cell == answer.rows[r][i]
                IN  /\ cell.name = columns[i].name
                    /\ cell.value[2] = rows[r][i]
                    /\ cell.value[1] = "json"
                          <=> (answer.schema[i].type # columns[i].type /\ rows[r][i] # "NULL")
    BY <2>8, <2>9, Zenon
  <2> QED BY <2>1, <2>10, <2>11, Zenon DEF ProjectionKeepsResult
<1> QED BY <1>1, Translated, PTL
================================================================================
