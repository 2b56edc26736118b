----------------------------- MODULE WeatherProofs -----------------------------
(***************************************************************************)
(* The safety properties of Weather, for any number of downloads, any      *)
(* length of response and any number of starts.                            *)
(***************************************************************************)
EXTENDS Weather, FiniteSetTheorems, TLAPS

\* What a context has received, and what that says of its connection.
Received(d) ==
  /\ data[d] \in Data
  /\ ~data[d].header => data[d].pos = 0 /\ data[d].size = 0
  /\ data[d].size > 0 => data[d].length = data[d].size /\ data[d].pos <= data[d].size
  /\ phase[d] \in {"lookup", "opening"} => ~data[d].header
  /\ data[d].size > 0 => /\ phase[d] = "open" => data[d].pos < data[d].size
                         /\ phase[d] = "closing" => data[d].pos = data[d].size

\* The inductive invariant: that a first segment finds the context empty is
\* what keeps buf_pos within the response.
IInv == /\ timer \in BOOLEAN /\ started \in BOOLEAN /\ missed \in BOOLEAN
        /\ starts \in 0..MaxStarts
        /\ phase \in [Downloads -> Phase]
        /\ data \in [Downloads -> Data]
        /\ \A d \in Downloads : Received(d)

\* The part of it that the network can disturb.
Contexts == /\ phase \in [Downloads -> Phase]
            /\ data \in [Downloads -> Data]
            /\ \A d \in Downloads : Received(d)

(* A segment that fits keeps the context within its response.              *)
LEMMA TakeKeeps ==
  ASSUME Contexts, NEW d \in Downloads, phase[d] = "open",
         NEW length \in 0..MaxBody, NEW size \in 0..MaxBody, NEW n \in 0..MaxBody,
         data[d].pos + n <= MaxBody,
         size > 0 => length = size /\ data[d].pos + n <= size,
         Take(d, length, size, n)
  PROVE  Contexts'
<1> USE BoundAssumption
<1>1. data[d] \in Data /\ data[d].pos \in Nat
  BY DEF Contexts, Data
<1> DEFINE new == [header |-> TRUE, length |-> length, size |-> size, pos |-> data[d].pos + n]
<1>2. new \in Data
  BY <1>1 DEF Data
<1>3. /\ data' = [data EXCEPT ![d] = new]
      /\ phase' = IF data[d].pos + n = length THEN [phase EXCEPT ![d] = "closing"] ELSE phase
  BY DEF Take
<1> HIDE DEF new
<1>4. data' \in [Downloads -> Data] /\ phase' \in [Downloads -> Phase]
  BY <1>2, <1>3 DEF Contexts, Phase
<1>5. data'[d] = new
  BY <1>3 DEF Contexts
<1>6. \A e \in Downloads \ {d} : data'[e] = data[e] /\ phase'[e] = phase[e]
  BY <1>3 DEF Contexts
<1>7. phase'[d] = IF data[d].pos + n = length THEN "closing" ELSE "open"
  BY <1>3 DEF Contexts
<1>8. Received(d)'
  BY <1>1, <1>2, <1>5, <1>7 DEF Received, new
<1>9. \A e \in Downloads \ {d} : Received(e)'
  BY <1>6 DEF Contexts, Received
<1> QED
  BY <1>4, <1>8, <1>9 DEF Contexts

(* Every segment the server may send keeps it.                             *)
LEMMA ReceiveKeeps ==
  ASSUME Contexts, NEW d \in Downloads, weather_receive_cb(d)
  PROVE  Contexts'
<1> USE BoundAssumption
<1>1. phase[d] = "open" /\ Received(d)
  BY DEF weather_receive_cb, Contexts
<1>2. data[d] \in Data /\ data[d].pos \in 0..MaxBody /\ data[d].size \in 0..MaxBody
      /\ data[d].length \in 0..MaxBody
  BY <1>1 DEF Received, Data
<1>3. ASSUME NEW n \in 0..MaxBody, NEW size \in 1..MaxBody, FirstSegment(d, size, n)
      PROVE  Contexts'
  BY <1>1, <1>2, <1>3, TakeKeeps DEF FirstSegment, Received
<1>4. ASSUME NEW n \in 0..MaxBody, GarbledSegment(d, n) PROVE Contexts'
  <2>1. ASSUME NEW length \in 1..MaxBody, Take(d, length, 0, n) PROVE Contexts'
    BY <1>1, <1>2, <1>4, <2>1, TakeKeeps DEF GarbledSegment, Received
  <2>2. CASE data' = [data EXCEPT ![d].header = TRUE] /\ UNCHANGED phase
    <3>1. data'[d] = [data[d] EXCEPT !.header = TRUE]
      BY <2>2 DEF Contexts
    <3>2. data'[d] \in Data
      BY <1>2, <3>1 DEF Data
    <3>3. data' \in [Downloads -> Data]
      BY <1>2, <2>2, <3>1, <3>2 DEF Contexts
    <3>4. Received(d)'
      BY <1>1, <1>2, <1>4, <2>2, <3>1, <3>2 DEF Received, GarbledSegment, Data
    <3>5. \A e \in Downloads \ {d} : Received(e)'
      BY <2>2 DEF Contexts, Received
    <3> QED
      BY <2>2, <3>3, <3>4, <3>5 DEF Contexts
  <2> QED
    BY <1>4, <2>1, <2>2 DEF GarbledSegment
<1>5. ASSUME NEW n \in 0..MaxBody, NextSegment(d, n) PROVE Contexts'
  BY <1>1, <1>2, <1>5, TakeKeeps DEF NextSegment, Received
<1> QED
  BY <1>3, <1>4, <1>5 DEF weather_receive_cb

LEMMA Inductive == IInv /\ [Next]_vars => IInv'
<1> SUFFICES ASSUME IInv, [Next]_vars PROVE IInv'
  OBVIOUS
<1> USE BoundAssumption
<1>0. IInv <=> /\ timer \in BOOLEAN /\ started \in BOOLEAN /\ missed \in BOOLEAN
               /\ starts \in 0..MaxStarts
               /\ Contexts
  BY DEF IInv, Contexts
<1>1. CASE weather_start
  <2>1. timer' \in BOOLEAN /\ started' \in BOOLEAN /\ missed' \in BOOLEAN
    BY <1>1, Zenon DEF weather_start
  <2>2. Contexts'
    BY <1>0, <1>1 DEF weather_start, Contexts, Received
  <2> QED
    BY <1>1, <2>1, <2>2 DEF weather_start, IInv, Contexts
<1>2. CASE weather_stop
  BY <1>2 DEF weather_stop, IInv, Received
<1>3. ASSUME NEW d \in Downloads, weather_download(d) PROVE IInv'
  <2>1. NoData \in Data
    BY DEF NoData, Data
  <2>2. data' \in [Downloads -> Data] /\ phase' \in [Downloads -> Phase]
    BY <1>3, <2>1 DEF weather_download, IInv, Phase
  <2>3. timer' \in BOOLEAN /\ missed' \in BOOLEAN
    BY <1>3, Zenon DEF weather_download, IInv
  <2>4. data'[d] = NoData
    BY <1>3 DEF weather_download, IInv
  <2>5. \A e \in Downloads \ {d} : data'[e] = data[e] /\ phase'[e] = phase[e]
    BY <1>3 DEF weather_download, IInv
  <2>6. Received(d)'
    BY <2>1, <2>4 DEF Received, NoData
  <2>7. \A e \in Downloads \ {d} : Received(e)'
    BY <2>5 DEF IInv, Received
  <2> QED
    BY <1>3, <2>2, <2>3, <2>6, <2>7 DEF weather_download, IInv
<1>4. ASSUME NEW d \in Downloads, NEW found \in BOOLEAN, weather_dns_cb(d, found)
      PROVE  IInv'
  <2>1. phase' \in [Downloads -> Phase] /\ data' = data
    BY <1>4 DEF weather_dns_cb, IInv, Phase
  <2>2. missed' \in BOOLEAN
    BY <1>4, Zenon DEF weather_dns_cb, IInv
  <2>3. \A e \in Downloads : Received(e)'
    BY <1>4 DEF weather_dns_cb, IInv, Received
  <2> QED
    BY <1>4, <2>1, <2>2, <2>3 DEF weather_dns_cb, IInv
<1>5. ASSUME NEW d \in Downloads, weather_connected_cb(d) PROVE IInv'
  <2>1. \A e \in Downloads : Received(e)'
    BY <1>5 DEF weather_connected_cb, IInv, Received, Data
  <2> QED
    BY <1>5, <2>1 DEF weather_connected_cb, IInv, Phase
<1>6. ASSUME NEW d \in Downloads, weather_receive_cb(d) PROVE IInv'
  BY <1>0, <1>6, ReceiveKeeps DEF weather_receive_cb, IInv, Contexts
<1>7. ASSUME NEW d \in Downloads, Over(d) PROVE IInv'
  <2>1. \A e \in Downloads : Received(e)'
    BY <1>7 DEF Over, IInv, Received
  <2>2. phase' \in [Downloads -> Phase]
    BY <1>7 DEF Over, IInv, Phase
  <2>3. timer' \in BOOLEAN
    BY <1>7, Zenon DEF Over
  <2> QED
    BY <1>7, <2>1, <2>2, <2>3 DEF Over, IInv
<1>8. CASE UNCHANGED vars
  BY <1>8 DEF vars, IInv, Received
<1> QED
  BY <1>1, <1>2, <1>3, <1>4, <1>5, <1>6, <1>7, <1>8
  DEF Next, weather_disconcb, weather_reconcb_cb

LEMMA Invariant == Spec => []IInv
<1>1. Init => IInv
  <2> SUFFICES ASSUME Init PROVE IInv
    OBVIOUS
  <2>1. timer \in BOOLEAN /\ started \in BOOLEAN /\ missed \in BOOLEAN
    BY Zenon DEF Init
  <2>2. NoData \in Data
    BY BoundAssumption DEF NoData, Data
  <2>3. \A d \in Downloads : Received(d)
    BY <2>2 DEF Init, Received, NoData
  <2> QED
    BY BoundAssumption, <2>1, <2>2, <2>3 DEF Init, IInv, Phase
<1> QED
  BY <1>1, Inductive, PTL DEF Spec

-----------------------------------------------------------------------------
(* Type correctness, for every set of downloads and every bound.           *)
THEOREM TypeCorrect == Spec => []TypeOK
<1>1. IInv => TypeOK
  BY DEF IInv, TypeOK
<1> QED
  BY <1>1, Invariant, PTL

(* A started client has its next download ahead of it or one under way, as *)
(* long as no lookup goes unanswered.                                      *)
THEOREM SomeoneAlwaysContinues == Spec => []SomeoneContinues
<1>1. Init => SomeoneContinues
  BY DEF Init, SomeoneContinues
<1>2. IInv /\ SomeoneContinues /\ [Next]_vars => SomeoneContinues'
  <2> SUFFICES ASSUME IInv, SomeoneContinues, [Next]_vars PROVE SomeoneContinues'
    OBVIOUS
  <2>0. SomeoneContinues <=>
          (started => timer \/ missed \/ \E d \in Downloads : phase[d] # "free")
    BY DEF SomeoneContinues, InFlight
  <2>1. (SomeoneContinues <=>
          (started => timer \/ missed \/ \E d \in Downloads : phase[d] # "free"))'
    BY DEF SomeoneContinues, InFlight
  <2>2. CASE weather_start \/ weather_stop
    BY <2>1, <2>2 DEF weather_start, weather_stop
  <2>3. ASSUME NEW d \in Downloads, weather_download(d) PROVE SomeoneContinues'
    BY <2>1, <2>3 DEF weather_download, IInv
  <2>4. ASSUME NEW d \in Downloads, NEW found \in BOOLEAN, weather_dns_cb(d, found)
        PROVE  SomeoneContinues'
    BY <2>1, <2>4 DEF weather_dns_cb, IInv
  <2>5. ASSUME NEW d \in Downloads, weather_connected_cb(d) PROVE SomeoneContinues'
    BY <2>1, <2>5 DEF weather_connected_cb, IInv
  <2>6. ASSUME NEW d \in Downloads, weather_receive_cb(d) PROVE SomeoneContinues'
    <3>1. phase'[d] # "free"
      BY <2>6 DEF weather_receive_cb, FirstSegment, GarbledSegment, NextSegment, Take, IInv
    <3> QED
      BY <2>1, <3>1
  <2>7. ASSUME NEW d \in Downloads, Over(d) PROVE SomeoneContinues'
    BY <2>1, <2>7 DEF Over
  <2>8. CASE UNCHANGED vars
    BY <2>8, <2>0, <2>1 DEF vars
  <2> QED
    BY <2>2, <2>3, <2>4, <2>5, <2>6, <2>7, <2>8
    DEF Next, weather_disconcb, weather_reconcb_cb
<1> QED
  BY <1>1, <1>2, Invariant, PTL DEF Spec

(* A start sets off one chain of downloads, whatever callbacks arm the     *)
(* timer after it.                                                         *)
THEOREM OneChainEach == Spec => []OneChainPerStart
<1> DEFINE Armed == IF timer THEN 1 ELSE 0
<1>1. Init => OneChainPerStart
  <2> SUFFICES ASSUME Init PROVE OneChainPerStart
    OBVIOUS
  <2>1. InFlight = {}
    BY DEF Init, InFlight
  <2> QED
    BY <2>1, FS_EmptySet DEF Init, OneChainPerStart
<1>2. IInv /\ OneChainPerStart /\ [Next]_vars => OneChainPerStart'
  <2> SUFFICES ASSUME IInv, OneChainPerStart, [Next]_vars PROVE OneChainPerStart'
    OBVIOUS
  <2>1. IsFiniteSet(InFlight) /\ Cardinality(InFlight) \in Nat
    BY DownloadsAssumption, FS_Subset, FS_CardinalityType DEF InFlight
  <2>2. starts \in Nat /\ Cardinality(InFlight) + Armed <= starts
    BY BoundAssumption DEF IInv, OneChainPerStart
  <2>3. CASE weather_start
    <3>1. InFlight' = InFlight
      BY <2>3 DEF weather_start, InFlight
    <3> QED
      BY <2>1, <2>2, <2>3, <3>1 DEF weather_start, OneChainPerStart
  <2>4. CASE weather_stop
    <3>1. InFlight' = InFlight
      BY <2>4 DEF weather_stop, InFlight
    <3> QED
      BY <2>1, <2>2, <2>4, <3>1 DEF weather_stop, OneChainPerStart
  <2>5. ASSUME NEW d \in Downloads, weather_download(d) PROVE OneChainPerStart'
    <3>1. InFlight' = InFlight \/ InFlight' = InFlight \cup {d}
      BY <2>5 DEF weather_download, IInv, InFlight
    <3>2. Cardinality(InFlight \cup {d}) <= Cardinality(InFlight) + 1
      BY <2>1, FS_AddElement
    <3>3. Cardinality(InFlight') <= Cardinality(InFlight) + 1
      <4>1. CASE InFlight' = InFlight
        BY <2>1, <4>1
      <4>2. CASE InFlight' = InFlight \cup {d}
        BY <3>2, <4>2
      <4> QED
        BY <3>1, <4>1, <4>2
    <3>4. Cardinality(InFlight') \in Nat
      BY <2>1, <3>1, FS_AddElement, FS_CardinalityType
    <3> QED
      BY <2>1, <2>2, <2>5, <3>3, <3>4 DEF weather_download, OneChainPerStart
  <2>6. ASSUME NEW d \in Downloads, phase[d] # "free",
               phase' = [phase EXCEPT ![d] = "free"], UNCHANGED starts
        PROVE  OneChainPerStart'
    <3>1. InFlight' = InFlight \ {d} /\ d \in InFlight
      BY <2>6 DEF IInv, InFlight
    <3>2. Cardinality(InFlight') = Cardinality(InFlight) - 1
      BY <2>1, <3>1, FS_RemoveElement
    <3> QED
      BY <2>1, <2>2, <2>6, <3>2 DEF OneChainPerStart
  <2>7. ASSUME InFlight' = InFlight, UNCHANGED <<timer, starts>> PROVE OneChainPerStart'
    BY <2>7 DEF OneChainPerStart
  <2>8. ASSUME NEW d \in Downloads, NEW found \in BOOLEAN, weather_dns_cb(d, found)
        PROVE  OneChainPerStart'
    <3>1. CASE found
      <4>1. InFlight' = InFlight
        BY <2>8, <3>1 DEF weather_dns_cb, IInv, InFlight
      <4> QED
        BY <2>7, <2>8, <4>1 DEF weather_dns_cb
    <3>2. CASE ~found
      BY <2>6, <2>8, <3>2 DEF weather_dns_cb
    <3> QED
      BY <3>1, <3>2
  <2>9. ASSUME NEW d \in Downloads, weather_connected_cb(d) \/ weather_receive_cb(d)
        PROVE  OneChainPerStart'
    <3>1. InFlight' = InFlight
      BY <2>9 DEF weather_connected_cb, weather_receive_cb, FirstSegment, GarbledSegment,
                  NextSegment, Take, IInv, InFlight
    <3> QED
      BY <2>7, <2>9, <3>1 DEF weather_connected_cb, weather_receive_cb
  <2>10. ASSUME NEW d \in Downloads, weather_disconcb(d) \/ weather_reconcb_cb(d)
         PROVE  OneChainPerStart'
    BY <2>6, <2>10 DEF weather_disconcb, weather_reconcb_cb, Over
  <2>11. CASE UNCHANGED vars
    BY <2>7, <2>11 DEF vars, InFlight
  <2> QED
    BY <2>3, <2>4, <2>5, <2>8, <2>9, <2>10, <2>11 DEF Next
<1> QED
  BY <1>1, <1>2, Invariant, PTL DEF Spec

(* A response of known length is parsed exactly when it is whole, however  *)
(* it is cut into segments and however downloads interleave.               *)
THEOREM ReportsAreWhole == Spec => []ReportIsWhole
<1>1. IInv => ReportIsWhole
  BY DEF IInv, Received, ReportIsWhole
<1> QED
  BY <1>1, Invariant, PTL
=============================================================================
