--------------------------- MODULE RequestsProofs ---------------------------
(* Theorems about Requests, for any number of requests in flight, serial   *)
(* numbers, vendor accounts, readings and request ids.                     *)
EXTENDS Requests, WellFoundedInduction, TLAPS

Inside == {"pipe", "vendor", "findSerial", "insert"}
Kinds  == {Idle} \cup Guarded \cup Asking \cup Storing \cup Ended \cup Reading

\* The row that the request in slot r has stored and not yet settled.
Stored(r) == \E n \in Serials : inverters[n] = r

LogFits(h, body, log) ==
    /\ log.error = ~body.success
    /\ log.id = body.id <=> h.request \in Ids
    /\ log.status = body.status <=> body.success

AnswerFits(k) ==
    /\ k.body.status = 401 <=> ~k.authed
    /\ k.log # NoLog => LogFits(k.headers, k.body, k.log)

Given(raw) ==
    IF raw.brand = "GROWATT" THEN {raw.charge[1], raw.charge[2]} \ {Missing}
    ELSE {raw.charge[i] : i \in DOMAIN raw.charge \cap {Len(raw.charge)}} \ {Missing}

Kept(k) ==
    /\ (k.metric.soc = Missing) = (Given(k.raw) = {})
    /\ k.metric.soc # Missing => k.metric.soc \in Given(k.raw)
    /\ (k.metric.power = Missing) = (k.raw.power = Missing)

\* What a slot keeps fits: past the guards there is a token, and so on.
Fits(k) ==
    /\ k.pc \in Inside => k.authed
    /\ k.pc = "answered" => AnswerFits(k)
    /\ k.pc \in {"findSerial", "insert"} =>
         (k.brand = "VICTRON" \/ (k.sure => k.device.inverter))
    /\ k.pc = "read" => Kept(k)

Created(k)        == k.pc = "answered" /\ k.body.status = 201
Unacknowledged(k) == k.pc = "answered" /\ k.body.status = 500 /\ k.tried

\* The row of a request and its answer.
RowFits(r) ==
    /\ Created(call[r]) => Stored(r)
    /\ Stored(r) => Created(call[r]) \/ Unacknowledged(call[r])
    /\ \A m, n \in Serials : inverters[m] = r /\ inverters[n] = r => m = n

RInv == /\ TypeOK
        /\ \A r \in Slots : Fits(call[r]) /\ RowFits(r)

-----------------------------------------------------------------------------
\* Where a slot stands tells what it keeps.
LEMMA KindOf ==
  ASSUME NEW k \in Kinds
  PROVE  /\ k.pc = "idle" => k = Idle
         /\ k.pc \in {"guard", "pipe"} => k \in Guarded
         /\ k.pc = "vendor" => k \in Asking
         /\ k.pc \in {"findSerial", "insert"} => k \in Storing
         /\ k.pc = "answered" => k \in Ended
         /\ k.pc = "read" => k \in Reading
<1>1. CASE k = Idle
  BY <1>1 DEF Idle
<1>2. CASE k \in Guarded
  BY <1>2 DEF Guarded
<1>3. CASE k \in Asking
  BY <1>3 DEF Asking
<1>4. CASE k \in Storing
  BY <1>4 DEF Storing
<1>5. CASE k \in Ended
  BY <1>5 DEF Ended
<1>6. CASE k \in Reading
  BY <1>6 DEF Reading
<1> QED
  BY <1>1, <1>2, <1>3, <1>4, <1>5, <1>6 DEF Kinds

\* What the invariant says of one slot.
LEMMA AtSlot ==
  ASSUME RInv, NEW r \in Slots
  PROVE  /\ call \in [Slots -> Kinds] /\ call[r] \in Kinds /\ Fits(call[r])
         /\ inverters \in [Serials -> Slots \cup {"none", "settled"}]
         /\ call[r].pc # "answered" => ~Stored(r)
         /\ RowFits(r)
<1>1. call \in [Slots -> Kinds]
  BY DEF RInv, TypeOK, Kinds
<1> QED
  BY <1>1 DEF RInv, TypeOK, RowFits, Created, Unacknowledged

\* A step of slot r.
LEMMA SlotStep ==
  ASSUME RInv, NEW r \in Slots,
         inverters' \in [Serials -> Slots \cup {"none", "settled"}],
         \A x \in Slots \ {r}, n \in Serials : inverters'[n] = x <=> inverters[n] = x,
         RowFits(r)',
         call' = [call EXCEPT ![r] = call'[r]],
         call'[r] \in Kinds, Fits(call'[r])
  PROVE  RInv'
<1>1. call \in [Slots -> Kinds]
  BY AtSlot
<1>2. call' \in [Slots -> Kinds]
  BY <1>1
<1>3. TypeOK'
  BY <1>2 DEF TypeOK, Kinds
<1>4. ASSUME NEW x \in Slots
      PROVE  Fits(call'[x]) /\ RowFits(x)'
  <2>1. CASE x = r
    BY <2>1
  <2>2. CASE x # r
    <3>1. call'[x] = call[x]
      BY <1>1, <2>2
    <3>2. \A n \in Serials : inverters'[n] = x <=> inverters[n] = x
      BY <2>2
    <3>3. Fits(call[x]) /\ RowFits(x)
      BY AtSlot
    <3>4. RowFits(x)'
      BY <3>1, <3>2, <3>3 DEF RowFits, Stored
    <3> QED
      BY <3>1, <3>3, <3>4
  <2> QED
    BY <2>1, <2>2
<1> QED
  BY <1>3, <1>4 DEF RInv

\* A step of slot r that leaves the table alone.
LEMMA MoveStep ==
  ASSUME RInv, NEW r \in Slots, UNCHANGED inverters, ~Stored(r),
         call' = [call EXCEPT ![r] = call'[r]],
         call'[r] \in Kinds, Fits(call'[r]), ~Created(call'[r])
  PROVE  RInv'
<1>1. \A x \in Slots, n \in Serials : inverters'[n] = x <=> inverters[n] = x
  OBVIOUS
<1>2. inverters' \in [Serials -> Slots \cup {"none", "settled"}]
  BY AtSlot
<1>3. RowFits(r)'
  BY <1>1 DEF RowFits, Stored
<1> QED
  BY <1>1, <1>2, <1>3, SlotStep

\* Envelope and log of one request carry the same id when the client sent an
\* x-request-id, and only then.
LEMMA SameId ==
  ASSUME NEW h \in Headers
  PROVE  /\ AnswerId(h) \in Ids \cup {NoId, Blank}
         /\ LogId(h) \in Ids \cup {NoId, Fresh}
         /\ LogId(h) = AnswerId(h) <=> h.request \in Ids
  BY HeadersAssumption DEF LogId, AnswerId

LEMMA Statuses ==
  /\ FilterStatus(Exception(BadRequest)) = 400
  /\ FilterStatus(Exception(Thrown)) = 500
  /\ \A name : /\ FilterStatus(PlainError(name)) = 500
               /\ \A status : FilterStatus(HttpError(status, name)) = status
               /\ \A status : FilterStatus(HttpText(status, name)) = status
  BY DEF FilterStatus, Exception, BadRequest, Thrown, HttpError, HttpText, PlainError

LEMMA ErrorNames ==
  /\ FilterError(Exception(BadRequest)) = "Bad Request"
  /\ FilterError(Exception(Thrown)) = "Error"
  /\ \A name : /\ FilterError(PlainError(name)) = name
               /\ \A status : FilterError(HttpError(status, name)) = name
               /\ \A status : FilterError(HttpText(status, name)) = "InternalServerError"
  BY DEF FilterError, Exception, BadRequest, Thrown, HttpError, HttpText, PlainError

\* What a request that is refused keeps.
LEMMA RefusalFits ==
  ASSUME RInv, NEW r \in Slots,
         call[r].headers \in Headers, call[r].authed \in BOOLEAN,
         NEW x, FilterStatus(x) \in Nat \ {201}, FilterError(x) \in Words,
         FilterStatus(x) = 401 <=> ~call[r].authed,
         Refused(r, x) \/ Failed(r, x)
  PROVE  /\ call' = [call EXCEPT ![r] = call'[r]]
         /\ call'[r] \in Kinds /\ Fits(call'[r])
         /\ call'[r].pc = "answered" /\ call'[r].body.status = FilterStatus(x)
         /\ call'[r].tried = (call[r].pc = "insert")
<1> DEFINE h     == call[r].headers
           entry == Log(h, TRUE)
           body  == ErrorBody(h, x)
<1>0. h \in Headers
  OBVIOUS
<1> HIDE DEF h
<1>1. /\ body \in Body
      /\ body.status = FilterStatus(x)
      /\ entry \in Entry
      /\ NoLog \in Entry
  <2>1. body \in Body
    BY <1>0, SameId DEF ErrorBody, Body
  <2>2. body.status = FilterStatus(x)
    BY DEF ErrorBody
  <2>3. entry \in Entry /\ NoLog \in Entry
    BY <1>0, SameId DEF Log, Entry, NoLog
  <2> QED
    BY <2>1, <2>2, <2>3
<1>2. LogFits(h, body, entry)
  <2>1. entry.error = (~body.success)
    BY DEF ErrorBody, Log
  <2>2. entry.id = body.id <=> h.request \in Ids
    BY <1>0, SameId DEF ErrorBody, Log
  <2>3. entry.status = 201 /\ body.success = FALSE
    BY DEF ErrorBody, Log
  <2> HIDE DEF entry, body
  <2>4. entry.status = body.status <=> body.success
    BY <1>1, <2>3
  <2> QED
    BY <2>1, <2>2, <2>4, Zenon DEF LogFits
<1>3. Answered(r, body, NoLog) \/ Answered(r, body, entry)
  BY DEF Refused, Failed, h
<1> HIDE DEF entry, body
<1>4. PICK tried \in BOOLEAN : tried = (call[r].pc = "insert")
  OBVIOUS
<1>5. PICK log \in {NoLog, entry} : Answered(r, body, log)
  BY <1>3
<1> DEFINE k == [pc |-> "answered", authed |-> call[r].authed,
                 headers |-> h, body |-> body, log |-> log, tried |-> tried]
<1>6. /\ k.pc = "answered" /\ k.authed = call[r].authed /\ k.headers = h
      /\ k.body = body /\ k.log = log /\ k.tried = tried
  OBVIOUS
<1>7. k \in Ended
  BY <1>0, <1>1, <1>4, <1>5 DEF Ended
<1>8. call' = [call EXCEPT ![r] = k]
  BY <1>4, <1>5, Zenon DEF Answered, h
<1> HIDE DEF k
<1>9. AnswerFits(k)
  BY <1>1, <1>2, <1>5, <1>6 DEF AnswerFits
<1>10. Fits(k) /\ k \in Kinds
  BY <1>6, <1>7, <1>9 DEF Fits, Kinds, Inside
<1>11. call'[r] = k
  BY <1>8 DEF RInv, TypeOK
<1>12. call' = [call EXCEPT ![r] = call'[r]]
  BY <1>8, <1>11
<1>13. call'[r].tried = (call[r].pc = "insert")
  BY <1>4, <1>6, <1>11, Zenon
<1>14. call'[r].pc = "answered" /\ call'[r].body.status = FilterStatus(x)
  BY <1>1, <1>6, <1>11
<1> QED
  BY <1>10, <1>11, <1>12, <1>13, <1>14

\* A slot whose request is refused in a step of its own.
LEMMA RefusalStep ==
  ASSUME RInv, NEW r \in Slots, UNCHANGED inverters, ~Stored(r),
         call[r].headers \in Headers, call[r].authed \in BOOLEAN,
         NEW x, FilterStatus(x) \in Nat \ {201}, FilterError(x) \in Words,
         FilterStatus(x) = 401 <=> ~call[r].authed,
         Refused(r, x) \/ Failed(r, x)
  PROVE  RInv'
<1>1. /\ call' = [call EXCEPT ![r] = call'[r]]
      /\ call'[r] \in Kinds /\ Fits(call'[r])
      /\ call'[r].body.status = FilterStatus(x)
  BY RefusalFits
<1>2. ~Created(call'[r])
  BY <1>1 DEF Created
<1> QED
  BY <1>1, <1>2, MoveStep

\* The reading lemmas: what an adapter makes of a raw reading is typed and kept.
LEMMA KilowattsInt ==
  ASSUME NEW w \in Int \cup {Missing}
  PROVE  /\ Kilowatts(w) \in Int \cup {Missing}
         /\ Kilowatts(w) = Missing <=> w = Missing
<1>1. CASE w = Missing
  BY <1>1 DEF Kilowatts
<1>2. CASE w # Missing
  <2>1. (w + 5) \div 10 \in Int
    BY <1>2
  <2> QED
    BY <1>2, <2>1, MarksAssumption DEF Kilowatts
<1> QED
  BY <1>1, <1>2

States == {"normal", "standby", "offline", "fault", "unknown"}

LEMMA StatusWord ==
  ASSUME NEW n \in Nat
  PROVE  GrowattStatus(n) \in States /\ SunsynkState(n) \in States
  BY DEF GrowattStatus, SunsynkState, States

Read(raw) == [pc |-> "read", raw |-> raw, metric |-> Metric(raw.brand, raw)]

LEMMA MetricFits ==
  ASSUME NEW raw \in Raws
  PROVE  Read(raw) \in Reading /\ Kept(Read(raw))
<1> DEFINE Value == Int \cup {Missing}
           k     == Read(raw)
<1>1. k.raw = raw /\ k.metric = Metric(raw.brand, raw)
  BY DEF Read
<1>2. CASE raw \in [brand : {"GROWATT"}, state : Nat, power : Value, charge : Value \X Value]
  <2>1. /\ raw.brand = "GROWATT" /\ raw.state \in Nat /\ raw.power \in Value
        /\ raw.charge[1] \in Value /\ raw.charge[2] \in Value
    BY <1>2
  <2>2. /\ Metric(raw.brand, raw).status = GrowattStatus(raw.state)
        /\ Metric(raw.brand, raw).power = Kilowatts(raw.power)
        /\ Metric(raw.brand, raw).soc = FirstPresent(raw.charge[1], raw.charge[2])
        /\ Metric(raw.brand, raw) \in [status : States, power : Value, soc : Value]
    BY <2>1, KilowattsInt, StatusWord DEF Metric, GrowattMetric, FirstPresent
  <2>3. k \in Reading
    BY <2>2 DEF Read, Reading, States
  <2>4. /\ (k.metric.soc = Missing) = (Given(raw) = {})
        /\ k.metric.soc # Missing => k.metric.soc \in Given(raw)
    BY <1>1, <2>1, <2>2 DEF FirstPresent, Given
  <2>5. (k.metric.power = Missing) = (raw.power = Missing)
    BY <1>1, <2>1, <2>2, KilowattsInt
  <2> QED
    BY <1>1, <2>1, <2>3, <2>4, <2>5 DEF Kept
<1>3. CASE raw \in [brand : {"SUNSYNK"}, state : Nat, power : Value, charge : Seq(Value)]
  <2>1. /\ raw.brand = "SUNSYNK" /\ raw.state \in Nat /\ raw.power \in Value
        /\ raw.charge \in Seq(Value)
    BY <1>3
  <2>2. Lookup(raw.charge) \in Value
    BY <2>1 DEF Lookup
  <2>3. /\ Metric(raw.brand, raw).status = SunsynkState(raw.state)
        /\ Metric(raw.brand, raw).power = Kilowatts(raw.power)
        /\ Metric(raw.brand, raw).soc = Lookup(raw.charge)
        /\ Metric(raw.brand, raw) \in [status : States, power : Value, soc : Value]
    BY <2>1, <2>2, KilowattsInt, StatusWord DEF Metric, SunsynkMetric
  <2>4. k \in Reading
    BY <2>3 DEF Read, Reading, States
  <2>5. CASE raw.charge = <<>>
    <3>1. Given(raw) = {} /\ Lookup(raw.charge) = Missing
      BY <2>1, <2>5 DEF Lookup, Given
    <3>2. (k.metric.power = Missing) = (raw.power = Missing)
      BY <1>1, <2>1, <2>3, KilowattsInt
    <3> QED
      BY <1>1, <2>1, <2>3, <2>4, <3>1, <3>2 DEF Kept
  <2>6. CASE raw.charge # <<>>
    <3>1. DOMAIN raw.charge \cap {Len(raw.charge)} = {Len(raw.charge)}
      BY <2>1, <2>6
    <3>2. Given(raw) = {raw.charge[Len(raw.charge)]} \ {Missing}
      BY <2>1, <3>1 DEF Given
    <3>3. Lookup(raw.charge) = raw.charge[Len(raw.charge)]
      BY <2>6 DEF Lookup
    <3>4. (k.metric.power = Missing) = (raw.power = Missing)
      BY <1>1, <2>1, <2>3, KilowattsInt
    <3>5. /\ (k.metric.soc = Missing) = (Given(raw) = {})
          /\ k.metric.soc # Missing => k.metric.soc \in Given(raw)
      BY <1>1, <2>3, <3>2, <3>3
    <3> QED
      BY <1>1, <2>1, <2>4, <3>4, <3>5 DEF Kept
  <2> QED
    BY <2>5, <2>6
<1> QED
  BY <1>2, <1>3, RawsAssumption

\* The device an adapter chooses: one of those listed, and an inverter when
\* the brand tells devices apart and there is one.
LEMMA ChosenFits ==
  ASSUME NEW devices \in Listings, NEW brand \in Brands \ {"DEYE"},
         DevicesOutcome(brand, devices) = NoException
  PROVE  /\ Chosen(brand, devices) \in Device
         /\ brand = "VICTRON" \/ (Inverters(devices) # {} => Chosen(brand, devices).inverter)
<1>1. PICK n \in 0..MaxDevices : devices \in [1..n -> Device]
  BY DEF Listings
<1>2. devices # <<>> /\ (brand = "GROWATT" => devices[1].inverter)
  BY DEF DevicesOutcome, BadRequest, NoException
<1>3. n \in Nat /\ n # 0
  BY <1>1, <1>2, DevicesAssumption
<1>4. devices[1] \in Device
  BY <1>1, <1>3
<1>5. CASE brand = "SUNSYNK" /\ Inverters(devices) # {}
  <2> DEFINE S == Inverters(devices)
  <2>1. S \subseteq Nat /\ S # {} /\ \A i \in S : devices[i] \in Device /\ devices[i].inverter
    BY <1>1, <1>3, <1>5 DEF Inverters
  <2> HIDE DEF S
  <2> DEFINE R == OpToRel(<, Nat)
  <2>2. IsWellFoundedOn(R, Nat) /\ R = {p \in Nat \X Nat : p[1] < p[2]}
    BY NatLessThanWellFounded DEF OpToRel
  <2> HIDE DEF R
  <2>3. PICK i \in S : \A j \in S : i <= j
    <3>1. PICK i \in S : \A j \in S : <<j, i>> \notin R
      BY <2>1, <2>2, WFMin
    <3>2. ASSUME NEW j \in S
          PROVE  i <= j
      <4>1. <<j, i>> \notin R /\ i \in Nat /\ j \in Nat
        BY <2>1, <3>1
      <4>2. ~(j < i)
        BY <2>2, <4>1
      <4> QED
        BY <4>1, <4>2
    <3> QED
      BY <3>2
  <2>4. Min(S) \in S
    BY <2>3 DEF Min
  <2>5. Chosen(brand, devices) = devices[Min(S)]
    BY <1>5 DEF Chosen, S
  <2> QED
    BY <2>1, <2>4, <2>5
<1>6. CASE ~(brand = "SUNSYNK" /\ Inverters(devices) # {})
  <2>1. Chosen(brand, devices) = devices[1]
    BY <1>6 DEF Chosen
  <2>2. brand \in {"VICTRON", "GROWATT", "SUNSYNK"}
    BY DEF Brands
  <2> QED
    BY <1>2, <1>4, <1>6, <2>1, <2>2
<1> QED
  BY <1>5, <1>6

-----------------------------------------------------------------------------
\* A slot whose request writes its row, whatever it answers.
LEMMA WriteStep ==
  ASSUME RInv, NEW r \in Slots, NEW sn \in Serials, ~Stored(r),
         inverters[sn] = "none", inverters' = [inverters EXCEPT ![sn] = r],
         call' = [call EXCEPT ![r] = call'[r]],
         call'[r] \in Kinds, Fits(call'[r]),
         Created(call'[r]) \/ Unacknowledged(call'[r])
  PROVE  RInv'
<1>1. inverters' \in [Serials -> Slots \cup {"none", "settled"}]
  BY AtSlot
<1>2. \A x \in Slots \ {r}, n \in Serials : inverters'[n] = x <=> inverters[n] = x
  BY AtSlot, MarksAssumption
<1>3. \A n \in Serials : inverters'[n] = r <=> n = sn
  BY AtSlot DEF Stored
<1>4. RowFits(r)'
  BY <1>3 DEF RowFits, Stored
<1> QED
  BY <1>1, <1>2, <1>4, SlotStep

\* The request that stores its inverter is the one that answers 201.
LEMMA InsertStep ==
  ASSUME RInv, NEW r \in Slots, Insert(r)
  PROVE  RInv'
<1>1. call[r] \in Storing /\ ~Stored(r)
  BY AtSlot, KindOf DEF Insert
<1>2. call[r].authed = TRUE /\ call[r].headers \in Headers
  BY <1>1, AtSlot DEF Fits, Inside, Insert, Storing
<1> DEFINE sn == call[r].device.sn
           h  == call[r].headers
<1>3. sn \in Serials
  BY <1>1 DEF Storing, Device
<1> HIDE DEF sn
<1>4. CASE inverters[sn] # "none"
  <2>1. Failed(r, PlainError("QueryFailedError")) /\ UNCHANGED inverters
    BY <1>4 DEF Insert, sn
  <2>2. FilterStatus(PlainError("QueryFailedError")) = 500
    BY Statuses
  <2>3. FilterError(PlainError("QueryFailedError")) \in Words
    BY ErrorNames DEF Words
  <2>4. /\ FilterStatus(PlainError("QueryFailedError")) \in Nat \ {201}
        /\ FilterStatus(PlainError("QueryFailedError")) = 401 <=> ~call[r].authed
    BY <1>2, <2>2
  <2> QED
    BY <1>1, <1>2, <2>1, <2>3, <2>4, RefusalStep
<1>5. CASE inverters[sn] = "none"
  <2>1. /\ inverters' = [inverters EXCEPT ![sn] = r]
        /\ Answered(r, SuccessBody(h, "POST", 201), Log(h, FALSE))
    BY <1>5 DEF Insert, sn
  <2> DEFINE body  == SuccessBody(h, "POST", 201)
             entry == Log(h, FALSE)
  <2>2. body \in Body /\ body.status = 201
    <3>1. body.status = 201
      BY DEF SuccessBody
    <3>2. SuccessMessage("POST", 201) = "CREATED"
      BY DEF SuccessMessage
    <3>3. (201 = 204) = FALSE
      OBVIOUS
    <3>4. SuccessBody(h, "POST", 201)
            = [status |-> 201, success |-> TRUE, empty |-> FALSE,
               word |-> "CREATED", id |-> AnswerId(h)]
      BY <3>2, <3>3, Zenon DEF SuccessBody
    <3>5. AnswerId(h) \in Ids \cup {NoId, Blank}
      BY <1>2, SameId
    <3>6. [status |-> 201, success |-> TRUE, empty |-> FALSE,
           word |-> "CREATED", id |-> AnswerId(h)] \in Body
      BY <3>5 DEF Body, Words
    <3>7. SuccessBody(h, "POST", 201) \in Body
      BY <3>4, <3>6, Zenon
    <3> QED
      BY <3>1, <3>7
  <2>3. entry \in Entry
    BY <1>2, SameId DEF Log, Entry
  <2>4. LogFits(h, body, entry)
    <3>1. /\ entry.error = FALSE /\ body.success = TRUE
          /\ entry.status = 201 /\ body.status = 201
      BY DEF Log, SuccessBody
    <3>2. entry.id = body.id <=> h.request \in Ids
      BY <1>2, SameId DEF Log, SuccessBody
    <3> QED
      BY <3>1, <3>2 DEF LogFits
  <2> HIDE DEF body, entry
  <2>5. (call[r].pc = "insert") = TRUE
    BY DEF Insert
  <2> DEFINE k == [pc |-> "answered", authed |-> call[r].authed,
                   headers |-> h, body |-> body, log |-> entry, tried |-> TRUE]
  <2>6. /\ k.pc = "answered" /\ k.authed = call[r].authed /\ k.headers = h
        /\ k.body = body /\ k.log = entry
    OBVIOUS
  <2>7. k \in Ended
    BY <1>2, <2>2, <2>3 DEF Ended
  <2>8. call' = [call EXCEPT ![r] = k]
    BY <2>1, <2>5, Zenon DEF Answered, body, entry, h
  <2> HIDE DEF k
  <2>9. AnswerFits(k)
    BY <1>2, <2>2, <2>4, <2>6 DEF AnswerFits
  <2>10. Fits(k) /\ Created(k) /\ k \in Kinds
    BY <2>2, <2>6, <2>7, <2>9 DEF Fits, Created, Kinds, Inside
  <2>11. call'[r] = k /\ call' = [call EXCEPT ![r] = call'[r]]
    BY <2>8, AtSlot
  <2>12. call'[r] \in Kinds /\ Fits(call'[r]) /\ Created(call'[r])
    BY <2>10, <2>11
  <2> QED
    BY <1>1, <1>3, <1>5, <2>1, <2>11, <2>12, WriteStep
<1> QED
  BY <1>4, <1>5

LEMMA LeaveStep ==
  ASSUME RInv, NEW r \in Slots, Leave(r)
  PROVE  RInv'
<1>1. Idle \in Kinds /\ Fits(Idle) /\ ~Created(Idle)
  BY DEF Idle, Kinds, Fits, Created, Inside
<1>2. call'[r] = Idle /\ call' = [call EXCEPT ![r] = call'[r]]
  BY AtSlot DEF Leave
<1>3. /\ inverters' \in [Serials -> Slots \cup {"none", "settled"}]
      /\ \A n \in Serials : inverters'[n] # r
      /\ \A x \in Slots \ {r}, n \in Serials : inverters'[n] = x <=> inverters[n] = x
  <2>1. inverters' = [n \in Serials |-> IF inverters[n] = r THEN "settled" ELSE inverters[n]]
    BY DEF Leave
  <2> QED
    BY <2>1, AtSlot, MarksAssumption
<1>4. call'[r] \in Kinds /\ Fits(call'[r]) /\ ~Created(call'[r])
  BY <1>1, <1>2
<1>5. RowFits(r)'
  BY <1>3, <1>4 DEF RowFits, Stored
<1> QED
  BY <1>2, <1>3, <1>4, <1>5, SlotStep

\* A request is at one of its guards.
LEMMA AtGuard ==
  ASSUME RInv, NEW r \in Slots, call[r].pc \in {"guard", "pipe"}
  PROVE  /\ call[r] \in Guarded /\ ~Stored(r)
         /\ call[r].headers \in Headers /\ call[r].authed \in BOOLEAN
         /\ call[r].pc = "pipe" => call[r].authed
<1>1. call[r] \in Guarded /\ ~Stored(r)
  BY AtSlot, KindOf
<1>2. call[r].headers \in Headers /\ call[r].authed \in BOOLEAN
  BY <1>1 DEF Guarded
<1>3. call[r].pc = "pipe" => call[r].authed
  BY <1>2, AtSlot DEF Fits, Inside
<1> QED
  BY <1>1, <1>2, <1>3

LEMMA ArriveStep ==
  ASSUME RInv, NEW r \in Slots, NEW authed \in BOOLEAN, NEW h \in Headers,
         Arrive(r, authed, h)
  PROVE  RInv'
<1> DEFINE k == [pc |-> "guard", authed |-> authed, headers |-> h]
<1>1. k.pc = "guard" /\ k \in Guarded
  BY DEF Guarded
<1>2. call[r] = Idle /\ call' = [call EXCEPT ![r] = k] /\ UNCHANGED inverters
  BY DEF Arrive
<1> HIDE DEF k
<1>3. k \in Kinds /\ Fits(k) /\ ~Created(k)
  BY <1>1 DEF Kinds, Fits, Created, Inside
<1>4. call'[r] = k /\ call' = [call EXCEPT ![r] = call'[r]]
  BY <1>2, AtSlot
<1>5. call'[r] \in Kinds /\ Fits(call'[r]) /\ ~Created(call'[r])
  BY <1>3, <1>4
<1>6. ~Stored(r)
  BY <1>2, AtSlot DEF Idle
<1> QED
  BY <1>2, <1>4, <1>5, <1>6, MoveStep

\* What the guards and the pipe answer.
LEMMA RefuseTokenStep ==
  ASSUME RInv, NEW r \in Slots, RefuseToken(r)
  PROVE  RInv'
<1> DEFINE x == HttpError(401, "UnauthorizedException")
<1>1. FilterStatus(x) = 401 /\ FilterError(x) \in Words
  <2>1. FilterStatus(x) = 401
    BY Statuses
  <2>2. FilterError(x) \in Words
    <3>1. FilterError(x) = "UnauthorizedException"
      BY ErrorNames
    <3> QED
      BY <3>1 DEF Words
  <2> QED
    BY <2>1, <2>2
<1>2. Refused(r, x) /\ UNCHANGED inverters /\ ~call[r].authed /\ call[r].pc = "guard"
  BY DEF RefuseToken
<1> HIDE DEF x
<1>3. FilterStatus(x) \in Nat \ {201} /\ (FilterStatus(x) = 401 <=> ~call[r].authed)
  BY <1>1, <1>2
<1> QED
  BY <1>1, <1>2, <1>3, AtGuard, RefusalStep

LEMMA RefuseRateStep ==
  ASSUME RInv, NEW r \in Slots, RefuseRate(r)
  PROVE  RInv'
<1> DEFINE x == HttpText(429, "ThrottlerException")
<1>1. FilterStatus(x) = 429 /\ FilterError(x) \in Words
  <2>1. FilterStatus(x) = 429
    BY Statuses
  <2>2. FilterError(x) \in Words
    <3>1. FilterError(x) = "InternalServerError"
      BY DEF FilterError, HttpText
    <3> QED
      BY <3>1 DEF Words
  <2> QED
    BY <2>1, <2>2
<1>2. Refused(r, x) /\ UNCHANGED inverters /\ call[r].authed /\ call[r].pc = "guard"
  BY DEF RefuseRate
<1> HIDE DEF x
<1>3. FilterStatus(x) \in Nat \ {201} /\ (FilterStatus(x) = 401 <=> ~call[r].authed)
  BY <1>1, <1>2
<1> QED
  BY <1>1, <1>2, <1>3, AtGuard, RefusalStep

LEMMA AdmitStep ==
  ASSUME RInv, NEW r \in Slots, Admit(r)
  PROVE  RInv'
<1> DEFINE k == [call[r] EXCEPT !.pc = "pipe"]
<1>1. call[r] \in Guarded /\ ~Stored(r) /\ call[r].authed
  BY AtGuard DEF Admit
<1>2. k.pc = "pipe" /\ k.authed = call[r].authed /\ k \in Guarded
  BY <1>1 DEF Guarded
<1>3. call' = [call EXCEPT ![r] = k] /\ UNCHANGED inverters
  BY DEF Admit
<1> HIDE DEF k
<1>4. k \in Kinds /\ Fits(k) /\ ~Created(k)
  BY <1>1, <1>2 DEF Kinds, Fits, Created, Inside
<1>5. call'[r] = k /\ call' = [call EXCEPT ![r] = call'[r]]
  BY <1>3, AtSlot
<1>6. call'[r] \in Kinds /\ Fits(call'[r]) /\ ~Created(call'[r])
  BY <1>4, <1>5
<1> QED
  BY <1>1, <1>3, <1>5, <1>6, MoveStep

LEMMA RefuseBodyStep ==
  ASSUME RInv, NEW r \in Slots, RefuseBody(r)
  PROVE  RInv'
<1> DEFINE x == HttpError(400, "Bad Request")
<1>1. FilterStatus(x) = 400 /\ FilterError(x) \in Words
  <2>1. FilterStatus(x) = 400
    BY DEF FilterStatus, HttpError
  <2>2. FilterError(x) \in Words
    <3>1. FilterError(x) = "Bad Request"
      BY DEF FilterError, HttpError
    <3> QED
      BY <3>1 DEF Words
  <2> QED
    BY <2>1, <2>2
<1>2. Failed(r, x) /\ UNCHANGED inverters /\ call[r].pc = "pipe"
  BY DEF RefuseBody
<1> HIDE DEF x
<1>3. FilterStatus(x) \in Nat \ {201} /\ (FilterStatus(x) = 401 <=> ~call[r].authed)
  BY <1>1, <1>2, AtGuard
<1> QED
  BY <1>1, <1>2, <1>3, AtGuard, RefusalStep

LEMMA DispatchStep ==
  ASSUME RInv, NEW r \in Slots, NEW brand \in Brands, Dispatch(r, brand)
  PROVE  RInv'
<1>1. call[r].pc = "pipe" /\ UNCHANGED inverters
  BY DEF Dispatch
<1>2. CASE brand = "DEYE"
  <2> DEFINE x == HttpError(409, "Conflict")
  <2>1. FilterStatus(x) = 409 /\ FilterError(x) \in Words
    <3>1. FilterStatus(x) = 409
      BY Statuses
    <3>2. FilterError(x) \in Words
      <4>1. FilterError(x) = "Conflict"
        BY ErrorNames
      <4> QED
        BY <4>1 DEF Words
    <3> QED
      BY <3>1, <3>2
  <2>2. Failed(r, x)
    BY <1>2 DEF Dispatch
  <2> HIDE DEF x
  <2>3. FilterStatus(x) \in Nat \ {201} /\ (FilterStatus(x) = 401 <=> ~call[r].authed)
    BY <1>1, <2>1, AtGuard
  <2> QED
    BY <1>1, <2>1, <2>2, <2>3, AtGuard, RefusalStep
<1>3. CASE brand # "DEYE"
  <2> DEFINE k == [pc |-> "vendor", authed |-> call[r].authed,
                   headers |-> call[r].headers, brand |-> brand, next |-> 1]
  <2>1. call[r] \in Guarded /\ ~Stored(r) /\ call[r].authed
    BY <1>1, AtGuard
  <2>2. k.pc = "vendor" /\ k.authed = call[r].authed /\ k \in Asking
    BY <1>3, <2>1 DEF Guarded, Asking
  <2>3. call' = [call EXCEPT ![r] = k]
    BY <1>3, AtSlot DEF Dispatch
  <2> HIDE DEF k
  <2>4. k \in Kinds /\ Fits(k) /\ ~Created(k)
    BY <2>1, <2>2 DEF Kinds, Fits, Created, Inside
  <2>5. call'[r] = k /\ call' = [call EXCEPT ![r] = call'[r]]
    BY <2>3, AtSlot
  <2>6. call'[r] \in Kinds /\ Fits(call'[r]) /\ ~Created(call'[r])
    BY <2>4, <2>5
  <2> QED
    BY <1>1, <2>1, <2>5, <2>6, MoveStep
<1> QED
  BY <1>2, <1>3

\* A request that awaits a vendor or the database is the caller's own.
LEMMA AtAwait ==
  ASSUME RInv, NEW r \in Slots, call[r].pc \in {"vendor", "findSerial", "insert"}
  PROVE  /\ call[r].pc = "vendor" => call[r] \in Asking
         /\ call[r].pc # "vendor" => call[r] \in Storing
         /\ ~Stored(r) /\ call[r].authed /\ call[r].authed \in BOOLEAN
         /\ call[r].headers \in Headers /\ call[r].brand \in Brands \ {"DEYE"}
<1>1. /\ call[r].pc = "vendor" => call[r] \in Asking
      /\ call[r].pc # "vendor" => call[r] \in Storing
      /\ ~Stored(r) /\ call[r].authed
  BY AtSlot, KindOf DEF Fits, Inside
<1>2. /\ call[r].authed \in BOOLEAN /\ call[r].headers \in Headers
      /\ call[r].brand \in Brands \ {"DEYE"}
  BY <1>1 DEF Asking, Storing
<1> QED
  BY <1>1, <1>2

\* Whatever an adapter throws becomes a 400 or a 500.
LEMMA ThrownFits ==
  ASSUME NEW o \in {BadRequest, Thrown}
  PROVE  FilterStatus(Exception(o)) \in {400, 500} /\ FilterError(Exception(o)) \in Words
<1>1. FilterStatus(Exception(o)) \in {400, 500}
  BY Statuses
<1>2. FilterError(Exception(o)) \in {"Bad Request", "Error"}
  BY ErrorNames
<1> QED
  BY <1>1, <1>2 DEF Words

LEMMA Outcomes ==
  ASSUME NEW brand, NEW c, NEW a \in Answers, NEW devices
  PROVE  /\ CallOutcome(brand, c, a) \in {NoException, BadRequest, Thrown}
         /\ DevicesOutcome(brand, devices) \in {NoException, BadRequest}
<1>1. /\ a.reached \in BOOLEAN /\ a.ok \in BOOLEAN
      /\ a.body \in {"garbled", "refused", "fine"}
  BY DEF Answers
<1>2. CallOutcome(brand, c, a) \in {NoException, BadRequest, Thrown}
  BY <1>1 DEF CallOutcome
<1> QED
  BY <1>2 DEF DevicesOutcome

\* A request that an exception o of the adapter ends.
LEMMA ThrowStep ==
  ASSUME RInv, NEW r \in Slots, NEW o \in {BadRequest, Thrown},
         call[r].pc \in {"vendor", "findSerial", "insert"},
         UNCHANGED inverters, Failed(r, Exception(o))
  PROVE  RInv'
<1> DEFINE x == Exception(o)
<1>1. FilterStatus(x) \in {400, 500} /\ FilterError(x) \in Words
  BY ThrownFits
<1>2. Failed(r, x)
  OBVIOUS
<1> HIDE DEF x
<1>3. FilterStatus(x) \in Nat \ {201} /\ (FilterStatus(x) = 401 <=> ~call[r].authed)
  BY <1>1, AtAwait
<1> QED
  BY <1>1, <1>2, <1>3, AtAwait, RefusalStep

LEMMA VendorAnswersStep ==
  ASSUME RInv, NEW r \in Slots, NEW a \in Answers, VendorAnswers(r, a)
  PROVE  RInv'
<1> DEFINE calls == VendorCalls(call[r].brand)
           o     == CallOutcome(call[r].brand, calls[call[r].next], a)
<1>1. /\ call[r].pc = "vendor" /\ UNCHANGED inverters
      /\ call[r].next < Len(calls)
      /\ o = NoException => call' = [call EXCEPT ![r].next = @ + 1]
      /\ o # NoException => Failed(r, Exception(o))
  BY DEF VendorAnswers
<1>2. o \in {NoException, BadRequest, Thrown}
  BY Outcomes
<1>3. Len(calls) \in 2..3
  <2>1. call[r].brand \in {"GROWATT", "SUNSYNK", "VICTRON"}
    BY <1>1, AtAwait DEF Brands
  <2> QED
    BY <2>1 DEF VendorCalls, GrowattCalls, SunsynkCalls, VictronCalls
<1> HIDE DEF calls, o
<1>4. CASE o # NoException
  <2>1. o \in {BadRequest, Thrown}
    BY <1>2, <1>4
  <2> QED
    BY <1>1, <1>4, <2>1, ThrowStep
<1>5. CASE o = NoException
  <2> DEFINE k == [call[r] EXCEPT !.next = @ + 1]
  <2>1. call[r] \in Asking /\ ~Stored(r) /\ call[r].authed
    BY <1>1, AtAwait
  <2>2. call[r].next \in 1..3 /\ call[r].next + 1 \in 1..3
    <3>1. call[r].next \in 1..3 /\ Len(calls) \in 2..3
      BY <1>3, <2>1 DEF Asking
    <3>2. call[r].next < Len(calls)
      BY <1>1
    <3> DEFINE n == call[r].next
               m == Len(calls)
    <3>3. n \in 1..3 /\ m \in 2..3 /\ n < m
      BY <3>1, <3>2
    <3> HIDE DEF n, m
    <3>4. n \in 1..3 /\ n + 1 \in 1..3
      BY <3>3
    <3> QED
      BY <3>4 DEF n
  <2>3. k.pc = "vendor" /\ k.authed = call[r].authed /\ k \in Asking
    BY <1>1, <2>1, <2>2 DEF Asking
  <2>4. call' = [call EXCEPT ![r] = k]
    BY <1>1, <1>5
  <2> HIDE DEF k
  <2>5. k \in Kinds /\ Fits(k) /\ ~Created(k)
    BY <2>1, <2>3 DEF Kinds, Fits, Created, Inside
  <2>6. call'[r] = k /\ call' = [call EXCEPT ![r] = call'[r]]
    BY <2>4, AtSlot
  <2>7. call'[r] \in Kinds /\ Fits(call'[r]) /\ ~Created(call'[r])
    BY <2>5, <2>6
  <2> QED
    BY <1>1, <2>1, <2>6, <2>7, MoveStep
<1> QED
  BY <1>4, <1>5

LEMMA VendorListsStep ==
  ASSUME RInv, NEW r \in Slots, NEW a \in Answers, NEW devices \in Listings,
         VendorLists(r, a, devices)
  PROVE  RInv'
<1> DEFINE brand == call[r].brand
           o     == CallOutcome(brand, VendorCalls(brand)[call[r].next], a)
           d     == DevicesOutcome(brand, devices)
           k     == [pc |-> "findSerial", authed |-> call[r].authed,
                     headers |-> call[r].headers, brand |-> brand,
                     device |-> Chosen(brand, devices),
                     sure |-> Inverters(devices) # {}]
<1>1. /\ call[r].pc = "vendor" /\ UNCHANGED inverters
      /\ \/ o # NoException /\ Failed(r, Exception(o))
         \/ o = NoException /\ d # NoException /\ Failed(r, Exception(d))
         \/ o = NoException /\ d = NoException /\ call' = [call EXCEPT ![r] = k]
  BY DEF VendorLists
<1>2. o \in {NoException, BadRequest, Thrown} /\ d \in {NoException, BadRequest}
  BY Outcomes
<1>3. /\ ~Stored(r) /\ call[r].authed /\ call[r].authed \in BOOLEAN
      /\ call[r].headers \in Headers /\ brand \in Brands \ {"DEYE"}
  BY <1>1, AtAwait
<1>4. CASE o # NoException /\ Failed(r, Exception(o))
  <2>1. o \in {BadRequest, Thrown}
    BY <1>2, <1>4
  <2> HIDE DEF o
  <2> QED
    BY <1>1, <1>4, <2>1, ThrowStep
<1>5. CASE d # NoException /\ Failed(r, Exception(d))
  <2>1. d \in {BadRequest, Thrown}
    BY <1>2, <1>5
  <2> HIDE DEF d
  <2> QED
    BY <1>1, <1>5, <2>1, ThrowStep
<1>6. CASE d = NoException /\ call' = [call EXCEPT ![r] = k]
  <2>1. /\ Chosen(brand, devices) \in Device
        /\ brand = "VICTRON" \/ (Inverters(devices) # {} => Chosen(brand, devices).inverter)
    BY <1>3, <1>6, ChosenFits
  <2>2. PICK sure \in BOOLEAN : sure = (Inverters(devices) # {})
    OBVIOUS
  <2>3. k = [pc |-> "findSerial", authed |-> call[r].authed,
             headers |-> call[r].headers, brand |-> brand,
             device |-> Chosen(brand, devices), sure |-> sure]
    BY <2>2, Zenon
  <2>4. /\ k \in Storing
        /\ k.pc = "findSerial" /\ k.authed = call[r].authed
        /\ k.brand = brand /\ k.device = Chosen(brand, devices) /\ k.sure = sure
    BY <1>3, <2>1, <2>3 DEF Storing
  <2> HIDE DEF k
  <2>5. k.brand = "VICTRON" \/ (k.sure => k.device.inverter)
    BY <2>1, <2>2, <2>4
  <2>6. k \in Kinds /\ Fits(k) /\ ~Created(k)
    BY <1>3, <2>4, <2>5 DEF Kinds, Fits, Created, Inside
  <2>7. call'[r] = k /\ call' = [call EXCEPT ![r] = call'[r]]
    BY <1>6, AtSlot
  <2>8. call'[r] \in Kinds /\ Fits(call'[r]) /\ ~Created(call'[r])
    BY <2>6, <2>7
  <2> QED
    BY <1>1, <1>3, <2>7, <2>8, MoveStep
<1> QED
  BY <1>1, <1>4, <1>5, <1>6

LEMMA FindSerialStep ==
  ASSUME RInv, NEW r \in Slots, FindSerial(r)
  PROVE  RInv'
<1>1. call[r].pc = "findSerial" /\ UNCHANGED inverters
  BY DEF FindSerial
<1>2. CASE inverters[call[r].device.sn] # "none"
  <2> DEFINE x == HttpError(409, "Conflict")
  <2>1. FilterStatus(x) = 409 /\ FilterError(x) \in Words
    <3>1. FilterStatus(x) = 409
      BY Statuses
    <3>2. FilterError(x) \in Words
      <4>1. FilterError(x) = "Conflict"
        BY ErrorNames
      <4> QED
        BY <4>1 DEF Words
    <3> QED
      BY <3>1, <3>2
  <2>2. Failed(r, x)
    BY <1>2 DEF FindSerial
  <2> HIDE DEF x
  <2>3. FilterStatus(x) \in Nat \ {201} /\ (FilterStatus(x) = 401 <=> ~call[r].authed)
    BY <1>1, <2>1, AtAwait
  <2> QED
    BY <1>1, <2>1, <2>2, <2>3, AtAwait, RefusalStep
<1>3. CASE inverters[call[r].device.sn] = "none"
  <2> DEFINE k == [call[r] EXCEPT !.pc = "insert"]
  <2>1. call[r] \in Storing /\ ~Stored(r) /\ call[r].authed
    BY <1>1, AtAwait
  <2>2. /\ k.pc = "insert" /\ k.authed = call[r].authed /\ k \in Storing
        /\ k.brand = call[r].brand /\ k.device = call[r].device /\ k.sure = call[r].sure
    BY <2>1 DEF Storing
  <2>3. call' = [call EXCEPT ![r] = k]
    BY <1>3 DEF FindSerial
  <2>4. call[r].brand = "VICTRON" \/ (call[r].sure => call[r].device.inverter)
    BY <1>1, AtSlot DEF Fits
  <2> HIDE DEF k
  <2>5. k.brand = "VICTRON" \/ (k.sure => k.device.inverter)
    BY <2>2, <2>4
  <2>6. k \in Kinds /\ Fits(k) /\ ~Created(k)
    BY <2>1, <2>2, <2>5 DEF Kinds, Fits, Created, Inside
  <2>7. call'[r] = k /\ call' = [call EXCEPT ![r] = call'[r]]
    BY <2>3, AtSlot
  <2>8. call'[r] \in Kinds /\ Fits(call'[r]) /\ ~Created(call'[r])
    BY <2>6, <2>7
  <2> QED
    BY <1>1, <2>1, <2>7, <2>8, MoveStep
<1> QED
  BY <1>2, <1>3

LEMMA Rejected ==
  ASSUME NEW name \in Rejections
  PROVE  /\ FilterStatus(PlainError(name)) = 500
         /\ FilterError(PlainError(name)) \in Words
<1>1. FilterStatus(PlainError(name)) = 500
  BY Statuses
<1>2. FilterError(PlainError(name)) = name
  BY ErrorNames
<1> QED
  BY <1>1, <1>2 DEF Rejections, Words

LEMMA DatabaseFailsStep ==
  ASSUME RInv, NEW r \in Slots, DatabaseFails(r)
  PROVE  RInv'
<1>1. PICK name \in Rejections : Failed(r, PlainError(name))
  BY DEF DatabaseFails
<1> DEFINE x == PlainError(name)
<1>2. FilterStatus(x) = 500 /\ FilterError(x) \in Words
  BY Rejected
<1>3. Failed(r, x) /\ UNCHANGED inverters /\ call[r].pc \in {"findSerial", "insert"}
  BY <1>1 DEF DatabaseFails
<1> HIDE DEF x
<1>4. FilterStatus(x) \in Nat \ {201} /\ (FilterStatus(x) = 401 <=> ~call[r].authed)
  BY <1>2, <1>3, AtAwait
<1> QED
  BY <1>2, <1>3, <1>4, AtAwait, RefusalStep

\* The request that stores its inverter and does not learn of it answers 500.
LEMMA UnacknowledgedStep ==
  ASSUME RInv, NEW r \in Slots, InsertUnacknowledged(r)
  PROVE  RInv'
<1> DEFINE sn == call[r].device.sn
<1>1. PICK name \in Rejections : Failed(r, PlainError(name))
  BY DEF InsertUnacknowledged
<1>2. /\ call[r].pc = "insert" /\ inverters[sn] = "none"
      /\ inverters' = [inverters EXCEPT ![sn] = r]
  BY DEF InsertUnacknowledged
<1>3. sn \in Serials
  BY <1>2, AtAwait DEF Storing, Device
<1> HIDE DEF sn
<1> DEFINE x == PlainError(name)
<1>4. FilterStatus(x) = 500 /\ FilterError(x) \in Words
  BY Rejected
<1>5. Failed(r, x)
  BY <1>1
<1> HIDE DEF x
<1>6. FilterStatus(x) \in Nat \ {201} /\ (FilterStatus(x) = 401 <=> ~call[r].authed)
  BY <1>2, <1>4, AtAwait
<1>7. /\ call' = [call EXCEPT ![r] = call'[r]]
      /\ call'[r] \in Kinds /\ Fits(call'[r])
      /\ call'[r].pc = "answered" /\ call'[r].body.status = 500
      /\ call'[r].tried = (call[r].pc = "insert")
  BY <1>2, <1>4, <1>5, <1>6, AtAwait, RefusalFits
<1>8. Unacknowledged(call'[r])
  BY <1>2, <1>7 DEF Unacknowledged
<1> QED
  BY <1>2, <1>3, <1>7, <1>8, AtAwait, WriteStep

LEMMA FetchMetricsStep ==
  ASSUME RInv, NEW r \in Slots, NEW raw \in Raws, FetchMetrics(r, raw)
  PROVE  RInv'
<1>1. call[r] = Idle /\ call' = [call EXCEPT ![r] = Read(raw)] /\ UNCHANGED inverters
  BY DEF FetchMetrics, Read
<1>2. Read(raw) \in Reading /\ Kept(Read(raw)) /\ Read(raw).pc = "read"
  BY MetricFits DEF Read
<1>3. Read(raw) \in Kinds /\ Fits(Read(raw)) /\ ~Created(Read(raw))
  BY <1>2 DEF Kinds, Fits, Created, Inside
<1>4. call'[r] = Read(raw) /\ call' = [call EXCEPT ![r] = call'[r]]
  BY <1>1, AtSlot
<1>5. call'[r] \in Kinds /\ Fits(call'[r]) /\ ~Created(call'[r])
  BY <1>3, <1>4
<1>6. ~Stored(r)
  BY <1>1, AtSlot DEF Idle
<1> QED
  BY <1>1, <1>4, <1>5, <1>6, MoveStep

-----------------------------------------------------------------------------
LEMMA InitRInv == Init => RInv
<1> SUFFICES ASSUME Init PROVE RInv
  OBVIOUS
<1>1. TypeOK
  BY DEF Init, TypeOK
<1>2. ASSUME NEW r \in Slots PROVE Fits(call[r]) /\ ~Created(call[r]) /\ ~Stored(r)
  <2>1. call[r] = Idle
    BY DEF Init
  <2>2. Fits(call[r]) /\ ~Created(call[r])
    BY <2>1 DEF Fits, Created, Inside, Idle
  <2>3. ~Stored(r)
    BY MarksAssumption DEF Init, Stored
  <2> QED
    BY <2>2, <2>3
<1> QED
  BY <1>1, <1>2 DEF RInv, RowFits, Stored

LEMMA NextRInv == RInv /\ [Next]_vars => RInv'
<1> SUFFICES ASSUME RInv, [Next]_vars PROVE RInv'
  OBVIOUS
<1>1. CASE UNCHANGED vars
  BY <1>1 DEF vars, RInv, TypeOK, RowFits, Stored
<1>2. CASE Next
  <2>1. PICK r \in Slots :
          \/ \E authed \in BOOLEAN, h \in Headers : Arrive(r, authed, h)
          \/ RefuseToken(r) \/ RefuseRate(r) \/ Admit(r) \/ RefuseBody(r)
          \/ \E brand \in Brands : Dispatch(r, brand)
          \/ \E a \in Answers : VendorAnswers(r, a)
          \/ \E a \in Answers, devices \in Listings : VendorLists(r, a, devices)
          \/ FindSerial(r) \/ Insert(r) \/ InsertUnacknowledged(r) \/ DatabaseFails(r)
          \/ Leave(r)
          \/ \E raw \in Raws : FetchMetrics(r, raw)
    BY <1>2 DEF Next
  <2>2. CASE \E authed \in BOOLEAN, h \in Headers : Arrive(r, authed, h)
    BY <2>2, ArriveStep
  <2>3. CASE RefuseToken(r)
    BY <2>3, RefuseTokenStep
  <2>4. CASE RefuseRate(r)
    BY <2>4, RefuseRateStep
  <2>5. CASE Admit(r)
    BY <2>5, AdmitStep
  <2>6. CASE RefuseBody(r)
    BY <2>6, RefuseBodyStep
  <2>7. CASE \E brand \in Brands : Dispatch(r, brand)
    BY <2>7, DispatchStep
  <2>8. CASE \E a \in Answers : VendorAnswers(r, a)
    BY <2>8, VendorAnswersStep
  <2>9. CASE \E a \in Answers, devices \in Listings : VendorLists(r, a, devices)
    BY <2>9, VendorListsStep
  <2>10. CASE FindSerial(r)
    BY <2>10, FindSerialStep
  <2>11. CASE Insert(r)
    BY <2>11, InsertStep
  <2>12. CASE DatabaseFails(r)
    BY <2>12, DatabaseFailsStep
  <2>13. CASE Leave(r)
    BY <2>13, LeaveStep
  <2>14. CASE \E raw \in Raws : FetchMetrics(r, raw)
    BY <2>14, FetchMetricsStep
  <2>15. CASE InsertUnacknowledged(r)
    BY <2>15, UnacknowledgedStep
  <2> QED
    BY <2>1, <2>2, <2>3, <2>4, <2>5, <2>6, <2>7, <2>8, <2>9, <2>10, <2>11, <2>12,
       <2>13, <2>14, <2>15
<1> QED
  BY <1>1, <1>2

\* RInv always holds; the theorems below follow from it.
LEMMA Invariance == Spec => []RInv
  BY InitRInv, NextRInv, PTL DEF Spec

\* A request is always at one of its awaits with what the code keeps there: it
\* never asks past its brand's last call nor stores a device that is none.
THEOREM TypeCorrect == Spec => []TypeOK
<1>1. RInv => TypeOK
  BY DEF RInv
<1> QED
  BY <1>1, Invariance, PTL

\* Of a request that is answered, its own row exists after a 201, may exist after
\* the 500 of one that had sent its insert, and exists after no other answer,
\* however many requests race for a serial number and whoever fails on the way.
THEOREM AnswerTells == Spec => []AnswerTellsWhatWasStored
<1>1. RInv => AnswerTellsWhatWasStored
  <2> SUFFICES ASSUME RInv, NEW r \in Slots, IsAnswered(r)
               PROVE  LET stored == {n \in Serials : inverters[n] = r}
                          status == call[r].body.status
                      IN /\ status = 201 => stored # {}
                         /\ stored # {} => status = 201 \/ (status = 500 /\ call[r].tried)
                         /\ \A m, n \in stored : m = n
    BY DEF AnswerTellsWhatWasStored
  <2>1. RowFits(r)
    BY DEF RInv
  <2> QED
    BY <2>1 DEF RowFits, IsAnswered, Stored, Created, Unacknowledged
<1> QED
  BY <1>1, Invariance, PTL

\* No answer of a vendor turns into a 401 to the client.
THEOREM UnauthorizedMeans == Spec => []UnauthorizedMeansToken
<1>1. RInv => UnauthorizedMeansToken
  BY DEF RInv, UnauthorizedMeansToken, IsAnswered, Fits, AnswerFits
<1> QED
  BY <1>1, Invariance, PTL

\* Whatever devices an account lists, and in whatever order, what goes on to
\* the table is an inverter if the brand tells devices apart and there is one.
THEOREM ConnectsInverter == Spec => []ConnectsAnInverter
<1>1. RInv => ConnectsAnInverter
  BY DEF RInv, ConnectsAnInverter, Fits
<1> QED
  BY <1>1, Invariance, PTL

\* For any headers, log and answer agree on success always, on the id exactly
\* when the client sent an x-request-id, and on the status exactly on success.
THEOREM LogAndAnswer == Spec => []WhereLogAndAnswerAgree
<1>1. RInv => WhereLogAndAnswerAgree
  BY DEF RInv, WhereLogAndAnswerAgree, IsAnswered, Fits, AnswerFits, LogFits
<1> QED
  BY <1>1, Invariance, PTL

\* Any reading, zeros included, survives its adapter.
THEOREM Readings == Spec => []ReadingsKept
<1>1. RInv => ReadingsKept
  BY DEF RInv, ReadingsKept, Fits, Kept, Given
<1> QED
  BY <1>1, Invariance, PTL
=============================================================================
