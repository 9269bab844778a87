------------------------------ MODULE Requests ------------------------------
(***************************************************************************)
(* POST /inverters/connect from its arrival to its answer: the global      *)
(* guards, pipe, interceptors and filter of app.module.ts around           *)
(* connectInverter, which asks a vendor and then stores an inverter; and   *)
(* fetchMetrics, which reads a stored one and has no caller yet.           *)
(*                                                                         *)
(* The vendor's account may change between any two calls, so each answer   *)
(* is chosen anew.  A slot r of Slots is one request or one reading; it is *)
(* cut where the code awaits the vendor or the database.  The throttler's  *)
(* count is the library's: here it may refuse any request it is asked of.  *)
(***************************************************************************)
EXTENDS Adapters, Pipeline

CONSTANTS
    Slots,        \* requests in flight at the same time
    MaxDevices,   \* bound: devices a vendor lists
    Headers,      \* pairs [request, correlation] of request id headers
    Raws          \* raw readings, [brand, state, power, charge]

ASSUME DevicesAssumption == MaxDevices \in Nat
ASSUME HeadersAssumption == /\ NoId \notin Ids /\ Blank \notin Ids /\ NoId # Blank
                            /\ Fresh \notin Ids \cup {NoId, Blank}
                            /\ Headers \subseteq [request : Ids \cup {NoId, Blank},
                                                  correlation : Ids \cup {NoId, Blank}]
ASSUME RawsAssumption    ==
    LET Value == Int \cup {Missing} IN
    Raws \subseteq [brand : {"GROWATT"}, state : Nat, power : Value, charge : Value \X Value]
               \cup [brand : {"SUNSYNK"}, state : Nat, power : Value, charge : Seq(Value)]
ASSUME MarksAssumption   == /\ Missing \notin Int /\ Missing \notin Serials
                            /\ {"none", "settled"} \cap Slots = {}

VARIABLES
    inverters,   \* inverters[n]: no row with serial number n ("none"), one
                 \* stored by the request in a slot, or one whose request
                 \* has its answer ("settled")
    call         \* call[r]: where slot r stands

vars == <<inverters, call>>

-----------------------------------------------------------------------------
Idle == [pc |-> "idle"]

Listings == UNION {[1..n -> Device] : n \in 0..MaxDevices}

\* What the logging interceptor writes.  The status of a failed request is
\* the one the route starts with: the filter sets the real one later.
Log(h, failed) == [id |-> LogId(h), error |-> failed, status |-> 201]
NoLog == [id |-> NoId, error |-> FALSE, status |-> 0]

\* tried is history: whether the insert of this request had been sent.
Answered(r, body, log) ==
    call' = [call EXCEPT ![r] = [pc |-> "answered", authed |-> call[r].authed,
                                 headers |-> call[r].headers, body |-> body,
                                 log |-> log, tried |-> call[r].pc = "insert"]]

\* An exception before the interceptors, and one that passes through them.
Refused(r, x) == Answered(r, ErrorBody(call[r].headers, x), NoLog)
Failed(r, x)  == Answered(r, ErrorBody(call[r].headers, x), Log(call[r].headers, TRUE))

Exception(o) == IF o.class = "http" THEN HttpError(o.status, "Bad Request")
                ELSE PlainError("Error")

\* A query that the ORM or, before it, the connection pool rejects.
Rejections == {"QueryFailedError", "Error"}

Init ==
    /\ inverters = [n \in Serials |-> "none"]
    /\ call = [r \in Slots |-> Idle]

-----------------------------------------------------------------------------
(* Seeded faults: plausible slips in the code below, each of which one of  *)
(* the properties must catch, as must those in Adapters and Pipeline.  No  *)
(* behaviour of Spec uses them.                                            *)

\* The answer is given before the row is written.
InsertUnawaited(r) ==
    /\ call[r].pc = "insert"
    /\ Answered(r, SuccessBody(call[r].headers, "POST", 201), Log(call[r].headers, FALSE))
    /\ UNCHANGED inverters

-----------------------------------------------------------------------------
Arrive(r, authed, h) ==
    /\ call[r] = Idle
    /\ call' = [call EXCEPT ![r] = [pc |-> "guard", authed |-> authed, headers |-> h]]
    /\ UNCHANGED inverters

(* JwtAuthGuard comes first: without a valid token the throttler, the next *)
(* guard, is not asked.                                                    *)
RefuseToken(r) ==
    /\ call[r].pc = "guard"
    /\ ~call[r].authed
    /\ Refused(r, HttpError(401, "UnauthorizedException"))
    /\ UNCHANGED inverters

(* AppThrottlerGuard, by address; its exception's response is a text.      *)
RefuseRate(r) ==
    /\ call[r].pc = "guard"
    /\ call[r].authed
    /\ Refused(r, HttpText(429, "ThrottlerException"))
    /\ UNCHANGED inverters

Admit(r) ==
    /\ call[r].pc = "guard"
    /\ call[r].authed
    /\ call' = [call EXCEPT ![r].pc = "pipe"]
    /\ UNCHANGED inverters

(* ValidationPipe on InverterConnectorDto, then the switch on the brand,   *)
(* which the enum knows one more of than the switch.                       *)
RefuseBody(r) ==
    /\ call[r].pc = "pipe"
    /\ Failed(r, HttpError(400, "Bad Request"))
    /\ UNCHANGED inverters

Dispatch(r, brand) ==
    /\ call[r].pc = "pipe"
    /\ IF brand = "DEYE" THEN Failed(r, HttpError(409, "Conflict"))
       ELSE call' = [call EXCEPT ![r] =
              [pc |-> "vendor", authed |-> @.authed, headers |-> @.headers,
               brand |-> brand, next |-> 1]]
    /\ UNCHANGED inverters

(* An answer of the vendor to any call but the last.                       *)
VendorAnswers(r, a) ==
    LET k == call[r]
        o == CallOutcome(k.brand, VendorCalls(k.brand)[k.next], a)
    IN /\ k.pc = "vendor"
       /\ k.next < Len(VendorCalls(k.brand))
       /\ IF o = NoException THEN call' = [call EXCEPT ![r].next = @ + 1]
                             ELSE Failed(r, Exception(o))
       /\ UNCHANGED inverters

(* The last answer, which lists devices; one of them is looked for in the  *)
(* inverters table next.                                                   *)
VendorLists(r, a, devices) ==
    LET k == call[r]
        o == CallOutcome(k.brand, VendorCalls(k.brand)[k.next], a)
        d == DevicesOutcome(k.brand, devices)
    IN /\ k.pc = "vendor"
       /\ k.next = Len(VendorCalls(k.brand))
       /\ CASE o # NoException -> Failed(r, Exception(o))
            [] o = NoException /\ d # NoException -> Failed(r, Exception(d))
            [] OTHER -> call' = [call EXCEPT ![r] =
                 [pc |-> "findSerial", authed |-> k.authed, headers |-> k.headers,
                  brand |-> k.brand, device |-> Chosen(k.brand, devices),
                  sure |-> Inverters(devices) # {}]]
       /\ UNCHANGED inverters

FindSerial(r) ==
    /\ call[r].pc = "findSerial"
    /\ IF inverters[call[r].device.sn] # "none"
       THEN Failed(r, HttpError(409, "Conflict"))
       ELSE call' = [call EXCEPT ![r].pc = "insert"]
    /\ UNCHANGED inverters

(* The insert, which the unique index may refuse, and the answer.          *)
Insert(r) ==
    LET k == call[r] IN
    /\ k.pc = "insert"
    /\ IF inverters[k.device.sn] # "none"
       THEN Failed(r, PlainError("QueryFailedError")) /\ UNCHANGED inverters
       ELSE /\ inverters' = [inverters EXCEPT ![k.device.sn] = r]
            /\ Answered(r, SuccessBody(k.headers, "POST", 201), Log(k.headers, FALSE))

(* The row is written, but the acknowledgement is lost: create() rejects.  *)
InsertUnacknowledged(r) ==
    LET sn == call[r].device.sn IN
    /\ call[r].pc = "insert"
    /\ inverters[sn] = "none"
    /\ inverters' = [inverters EXCEPT ![sn] = r]
    /\ \E name \in Rejections : Failed(r, PlainError(name))

(* A query rejects and has changed nothing.                                *)
DatabaseFails(r) ==
    /\ call[r].pc \in {"findSerial", "insert"}
    /\ \E name \in Rejections : Failed(r, PlainError(name))
    /\ UNCHANGED inverters

(* The client has its answer.                                              *)
Leave(r) ==
    /\ call[r].pc \in {"answered", "read"}
    /\ call' = [call EXCEPT ![r] = Idle]
    /\ inverters' = [n \in Serials |-> IF inverters[n] = r THEN "settled"
                                       ELSE inverters[n]]

(* fetchMetrics of a device, when the vendor answers with data.            *)
FetchMetrics(r, raw) ==
    /\ call[r] = Idle
    /\ call' = [call EXCEPT ![r] = [pc |-> "read", raw |-> raw,
                                    metric |-> Metric(raw.brand, raw)]]
    /\ UNCHANGED inverters

Next ==
    \E r \in Slots :
        \/ \E authed \in BOOLEAN, h \in Headers : Arrive(r, authed, h)
        \/ RefuseToken(r) \/ RefuseRate(r) \/ Admit(r) \/ RefuseBody(r)
        \/ \E brand \in Brands : Dispatch(r, brand)
        \/ \E a \in Answers : VendorAnswers(r, a)
        \/ \E a \in Answers, devices \in Listings : VendorLists(r, a, devices)
        \/ FindSerial(r) \/ Insert(r) \/ InsertUnacknowledged(r) \/ DatabaseFails(r)
        \/ Leave(r)
        \/ \E raw \in Raws : FetchMetrics(r, raw)

Spec == Init /\ [][Next]_vars

-----------------------------------------------------------------------------
Words == {"CREATED", "Bad Request", "Conflict", "Error", "UnauthorizedException",
          "InternalServerError", "QueryFailedError"}

Body ==
    [status : Nat, success : BOOLEAN, empty : BOOLEAN, word : Words,
     id : Ids \cup {NoId, Blank}]

Entry == [id : Ids \cup {NoId, Fresh}, error : BOOLEAN, status : Nat]

Guarded == [pc : {"guard", "pipe"}, authed : BOOLEAN, headers : Headers]
Asking  == [pc : {"vendor"}, authed : BOOLEAN, headers : Headers,
            brand : Brands \ {"DEYE"}, next : 1..3]
Storing == [pc : {"findSerial", "insert"}, authed : BOOLEAN, headers : Headers,
            brand : Brands \ {"DEYE"}, device : Device, sure : BOOLEAN]
Ended   == [pc : {"answered"}, authed : BOOLEAN, headers : Headers, body : Body,
            log : Entry, tried : BOOLEAN]
Reading == [pc : {"read"}, raw : Raws,
            metric : [status : {"normal", "standby", "offline", "fault", "unknown"},
                      power : Int \cup {Missing}, soc : Int \cup {Missing}]]

\* Every slot is at one of its awaits with what the code keeps there, and a
\* row names the request that stored it: a call that goes on with a device the
\* vendor did not list, or past the last call of its brand, is neither.
TypeOK ==
    /\ inverters \in [Serials -> Slots \cup {"none", "settled"}]
    /\ call \in [Slots -> {Idle} \cup Guarded \cup Asking \cup Storing \cup Ended \cup Reading]

IsAnswered(r) == call[r].pc = "answered"

\* A 201 is given for a row and never without one, no request leaves two, and
\* every refusal leaves the table as it was, whichever of the guards, the vendor,
\* the duplicate check and the unique index refused.  One answer leaves open
\* whether there is a row: the 500 of a request that had sent its insert.
AnswerTellsWhatWasStored ==
    \A r \in Slots : IsAnswered(r) =>
        LET stored == {n \in Serials : inverters[n] = r}
            status == call[r].body.status
        IN /\ status = 201 => stored # {}
           /\ stored # {} => status = 201 \/ (status = 500 /\ call[r].tried)
           /\ \A m, n \in stored : m = n

\* 401 means the caller's own token and nothing else: whatever goes wrong at a
\* vendor, a client is never told to sign in to the API again
\* (http-exception.filter.ts:27-40 with the adapters' exceptions).
UnauthorizedMeansToken ==
    \A r \in Slots : IsAnswered(r) => (call[r].body.status = 401 <=> ~call[r].authed)

\* Where devices are told apart, the one that is connected is an inverter if
\* the account lists one (growatt.adapter.ts:79-96, sunsynk.adapter.ts:119-122).
ConnectsAnInverter ==
    \A r \in Slots : call[r].pc \in {"findSerial", "insert"} =>
        \/ call[r].brand = "VICTRON"
        \/ call[r].sure => call[r].device.inverter

\* What the log of a request past the guards has in common with its answer.
\* Both always say whether it failed.  They carry the same id exactly when the
\* client sent an x-request-id: sent an x-correlation-id only, the answer carries
\* that and the log a random id.  They carry the same status exactly when it
\* succeeded: a failure is logged before the filter sets its status
\* (logging.interceptor.ts:23, 28-60, standard-response.ts:179-197).
WhereLogAndAnswerAgree ==
    \A r \in Slots : IsAnswered(r) /\ call[r].log # NoLog =>
        LET body == call[r].body
            log  == call[r].log
        IN /\ log.error = ~body.success
           /\ log.id = body.id <=> call[r].headers.request \in Ids
           /\ log.status = body.status <=> body.success

\* A reading the vendor gave is kept, a zero included, and one it did not give
\* is null: no zero is made up, none is dropped.
ReadingsKept ==
    \A r \in Slots : call[r].pc = "read" =>
        LET raw   == call[r].raw
            given == IF raw.brand = "GROWATT" THEN {raw.charge[1], raw.charge[2]} \ {Missing}
                     ELSE {raw.charge[i] : i \in DOMAIN raw.charge \cap {Len(raw.charge)}}
                          \ {Missing}
        IN /\ (call[r].metric.soc = Missing) = (given = {})
           /\ call[r].metric.soc # Missing => call[r].metric.soc \in given
           /\ (call[r].metric.power = Missing) = (raw.power = Missing)
=============================================================================
