------------------------------ MODULE Adapters ------------------------------
(***************************************************************************)
(* GrowattAdapter, SunsynkAdapter and VictronAdapter as operators: the     *)
(* calls each makes to find a user's system, what it makes of the vendor's *)
(* answers, and how it normalises the readings of a device.                *)
(*                                                                         *)
(* Growatt answers with one record or a list of them; the adapter takes    *)
(* the one record or the first of the list, so a one-element list stands   *)
(* for both.  A number is an integer; Missing is null, undefined or, where *)
(* the vendor sends text, a text that is blank or no number.               *)
(***************************************************************************)
EXTENDS Integers, Sequences, FiniteSetsExt

CONSTANTS Serials, Missing

Brands == {"VICTRON", "GROWATT", "SUNSYNK", "DEYE"}

\* A device under a plant; for Victron an installation, which is no device.
Device == [sn : Serials, inverter : BOOLEAN]

-----------------------------------------------------------------------------
(* Finding the system.                                                     *)

\* The calls in order; the last one lists the devices.
GrowattCalls == <<"plants", "devices">>
SunsynkCalls == <<"token", "stations", "devices">>
VictronCalls == <<"me", "installations">>

VendorCalls(brand) ==
    CASE brand = "GROWATT" -> GrowattCalls
      [] brand = "SUNSYNK" -> SunsynkCalls
      [] brand = "VICTRON" -> VictronCalls

\* What may come of a call: fetch rejects; the status is not 2xx; the body is
\* no JSON; it reports an error or lists nothing; or it is as asked for.
Answers == [reached : BOOLEAN, ok : BOOLEAN,
            body : {"garbled", "refused", "fine"}]

NoException == [class |-> "none", status |-> 0]
BadRequest  == [class |-> "http", status |-> 400]
Thrown      == [class |-> "error", status |-> 0]

\* What an adapter throws after call c of a brand.  Victron's first body is
\* not examined, and of its second answer the body but not the status is.
CallOutcome(brand, c, a) ==
    CASE ~a.reached                                    -> Thrown
      [] a.reached /\ ~a.ok /\ c # "installations"     -> BadRequest
      [] a.reached /\ (a.ok \/ c = "installations") ->
           CASE a.body = "garbled"                     -> Thrown
             [] a.body = "refused" /\ c # "me"         -> BadRequest
             [] OTHER                                  -> NoException

\* The first device, whatever it is.
ChosenFirst(brand, devices) == devices[1]

Inverters(devices) == {i \in DOMAIN devices : devices[i].inverter}

\* The first inverter, and nothing to fall back on.
ChosenOrNothing(brand, devices) ==
    IF brand # "SUNSYNK" THEN devices[1]
    ELSE IF Inverters(devices) = {} THEN Missing
    ELSE devices[Min(Inverters(devices))]

\* Sunsynk: the first inverter, or else the first device.
Chosen(brand, devices) ==
    IF brand = "SUNSYNK" /\ Inverters(devices) # {}
    THEN devices[Min(Inverters(devices))] ELSE devices[1]

\* What an adapter throws on the devices of the last answer.  Growatt looks at
\* the first device only and wants it to be of type 1.
DevicesOutcome(brand, devices) ==
    IF devices = <<>> \/ (brand = "GROWATT" /\ ~devices[1].inverter)
    THEN BadRequest ELSE NoException

-----------------------------------------------------------------------------
(* Reading a device.  Watts come in tenths and leave as whole watts, the   *)
(* kilowatts with three decimals of the code.                              *)
Kilowatts(w) == IF w = Missing THEN Missing ELSE (w + 5) \div 10

\* A zero is taken for a missing reading.
FirstNonZero(a, b) == IF a \notin {0, Missing} THEN a
                      ELSE IF b \notin {0, Missing} THEN b ELSE Missing

FirstPresent(a, b) == IF a # Missing THEN a ELSE b

GrowattStatus(status) ==
    CASE status = 0 -> "standby" [] status = 1 -> "normal"
      [] status = 2 -> "fault"   [] OTHER      -> "unknown"

SunsynkState(state) ==
    CASE state = 1 -> "normal" [] state = 2 -> "offline"
      [] state = 3 -> "fault"  [] OTHER     -> "unknown"

\* Of several data points with one key the last stays in the lookup map.
Lookup(points) == IF points = <<>> THEN Missing ELSE points[Len(points)]

\* The normalised metric with every reading tested for truth.
MetricByTruth(brand, raw) ==
    [status |-> IF brand = "GROWATT" THEN GrowattStatus(raw.state)
                ELSE SunsynkState(raw.state),
     power  |-> IF raw.power = 0 THEN Missing ELSE Kilowatts(raw.power),
     soc    |-> IF brand = "GROWATT" THEN FirstNonZero(raw.charge[1], raw.charge[2])
                ELSE Lookup(raw.charge)]

\* A raw reading is the reported state, the power, and where the charge comes
\* from: two sensors of a Growatt device, the points "SoC" of a Sunsynk one.
GrowattMetric(raw) ==
    [status |-> GrowattStatus(raw.state), power |-> Kilowatts(raw.power),
     soc |-> FirstPresent(raw.charge[1], raw.charge[2])]
SunsynkMetric(raw) ==
    [status |-> SunsynkState(raw.state), power |-> Kilowatts(raw.power),
     soc |-> Lookup(raw.charge)]

Metric(brand, raw) ==
    IF brand = "GROWATT" THEN GrowattMetric(raw) ELSE SunsynkMetric(raw)
=============================================================================
