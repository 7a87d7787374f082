---------------------------- MODULE SelftestFaults ---------------------------
(***************************************************************************)
(* The fault-injection self-tests (src/selftest_faults.c) and the part of  *)
(* the loopback sensor (hal/hal_loopback.c) that injects their faults.  A  *)
(* test sets a fault, makes its calls of libsdi12's master one after the   *)
(* other, judges what they return, and clears the fault on every way out.  *)
(*                                                                         *)
(* Outside: libsdi12, on both ends of the wire, correct but for one defect *)
(* of the kind each test is there to expose.  A value is its text; a       *)
(* packet its sender and the bytes of its payload.                         *)
(*                                                                         *)
(* A definition named Bug... is the one after it with a mistake.           *)
(***************************************************************************)
EXTENDS PddGrammar

CONSTANTS
  Tests,       \* the tests run, in any order and number
  Defects,     \* what may be wrong with libsdi12, or "none"
  OddTexts,    \* what it may make of a value that is not a number
  BinRoom      \* the payload that fits a packet, SDI12_BIN_MAX_PAYLOAD

AllTests ==
  {"fault_values", "fault_bin_trunc", "fault_bin_addr", "fault_paced",
   "fault_boundary", "fault_overwide", "fault_crc_vectors", "fault_hv_term",
   "fault_fat_bin"}
AllDefects ==
  {"none", "fails", "misprints", "cuts_value", "cuts_packet", "phantom_bytes",
   "any_sender", "drops_value", "no_crc", "bad_crc", "terminator", "deadline"}

ASSUME TestsKnown == Tests \subseteq AllTests /\ Defects \subseteq AllDefects
ASSUME OddKnown   == OddTexts \subseteq Seq(Chars)
ASSUME RoomEnough == BinRoom \in Nat /\ BinRoom > 36

VARIABLES
  pc,          \* "idle" or "running"
  test, at,    \* the test, and the call it makes
  loc,         \* its locals: mresp.value_count, total, page
  faults,      \* the fault mask of the loopback
  binary,      \* binary_recv of the timing layer
  pages,       \* the values of the sensor's last measurement, page by page
  odd,         \* the text it made of the first value, if that is not a number
  verdict, defect

vars == <<pc, test, at, loc, faults, binary, pages, odd, verdict, defect>>

-----------------------------------------------------------------------------
(* The tests: the fault each sets, and its calls.                          *)

HostileValues  == [fault |-> "hostile",  calls |-> <<"break", "M",  "D">>]
BinTruncation  == [fault |-> "none",     calls |-> <<"break", "HB", "DB">>]
BinForeignAddr == [fault |-> "foreign",  calls |-> <<"break", "HB", "DB">>]
PacedUart      == [fault |-> "paced",    calls |-> <<"break", "I">>]
PageBoundary   == [fault |-> "boundary", calls |-> <<"break", "HA", "D">>]
OverwideValue  == [fault |-> "overwide", calls |-> <<"break", "HA", "D">>]
CrcVectors     == [fault |-> "none",     calls |-> <<>>]
HvTerminator   == [fault |-> "none",     calls |-> <<"break", "HA", "HVD">>]
FatBinary      == [fault |-> "fat",      calls |-> <<"break", "HB", "DB">>]

Plan(t) ==
  CASE t = "fault_values"      -> HostileValues
    [] t = "fault_bin_trunc"   -> BinTruncation
    [] t = "fault_bin_addr"    -> BinForeignAddr
    [] t = "fault_paced"       -> PacedUart
    [] t = "fault_boundary"    -> PageBoundary
    [] t = "fault_overwide"    -> OverwideValue
    [] t = "fault_crc_vectors" -> CrcVectors
    [] t = "fault_hv_term"     -> HvTerminator
    [] t = "fault_fat_bin"     -> FatBinary

Here     == Plan(test).calls[at]
At(call) == pc = "running" /\ Here = call

\* A test that has set a fault clears the mask, whichever way it returns.
BugRestored == IF at = Len(Plan(test).calls) THEN "none" ELSE faults
Restored    == IF Plan(test).fault = "none" THEN faults ELSE "none"

Return(v) == /\ pc' = "idle" /\ at' = 0 /\ verdict' = v
             /\ faults' = Restored
             /\ binary' = IF Here = "DB" THEN FALSE ELSE binary
Proceed   == /\ at' = at + 1 /\ UNCHANGED <<pc, verdict, faults>>
             /\ binary' = (Plan(test).calls[at + 1] = "DB")
Again     == UNCHANGED <<pc, at, verdict, faults, binary>>

-----------------------------------------------------------------------------
(* The simulated sensor.                                                   *)

Params == 0 .. 8         \* LB_PARAM_COUNT
Number(digits, decimals) == [int |-> digits, dec |-> decimals, odd |-> FALSE]
NoNumber == [int |-> 0, dec |-> 0, odd |-> TRUE]

\* lb_read_param: digits before the point, decimals asked for.
ReadParam(i) ==
  CASE faults = "hostile"  /\ i < 3 -> NoNumber          \* NaN, infinity, 1e30
    [] faults = "hostile"  /\ i = 3 -> Number(1, 2)      \* -0.0
    [] faults = "boundary" -> IF i < 8 THEN Number(5, 2) ELSE Number(2, 0)
    [] faults = "overwide" /\ i = 0 -> Number(7, 6)
    [] faults = "overwide" /\ i > 0 -> Number(1, 0)
    [] OTHER                        -> Number(2, 2)

\* libsdi12's text of a value: as many decimals as fit.
Fraction(n) == IF n = 0 THEN <<>> ELSE <<".">> \o Digits(n)
Formatted(v) ==
  IF v.odd THEN <<"+">> \o Digits(MaxDigits)
  ELSE IF v.int + v.dec <= MaxDigits \/ defect # "cuts_value"
       THEN <<"+">> \o Digits(v.int) \o Fraction(Min({v.dec, MaxDigits - v.int}))
       ELSE SubSeq(<<"+">> \o Digits(v.int) \o Fraction(v.dec), 1, MaxWidth)

\* libsdi12's pages: as many values as fit, of 35 characters or of 75.
Limit == IF Here = "M" THEN 35 ELSE 75
Placed(done, text) ==
  LET end == Len(done)
      sum == Len(done[end]) + Len(text)
  IN  IF sum > Limit THEN Append(done, text)
      ELSE IF sum = Limit /\ defect = "drops_value" THEN done
      ELSE [done EXCEPT ![end] = @ \o text]
Filled(texts) ==
  LET filled[k \in 0 .. 9] ==
        IF k = 0 THEN <<<<>>>> ELSE Placed(filled[k - 1], texts[k])
  IN  filled
Paged(texts) == Filled(texts)[9]

Texts(first) ==
  [k \in 1 .. 9 |-> IF k = 1 /\ ReadParam(0).odd THEN first
                    ELSE Formatted(ReadParam(k - 1))]

\* lb_send_response re-addresses a packet; lb_format_binary_page fills a packet
\* or writes nine floats.  Of a full one, libsdi12 may send less.
Sender  == IF faults = "foreign" THEN "other" ELSE "own"
Written == IF faults = "fat" THEN BinRoom ELSE 4 * Cardinality(Params)
Sent    == IF defect = "cuts_packet" /\ faults = "fat" THEN Written - 1 ELSE Written

-----------------------------------------------------------------------------
(* The steps of a test.                                                    *)

Errors == IF defect = "fails" THEN {"ok", "error"} ELSE {"ok"}

Init ==
  /\ pc = "idle" /\ test = "fault_crc_vectors" /\ at = 0
  /\ loc = [promised |-> 0, total |-> 0, page |-> 0]
  /\ faults = "none" /\ binary = FALSE /\ pages = <<<<>>>> /\ odd = <<>>
  /\ verdict = "none" /\ defect \in Defects

\* test_fault_crc_vectors calls nothing that waits.  No test asks for data it
\* has not measured, so what the last one measured is forgotten.
Begin ==
  /\ pc = "idle"
  /\ test' \in Tests
  /\ loc' = [promised |-> 0, total |-> 0, page |-> 0]
  /\ IF Plan(test').calls = <<>>
     THEN /\ verdict' = IF defect = "bad_crc" THEN "FAIL" ELSE "PASS"
          /\ UNCHANGED <<pc, at, faults>>
     ELSE /\ pc' = "running" /\ at' = 1 /\ verdict' = "none"
          /\ faults' = IF Plan(test').fault = "none" THEN faults
                       ELSE Plan(test').fault
  /\ pages' = <<<<>>>> /\ odd' = <<>>
  /\ UNCHANGED <<binary, defect>>

Break ==
  /\ At("break")
  /\ Proceed
  /\ UNCHANGED <<test, loc, pages, odd, defect>>

\* sdi12_master_start_measurement: the sensor measures at once.
Start ==
  /\ At("M") \/ At("HA") \/ At("HB")
  /\ \E err \in Errors, first \in IF defect = "misprints" THEN OddTexts
                                  ELSE {Formatted(ReadParam(0))} :
       IF err = "ok"
       THEN /\ pages' = Paged(Texts(first))
            /\ odd' = IF ReadParam(0).odd THEN first ELSE <<>>
            /\ loc' = [loc EXCEPT !.promised = Cardinality(Params)]
            /\ Proceed
       ELSE Return("FAIL") /\ UNCHANGED <<pages, odd, loc>>
  /\ UNCHANGED <<test, defect>>

Page  == IF loc.page < Len(pages) THEN pages[loc.page + 1] ELSE <<>>
Reply == <<"a">> \o Page \o <<"cr", "lf">>

AllThere(total) == total = loc.promised

\* The loops end at a bare address, a page without values, or a last page.
PageLimit == IF test = "fault_values" THEN 10 ELSE 1000
Judge(n) ==
  LET total == loc.total + n
      done  == n = 0 \/ loc.page + 1 = PageLimit
  IN  CASE n = -1 -> Return("FAIL") /\ UNCHANGED loc
        [] n # -1 /\ done ->
             Return(IF AllThere(total) THEN "PASS" ELSE "FAIL") /\ UNCHANGED loc
        [] OTHER -> /\ loc' = [loc EXCEPT !.total = total, !.page = @ + 1]
                    /\ Again

\* One aDn! of test_fault_hostile_values, or of ha_fetch_all, which looks at the
\* CRC and the length of a page too.
PageValues ==
  IF test # "fault_values" /\ (defect = "no_crc" \/ Len(Page) > 75) THEN -1
  ELSE ValidateValues(Reply)

DataPage ==
  /\ At("D")
  /\ \E err \in Errors : Judge(IF err = "ok" THEN PageValues ELSE -1)
  /\ UNCHANGED <<test, pages, odd, defect>>

\* One sdi12_master_get_hv_data of test_fault_hv_terminator.
HvPage ==
  /\ At("HVD")
  /\ \E err \in Errors :
       Judge(IF err # "ok" \/ (defect = "terminator" /\ Page = <<>>) THEN -1
             ELSE Cardinality({i \in DOMAIN Page : Page[i] \in Signs}))
  /\ UNCHANGED <<test, pages, odd, defect>>

\* sdi12_master_get_hv_binary_data with a buffer of that size: the error and
\* out_len.  A payload that does not fit is cut, as an error or not.
Got(err, len)  == [err |-> err, len |-> len]
Delivered(room) ==
  IF Sender = "other" /\ defect # "any_sender" THEN {Got("error", room)}
  ELSE IF Sent <= room THEN {Got("ok", Sent)}
  ELSE {Got(err, IF defect = "phantom_bytes" THEN Sent ELSE room) :
          err \in {"ok", "overflow"}}

BufferSize == IF test = "fault_bin_trunc" THEN 8 ELSE BinRoom

BugGood(got) ==
  CASE test = "fault_bin_trunc" -> got.err \in {"ok", "overflow"}
    [] test = "fault_bin_addr"  -> got.err # "ok"
    [] test = "fault_fat_bin"   -> got.err = "ok"
Good(got) ==
  CASE test = "fault_bin_trunc" -> got.err \in {"ok", "overflow"} /\ got.len <= 8
    [] test = "fault_bin_addr"  -> got.err # "ok"
    [] test = "fault_fat_bin"   -> got.err = "ok" /\ got.len >= 2 /\ got.len = Written

Packet ==
  /\ At("DB")
  /\ \E got \in Delivered(BufferSize)
                \cup {Got(err, BufferSize) : err \in Errors \ {"ok"}} :
       Return(IF Good(got) THEN "PASS" ELSE "FAIL")
  /\ UNCHANGED <<test, loc, pages, odd, defect>>

\* sdi12_master_identify at the pace of the line: a recv that takes its timeout
\* for a deadline cuts the answer short.
Identify ==
  /\ At("I")
  /\ \E err \in Errors :
       Return(IF err = "ok" /\ ~(defect = "deadline" /\ faults = "paced")
              THEN "PASS" ELSE "FAIL")
  /\ UNCHANGED <<test, loc, pages, odd, defect>>

Next == Begin \/ Break \/ Start \/ DataPage \/ HvPage \/ Packet \/ Identify

Spec == Init /\ [][Next]_vars

-----------------------------------------------------------------------------
Over == pc = "idle"

\* Whichever call failed and however a test returned, the next one finds the
\* loopback without a fault and the line in text mode; and while a test runs,
\* no fault but its own is in force (hal_loopback_set_faults).
FaultsCleared ==
  /\ Over => faults = "none" /\ ~binary
  /\ faults \in {"none", Plan(test).fault}

\* A library without a defect passes every test, after any others.
SoundPasses == Over /\ defect = "none" => verdict \in {"none", "PASS"}

\* Each test fails the library that has the defect it is there to expose.
DefectCaught ==
  Over /\ verdict = "PASS"
    => CASE defect = "phantom_bytes" -> test # "fault_bin_trunc"
         [] defect = "any_sender"    -> test # "fault_bin_addr"
         [] defect = "deadline"      -> test # "fault_paced"
         [] defect = "drops_value"   -> test # "fault_boundary"
         [] defect = "cuts_value"    -> test # "fault_overwide"
         [] defect = "no_crc"        -> test \notin {"fault_boundary", "fault_overwide"}
         [] defect = "bad_crc"       -> test # "fault_crc_vectors"
         [] defect = "terminator"    -> test # "fault_hv_term"
         [] defect = "cuts_packet"   -> test # "fault_fat_bin"
         [] OTHER                    -> TRUE

\* test_fault_hostile_values passes a library exactly if the text it makes of a
\* value that is not a number is one value of the grammar: it takes neither
\* nothing, nor two values, nor a malformed one that borrows from the next.
MalformedNoticed ==
  Over /\ test = "fault_values" /\ defect = "misprints" /\ verdict # "none"
    => (verdict = "PASS" <=> odd \in PddTexts)
==============================================================================
