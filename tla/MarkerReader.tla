--------------------------- MODULE MarkerReader ---------------------------
(***************************************************************************)
(* The marker reader of libjpeg (jdmarker.c) on top of a data source.      *)
(*                                                                         *)
(* A file is a sequence of bytes.  The source of the programs here,        *)
(* jdatasrc.c, always has a byte to give: behind the end of the file it    *)
(* inserts EOI markers.  Any other source may run out of bytes before; the *)
(* handler then gives up, the application brings more, and reading resumes *)
(* at the restart point, next_input_byte as it was last synchronised.      *)
(*                                                                         *)
(* One action is the handling of one marker.  Tables are known by the      *)
(* position they were read from.                                           *)
(***************************************************************************)
EXTENDS Integers, SequencesExt

CONSTANTS
  Files,            \* the files that may be read
  SaveLimits,       \* the values that length_limit_COM may have
  CodeLengths,      \* 16, the counts at the start of a Huffman table
  DCTSIZE2,         \* 64, the entries of a quantization table
  APP0_DATA_LEN,    \* 14, the interesting bytes of an APP0 marker, and
  APP14_DATA_LEN    \* 12, those of an APP14 marker

ASSUME FilesAssumption == \A f \in Files : f \in Seq(0 .. 255)
ASSUME SaveLimitsAssumption == SaveLimits \subseteq Nat
ASSUME CodeLengthsAssumption == CodeLengths \in Nat \ {0}
ASSUME BlockAssumption == DCTSIZE2 \in Nat \ {0}
ASSUME AppnAssumption ==
  APP0_DATA_LEN \in Nat /\ APP14_DATA_LEN \in 2 .. APP0_DATA_LEN

NUM_QUANT_TBLS    == 4
NUM_HUFF_TBLS     == 4
MAX_COMPS_IN_SCAN == 4

SOF0  == 192
SOF1  == 193
SOF2  == 194
SOF9  == 201
SOF10 == 202
DHT   == 196
DAC   == 204
RST0  == 208
SOI   == 216
EOI   == 217
SOS   == 218
DQT   == 219
DNL   == 220
DRI   == 221
APP0  == 224
APP14 == 238
COM   == 254
TEM   == 1

SOFs        == {SOF0, SOF1, SOF2, SOF9, SOF10}
Restarts    == RST0 .. RST0 + 7
APPs        == APP0 .. APP0 + 15
Skipped     == (APPs \ {APP0, APP14}) \union {DNL, DAC}
Supported   == SOFs \union Restarts \union APPs
                 \union {TEM, SOI, EOI, SOS, DHT, DQT, DRI, DNL, DAC, COM}

VARIABLES
  file,
  source,           \* "stdio", or "suspending" for one that may run out of bytes
  avail,            \* the bytes that a suspending source has delivered
  pos,              \* the bytes consumed: next_input_byte is behind them
  at,               \* "markers" in read_markers, "restart" in read_restart_marker
  result,           \* what the last call of the marker reader returned
  unread_marker,
  saw_SOI, saw_SOF,
  discarded_bytes,
  reported,         \* the discarded bytes that warnings were given of
  next_restart_num,
  cur_marker,       \* the marker save_marker is reading, or NoMarker
  marker_list,
  length_limit_COM,
  tables,           \* quant_tbl_ptrs, dc_ and ac_huff_tbl_ptrs, restart_interval
  frame,            \* what get_sof stored
  scan,             \* what get_sos stored
  special,          \* the JFIF and Adobe markers seen
  input_scan_number

NoMarker == [marker |-> 0, original_length |-> 0, data_length |-> 0, data |-> <<>>]
NoTable  == 0
NoFrame  == [progressive |-> FALSE, arith |-> FALSE, precision |-> 0,
             height |-> 0, width |-> 0, comps |-> <<>>]
NoScan   == [comps |-> <<>>, Ss |-> 0, Se |-> 0, Ah |-> 0, Al |-> 0]

sourceVars == <<file, source, avail>>
markerVars == <<saw_SOI, saw_SOF, discarded_bytes, reported, next_restart_num,
                cur_marker, marker_list, length_limit_COM>>
headerVars == <<tables, frame, scan, special, input_scan_number>>
readerVars == <<sourceVars, pos, at, result, unread_marker, markerVars, headerVars>>

(***************************************************************************)
(* The data source.                                                        *)
(***************************************************************************)

\* fill_input_buffer inserts FF and EOI as often as it is called after the end.
Byte(k) == IF k <= Len(file) THEN file[k]
           ELSE IF (k - Len(file)) % 2 = 1 THEN 255 ELSE EOI

In(k)   == Byte(pos + k)
In2(k)  == (256 * In(k)) + In(k + 1)
Has(n)  == source = "stdio" \/ pos + n <= avail

\* skip_input_data; a suspending source skips what it has not delivered yet
\* as soon as it gets it.
Skip(n) == IF n > 0 THEN n ELSE 0

\* The application gets some more bytes from where they come.
Supply ==
  /\ source = "suspending"
  /\ result = "SUSPENDED"
  /\ \E n \in {1, 3} : avail' = n + (IF pos > avail THEN pos ELSE avail)
  /\ result' = "none"
  /\ UNCHANGED <<file, source, pos, at, unread_marker, markerVars, headerVars>>

(***************************************************************************)
(* next_marker and first_marker                                            *)
(***************************************************************************)

\* The bytes next_marker may look at; an EOI follows the end of the file.
Ahead == IF source = "suspending" THEN 1 .. avail - pos
         ELSE 1 .. 4 + (IF pos < Len(file) THEN Len(file) - pos ELSE 0)

EndsMarker(k) == k > 1 /\ In(k - 1) = 255 /\ In(k) \notin {0, 255}
StuffedZero(k) == k > 1 /\ In(k - 1) = 255 /\ In(k) = 0

\* Bytes among the first n that are neither fill bytes nor part of a marker.
Garbage(n) == Cardinality({k \in 1 .. n : In(k) # 255})
                + Cardinality({k \in 1 .. n : StuffedZero(k)})

\* (mutant) INPUT_SYNC is not called: the search restarts where it began.
NextMarkerSuspendsUnsynced ==
  /\ \A k \in Ahead : ~ EndsMarker(k)
  /\ discarded_bytes' = discarded_bytes + Garbage(IF source = "suspending" /\ avail > pos THEN avail - pos ELSE 0)
  /\ UNCHANGED <<pos, unread_marker, reported>>

\* Without a marker in the bytes at hand, the search restarts behind the last
\* byte that cannot belong to one.
NextMarkerSuspends ==
  /\ \A k \in Ahead : ~ EndsMarker(k)
  /\ LET kept == {0} \union {k \in Ahead : In(k) # 255}
         n == CHOOSE k \in kept : \A j \in kept : j <= k
     IN  pos' = pos + n /\ discarded_bytes' = discarded_bytes + Garbage(n)
  /\ UNCHANGED <<unread_marker, reported>>

NextMarkerFound ==
  /\ \E n \in Ahead :
       /\ EndsMarker(n) /\ \A k \in 1 .. n - 1 : ~ EndsMarker(k)
       /\ unread_marker' = In(n)
       /\ pos' = pos + n
       /\ reported' = reported + discarded_bytes + Garbage(n - 1)
  /\ discarded_bytes' = 0

Return(code) == at' = "idle" /\ result' = code

\* error_exit.
Fails == at' = "exited" /\ result' = "none"

LookForMarker ==
  /\ at = "markers" /\ unread_marker = 0 /\ saw_SOI
  /\ \/ NextMarkerFound /\ UNCHANGED <<at, result>>
     \/ NextMarkerSuspends /\ Return("SUSPENDED")
  /\ UNCHANGED <<sourceVars, saw_SOI, saw_SOF, next_restart_num, cur_marker, marker_list,
                 length_limit_COM, headerVars>>

FirstMarker ==
  /\ at = "markers" /\ unread_marker = 0 /\ ~ saw_SOI
  /\ \/ /\ ~ Has(2)
        /\ Return("SUSPENDED") /\ UNCHANGED <<pos, unread_marker>>
     \/ /\ Has(2) /\ <<In(1), In(2)>> = <<255, SOI>> /\ file # <<>>
        /\ pos' = pos + 2 /\ unread_marker' = SOI /\ UNCHANGED <<at, result>>
     \/ /\ Has(2) /\ (<<In(1), In(2)>> # <<255, SOI>> \/ file = <<>>)
        /\ Fails /\ UNCHANGED <<pos, unread_marker>>
  /\ UNCHANGED <<sourceVars, markerVars, headerVars>>

(***************************************************************************)
(* The markers.  A handler needs its whole segment before it keeps any of  *)
(* it; what is wrong with the segment may be seen before.                  *)
(***************************************************************************)

\* The length of the segment without the length word.
Length == In2(1) - 2

\* The tables of a DHT segment: tablesIn[left] are those in its last left bytes.
HuffTables ==
  LET tablesIn[left \in Int] ==
        LET k == 3 + Length - left
            count == FoldFunctionOnSet(+, 0, [j \in 1 .. CodeLengths |-> In(k + j)], 1 .. CodeLengths)
            end == k + CodeLengths + count
            slot == In(k) % 16
            rest == tablesIn[left - (1 + CodeLengths + count)]
            Stop(need, bad) == [need |-> need, bad |-> bad, found |-> <<>>]
        IN  IF left <= CodeLengths THEN Stop(k - 1, left # 0)
            ELSE IF ~ Has(k + CodeLengths) THEN Stop(k + CodeLengths, FALSE)
            ELSE IF count > 256 \/ count > left - (1 + CodeLengths) THEN Stop(k + CodeLengths, TRUE)
            ELSE IF ~ Has(end) THEN Stop(end, FALSE)
            ELSE IF In(k) >= 32 \/ slot >= NUM_HUFF_TBLS THEN Stop(end, TRUE)
            ELSE [rest EXCEPT !.found =
                    <<[class |-> In(k) \div 16, slot |-> slot, from |-> pos + k]>> \o @]
  IN  tablesIn[Length]

\* The same for DQT; the high half of the first byte is the precision.
QuantTables ==
  LET tablesIn[left \in Int] ==
        LET k == 3 + Length - left
            size == IF In(k) >= 16 THEN 2 * DCTSIZE2 ELSE DCTSIZE2
            slot == In(k) % 16
            rest == tablesIn[left - (1 + size)]
            Stop(need, bad) == [need |-> need, bad |-> bad, found |-> <<>>]
        IN  IF left <= 0 THEN Stop(k - 1, left # 0)
            ELSE IF ~ Has(k) THEN Stop(k, FALSE)
            ELSE IF slot >= NUM_QUANT_TBLS THEN Stop(k, TRUE)
            ELSE IF ~ Has(k + size) THEN Stop(k + size, FALSE)
            ELSE [rest EXCEPT !.found = <<[slot |-> slot, from |-> pos + k]>> \o @]
  IN  tablesIn[Length]

\* The bytes a source must hold for get_interesting_appn to run.
Interesting == IF Length >= APP0_DATA_LEN THEN APP0_DATA_LEN ELSE Skip(Length)

\* The bytes the handler of the unread marker waits for.
Need ==
  CASE unread_marker \in SOFs -> IF Has(8) THEN 8 + (3 * In(8)) ELSE 8
    [] unread_marker = SOS -> IF Has(3) THEN 6 + (2 * In(3)) ELSE 3
    [] unread_marker = DHT -> IF Has(2) THEN HuffTables.need ELSE 2
    [] unread_marker = DQT -> IF Has(2) THEN QuantTables.need ELSE 2
    [] unread_marker = DRI -> 4
    [] unread_marker \in {APP0, APP14} -> IF Has(2) THEN 2 + Interesting ELSE 2
    [] unread_marker = COM \/ unread_marker \in Skipped -> 2
    [] OTHER -> 0

KnownIds == {frame.comps[c].id : c \in DOMAIN frame.comps}

\* The components of a scan that the source holds are those of the frame.
BadComponent ==
  \E j \in 1 .. In(3) :
    Has(3 + (2 * j)) /\ In(2 + (2 * j)) \notin KnownIds

Bad ==
  \/ unread_marker \notin Supported
  \/ unread_marker = SOI /\ saw_SOI
  \/ unread_marker \in SOFs /\ Has(8)
       /\ (saw_SOF \/ In2(4) = 0 \/ In2(6) = 0 \/ In(8) = 0 \/ In2(1) # 8 + (3 * In(8)))
  \/ unread_marker = SOS
       /\ \/ ~ saw_SOF
          \/ Has(3) /\ (In2(1) # 6 + (2 * In(3)) \/ In(3) \notin 1 .. MAX_COMPS_IN_SCAN)
          \/ Has(3) /\ BadComponent
  \/ unread_marker = DHT /\ Has(2) /\ HuffTables.bad
  \/ unread_marker = DQT /\ Has(2) /\ QuantTables.bad
  \/ unread_marker = DRI /\ Has(2) /\ In2(1) # 4

BadMarker ==
  /\ at = "markers" /\ unread_marker # 0 /\ Bad
  /\ Fails
  /\ UNCHANGED <<sourceVars, pos, unread_marker, markerVars, headerVars>>

MarkerSuspends ==
  /\ at = "markers" /\ unread_marker # 0 /\ cur_marker = NoMarker
  /\ ~ Bad /\ ~ Has(Need)
  /\ Return("SUSPENDED")
  /\ UNCHANGED <<sourceVars, pos, unread_marker, markerVars, headerVars>>

\* The handler of a marker in kinds runs, consumes n bytes, and read_markers
\* goes on to the next marker.  Tables that do not fill their segment are bad.
Handled(kinds, n) ==
  /\ at = "markers" /\ unread_marker \in kinds
  /\ ~ Bad /\ Has(Need)
  /\ pos' = pos + n
  /\ unread_marker' = 0
  /\ UNCHANGED <<sourceVars, discarded_bytes, reported, length_limit_COM>>

Continues == UNCHANGED <<at, result>>

GetSoi ==
  /\ Handled({SOI}, 0) /\ Continues
  /\ saw_SOI' = TRUE
  /\ tables' = [tables EXCEPT !.restart_interval = 0]
  /\ special' = [JFIF |-> FALSE, Adobe |-> FALSE, transform |-> 0]
  /\ UNCHANGED <<saw_SOF, next_restart_num, cur_marker, marker_list, frame, scan, input_scan_number>>

GetSof ==
  /\ Handled(SOFs, Need) /\ Continues
  /\ saw_SOF' = TRUE
  /\ frame' = [progressive |-> unread_marker \in {SOF2, SOF10},
               arith       |-> unread_marker \in {SOF9, SOF10},
               precision |-> In(3), height |-> In2(4), width |-> In2(6),
               comps  |-> [c \in 1 .. In(8) |->
                             [id |-> In(6 + (3 * c)),
                              h  |-> In(7 + (3 * c)) \div 16,
                              v  |-> In(7 + (3 * c)) % 16,
                              tq |-> In(8 + (3 * c))]]]
  /\ UNCHANGED <<saw_SOI, next_restart_num, cur_marker, marker_list, tables, scan, special,
                 input_scan_number>>

\* The first component of the frame with an id.
ComponentOf(id) ==
  CHOOSE c \in DOMAIN frame.comps :
    frame.comps[c].id = id /\ \A d \in 1 .. c - 1 : frame.comps[d].id # id

GetSos ==
  /\ Handled({SOS}, Need) /\ Return("REACHED_SOS")
  /\ LET n == In(3)
         p == 4 + (2 * n)
     IN  scan' = [comps |-> [j \in 1 .. n |->
                               [comp |-> ComponentOf(In(2 + (2 * j))),
                                dc   |-> In(3 + (2 * j)) \div 16,
                                ac   |-> In(3 + (2 * j)) % 16]],
                  Ss |-> In(p), Se |-> In(p + 1),
                  Ah |-> In(p + 2) \div 16, Al |-> In(p + 2) % 16]
  /\ next_restart_num' = 0
  /\ input_scan_number' = input_scan_number + 1
  /\ UNCHANGED <<saw_SOI, saw_SOF, cur_marker, marker_list, tables, frame, special>>

ReachEoi ==
  /\ Handled({EOI}, 0) /\ Return("REACHED_EOI")
  /\ UNCHANGED <<saw_SOI, saw_SOF, next_restart_num, cur_marker, marker_list, headerVars>>

\* slots with the tables found put into them, the last one for each slot.
Loaded(slots, found) ==
  [s \in DOMAIN slots |->
     LET here == {k \in DOMAIN found : found[k].slot = s}
     IN  IF here = {} THEN slots[s]
         ELSE found[CHOOSE k \in here : \A j \in here : j <= k].from]

GetDht ==
  /\ Handled({DHT}, 2 + Length) /\ Continues
  /\ LET found == HuffTables.found
         OfClass(c) == SelectSeq(found, LAMBDA t : t.class = c)
     IN  tables' = [tables EXCEPT !.dc = Loaded(@, OfClass(0)), !.ac = Loaded(@, OfClass(1))]
  /\ UNCHANGED <<saw_SOI, saw_SOF, next_restart_num, cur_marker, marker_list, frame, scan, special,
                 input_scan_number>>

GetDqt ==
  /\ Handled({DQT}, 2 + Length) /\ Continues
  /\ tables' = [tables EXCEPT !.quant = Loaded(@, QuantTables.found)]
  /\ UNCHANGED <<saw_SOI, saw_SOF, next_restart_num, cur_marker, marker_list, frame, scan, special,
                 input_scan_number>>

GetDri ==
  /\ Handled({DRI}, 4) /\ Continues
  /\ tables' = [tables EXCEPT !.restart_interval = In2(3)]
  /\ UNCHANGED <<saw_SOI, saw_SOF, next_restart_num, cur_marker, marker_list, frame, scan, special,
                 input_scan_number>>

\* The first interesting byte stands for the name in the marker, the last one
\* for the color transform of an Adobe marker.
GetInterestingAppn ==
  /\ Handled({APP0, APP14}, 2 + Skip(Length)) /\ Continues
  /\ special' =
       CASE unread_marker = APP0 /\ Interesting >= APP0_DATA_LEN /\ In(3) = 74 ->
              [special EXCEPT !.JFIF = TRUE]
         [] unread_marker = APP14 /\ Interesting >= APP14_DATA_LEN /\ In(3) = 65 ->
              [special EXCEPT !.Adobe = TRUE, !.transform = In(2 + APP14_DATA_LEN)]
         [] OTHER -> special
  /\ UNCHANGED <<saw_SOI, saw_SOF, next_restart_num, cur_marker, marker_list, tables, frame, scan,
                 input_scan_number>>

SkipVariable ==
  /\ Handled(Skipped \union (IF length_limit_COM = 0 THEN {COM} ELSE {}), 2 + Skip(Length))
  /\ Continues
  /\ UNCHANGED <<saw_SOI, saw_SOF, next_restart_num, cur_marker, marker_list, headerVars>>

\* RSTn and TEM.
Parameterless ==
  /\ Handled(Restarts \union {TEM}, 0) /\ Continues
  /\ UNCHANGED <<saw_SOI, saw_SOF, next_restart_num, cur_marker, marker_list, headerVars>>

\* (mutant) bytes_read is not kept: saving resumes at the start of the buffer.
SavingFromScratch ==
  IF cur_marker # NoMarker THEN [cur_marker EXCEPT !.data = <<>>]
  ELSE [marker |-> COM, original_length |-> Length,
        data_length |-> IF Length < length_limit_COM THEN Length ELSE length_limit_COM,
        data |-> <<>>]

\* The COM marker being saved: a new one, or the one that save_marker had to
\* leave because the source ran out of bytes.
Saving ==
  IF cur_marker # NoMarker THEN cur_marker
  ELSE [marker |-> COM, original_length |-> Length,
        data_length |-> IF Length < length_limit_COM THEN Length ELSE length_limit_COM,
        data |-> <<>>]

SaveMarker ==
  /\ at = "markers" /\ unread_marker = COM /\ length_limit_COM # 0
  /\ cur_marker # NoMarker \/ Has(2)
  /\ LET start == IF cur_marker = NoMarker THEN 2 ELSE 0
         left == Saving.data_length - Len(Saving.data)
     IN  \/ /\ start = 2 /\ Length < 0              \* bogus length word
            /\ pos' = pos + 2 /\ unread_marker' = 0
            /\ Continues /\ UNCHANGED <<cur_marker, marker_list>>
         \/ /\ start = 0 \/ Length >= 0
            /\ Has(start + left)
            /\ pos' = pos + start + left + (Saving.original_length - Saving.data_length)
            /\ marker_list' = Append(marker_list,
                 Saving.data \o [k \in 1 .. left |-> In(start + k)])
            /\ cur_marker' = NoMarker /\ unread_marker' = 0
            /\ Continues
         \/ /\ start = 0 \/ Length >= 0
            /\ ~ Has(start + left)
            /\ pos' = IF avail > pos + start THEN avail ELSE pos + start
            /\ cur_marker' = [Saving EXCEPT !.data =
                 @ \o [k \in 1 .. pos' - (pos + start) |-> In(start + k)]]
            /\ Return("SUSPENDED") /\ UNCHANGED <<unread_marker, marker_list>>
  /\ UNCHANGED <<sourceVars, saw_SOI, saw_SOF, discarded_bytes, reported, next_restart_num,
                 length_limit_COM, headerVars>>

ReadMarkers ==
  \/ LookForMarker \/ FirstMarker \/ BadMarker \/ MarkerSuspends
  \/ GetSoi \/ GetSof \/ GetSos \/ ReachEoi \/ GetDht \/ GetDqt \/ GetDri
  \/ GetInterestingAppn \/ SkipVariable \/ Parameterless \/ SaveMarker

(***************************************************************************)
(* Restart markers, read when the entropy decoder expects one.             *)
(***************************************************************************)

\* (mutant) A marker of one of the next segments is taken for one of the last.
ResyncActionSwapped(found, desired) ==
  LET Rst(k) == RST0 + ((desired + k) % 8) IN
  CASE found < SOF0 -> "scan"
    [] found >= SOF0 /\ found \notin Restarts -> "leave"
    [] found \in {Rst(7), Rst(6)} -> "leave"
    [] found \in {Rst(1), Rst(2)} -> "scan"
    [] OTHER -> "discard"

\* What jpeg_resync_to_restart does about a marker.
ResyncAction(found, desired) ==
  LET Rst(k) == RST0 + ((desired + k) % 8) IN
  CASE found < SOF0 -> "scan"
    [] found >= SOF0 /\ found \notin Restarts -> "leave"
    [] found \in {Rst(1), Rst(2)} -> "leave"
    [] found \in {Rst(7), Rst(6)} -> "scan"
    [] OTHER -> "discard"

\* The marker found is the one expected, or near enough: the decoder goes on.
AcceptRestart ==
  /\ at = "restart" /\ unread_marker # 0
  /\ \/ unread_marker = RST0 + next_restart_num
     \/ ResyncAction(unread_marker, next_restart_num) = "discard"
  /\ unread_marker' = 0
  /\ next_restart_num' = (next_restart_num + 1) % 8
  /\ Return("RESTARTED")
  /\ UNCHANGED <<sourceVars, pos, saw_SOI, saw_SOF, discarded_bytes, reported, cur_marker, marker_list,
                 length_limit_COM, headerVars>>

\* The marker found comes later: the segment is taken to be missing.
LeaveRestart ==
  /\ at = "restart" /\ unread_marker # 0
  /\ unread_marker # RST0 + next_restart_num
  /\ ResyncAction(unread_marker, next_restart_num) = "leave"
  /\ next_restart_num' = (next_restart_num + 1) % 8
  /\ Return("RESTARTED")
  /\ UNCHANGED <<sourceVars, pos, unread_marker, saw_SOI, saw_SOF, discarded_bytes, reported,
                 cur_marker, marker_list, length_limit_COM, headerVars>>

\* There is none yet, or one of a segment that is over: look for the next.
ScanToRestart ==
  /\ at = "restart"
  /\ \/ unread_marker = 0
     \/ /\ unread_marker # RST0 + next_restart_num
        /\ ResyncAction(unread_marker, next_restart_num) = "scan"
  /\ \/ NextMarkerFound /\ UNCHANGED <<at, result>>
     \/ NextMarkerSuspends /\ Return("SUSPENDED")
  /\ UNCHANGED <<sourceVars, saw_SOI, saw_SOF, next_restart_num, cur_marker, marker_list,
                 length_limit_COM, headerVars>>

ReadRestartMarker == AcceptRestart \/ LeaveRestart \/ ScanToRestart

\* reset_marker_reader, and what jinit_marker_reader and the caller leave.
ReaderInit ==
  /\ file \in Files
  /\ source \in {"stdio", "suspending"}
  /\ avail = 0 /\ pos = 0
  /\ at = "idle" /\ result = "none"
  /\ unread_marker = 0
  /\ saw_SOI = FALSE /\ saw_SOF = FALSE
  /\ discarded_bytes = 0 /\ reported = 0 /\ next_restart_num = 0
  /\ cur_marker = NoMarker /\ marker_list = <<>>
  /\ length_limit_COM \in SaveLimits
  /\ tables = [quant |-> [s \in 0 .. NUM_QUANT_TBLS - 1 |-> NoTable],
               dc |-> [s \in 0 .. NUM_HUFF_TBLS - 1 |-> NoTable],
               ac |-> [s \in 0 .. NUM_HUFF_TBLS - 1 |-> NoTable],
               restart_interval |-> 0]
  /\ frame = NoFrame /\ scan = NoScan
  /\ special = [JFIF |-> FALSE, Adobe |-> FALSE, transform |-> 0]
  /\ input_scan_number = 0
=============================================================================
