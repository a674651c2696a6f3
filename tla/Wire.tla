-------------------------------- MODULE Wire --------------------------------
(***************************************************************************)
(* The binary protocol: the structs that the gateway sends as they lie in  *)
(* memory, the offsets at which the client reads, and the other way round; *)
(* and the frames that answer one history request.                         *)
(*                                                                         *)
(* A field stands for its bytes: where it begins, how many there are, and  *)
(* in which order.  What is not converted has the order of the host, which *)
(* is little-endian.  Values are left out, but for counts and flags.       *)
(***************************************************************************)
EXTENDS Integers, Sequences

CONSTANTS
  Fills,   \* entries that history can find in a level
  Wishes   \* values of max_count

ASSUME WireAssumption ==
  /\ Fills \subseteq Nat /\ Fills # {}
  /\ \A max \in Wishes : max \in Nat /\ max < 65536

HeaderSize == 10
BatchMax   == 60          \* TT_HISTORY_BATCH_MAX
BufferSize == HeaderSize + 4096

VARIABLES
  stock,     \* entries that history finds now
  depth, remaining, \* level of the last history request, and what is still to be sent
  frame,     \* kind of the last frame that the gateway has sent
  count,     \* and its entries, if it is history
  command,   \* the last one of the client
  read,      \* history: entries have been read for the request
  ended      \* history: a frame that is flagged as the last has been sent for it

wireVars == <<stock, depth, remaining, frame, count, command, read, ended>>

-----------------------------------------------------------------------------
(* The packed structs.                                                     *)

\* A member of a struct: its name, its width, its order
Member(name, width, order) == <<name, width, order>>
Byte(name) == Member(name, 1, "host")

\* Bytes before the i-th member
Before(struct, i) ==
  LET sum[j \in 0..(i - 1)] == IF j = 0 THEN 0 ELSE sum[j - 1] + struct[j][2]
  IN sum[i - 1]
SizeOf(struct) == Before(struct, Len(struct) + 1)

HeaderStruct == <<Byte("magic"), Byte("version"), Byte("type"), Member("length", 2, "net"),
                  Member("timestamp", 4, "net"), Byte("checksum")>>
MetricsStruct ==
  <<Member("timestamp", 8, "host"), Member("cpu", 2, "host"), Member("mem", 2, "host"),
    Member("rx", 4, "host"), Member("tx", 4, "host"), Member("load1", 2, "host"),
    Member("load5", 2, "host"), Member("load15", 2, "host"), Member("running", 4, "host"),
    Member("total", 4, "host"), Member("disk", 2, "host"), Member("duTotal", 8, "host"),
    Member("duFree", 8, "host")>>
RingStatStruct == <<Byte("level"), Member("capacity", 4, "net"), Member("head", 4, "net"),
                    Member("filled", 4, "net"), Member("first", 8, "host"), Member("last", 8, "host")>>
ConfigStruct  == <<Member("interval", 4, "net"), Byte("alerts")>>
AckStruct     == <<Byte("cmd"), Byte("status")>>
AlertStruct   == <<Byte("level"), Member("message", 128, "host")>>
SysInfoStruct == <<Member("hostname", 64, "host"), Member("osType", 64, "host"),
                   Member("uptime", 8, "net"), Member("slotsL1", 4, "net"), Member("slotsL2", 4, "net"),
                   Member("slotsL3", 4, "net"), Member("interval", 4, "net"),
                   Member("aggL2", 4, "net"), Member("aggL3", 4, "net")>>
HistoryStruct == <<Byte("level"), Member("count", 2, "net"), Byte("flags")>>

\* What the gateway expects of the client.  The argument of a command is a union:
\* an interval, or for CMD_SET_ALERTS one byte.
CmdStruct        == <<Byte("cmd"), Member("arg", 4, "net"), Member("pad", 4, "host")>>
SetAlertsStruct  == <<Byte("cmd"), Byte("arg"), Member("pad", 7, "host")>>
HistoryReqStruct == <<Byte("level"), Member("from", 8, "net"), Member("to", 8, "net"),
                      Member("max", 2, "net")>>
SubscribeStruct  == <<Byte("level"), Member("interval", 4, "net"), Byte("reserved")>>
AuthStruct       == <<Byte("cmd"), Member("token", 64, "host")>>

\* A field of a frame: the part it belongs to, its name, where it begins, its
\* width and its order
Get(part, name, at, width, order) == <<part, name, at, width, order>>
Only(part) == <<part, 0, 0>>

\* The fields of a struct that begins at a place of the frame
Laid(part, struct, at) ==
  {Get(part, struct[i][1], at + Before(struct, i), struct[i][2], struct[i][3]) : i \in DOMAIN struct}

-----------------------------------------------------------------------------
(* Frames of the gateway.                                                  *)

\* Level 1 is sent raw, the others as three samples for each entry.
HistoryKind(level) == IF level = 1 THEN "raw" ELSE "agg"
Copies(kind) == IF kind = "agg" THEN 0..2 ELSE {0}

Kinds == {"metrics", "config", "ack", "alert", "stats", "sysinfo", "auth_req"}
MetricsSize == SizeOf(MetricsStruct)
RingStatSize == SizeOf(RingStatStruct)
ReplySize == SizeOf(HistoryStruct)
PlainSize(kind) ==
  CASE kind = "metrics" -> MetricsSize [] kind = "config" -> SizeOf(ConfigStruct)
    [] kind = "ack" -> SizeOf(AckStruct) [] kind = "alert" -> SizeOf(AlertStruct)
    [] kind = "stats" -> 3 * RingStatSize
    [] kind = "sysinfo" -> SizeOf(SysInfoStruct) [] kind = "auth_req" -> 0

EntrySize(kind) == (IF kind = "agg" THEN 3 ELSE 1) * MetricsSize
PayloadSize(kind, n) ==
  IF kind \in Kinds THEN PlainSize(kind) ELSE ReplySize + n * EntrySize(kind)

\* Of the entries of a batch the first and the last are looked at.
Ends(n) == {0, n - 1}

\* The frame as the structs put it together
PlainWritten(kind) ==
  CASE kind = "metrics" -> Laid(Only("sample"), MetricsStruct, HeaderSize)
    [] kind = "config"  -> Laid(Only("config"), ConfigStruct, HeaderSize)
    [] kind = "ack"     -> Laid(Only("ack"), AckStruct, HeaderSize)
    [] kind = "alert"   -> Laid(Only("alert"), AlertStruct, HeaderSize)
    [] kind = "sysinfo" -> Laid(Only("info"), SysInfoStruct, HeaderSize)
    [] kind = "stats"   -> UNION {Laid(<<"ring", l, 0>>, RingStatStruct,
                                       HeaderSize + (l - 1) * RingStatSize) : l \in 1..3}
    [] kind = "auth_req" -> {}
HeaderWritten == Laid(Only("header"), HeaderStruct, 0)
Written(kind, n) ==
  HeaderWritten \cup
  IF kind \in Kinds THEN PlainWritten(kind)
  ELSE Laid(Only("history"), HistoryStruct, HeaderSize)
       \cup UNION {Laid(<<"entry", i, k>>, MetricsStruct,
                        HeaderSize + ReplySize + i * EntrySize(kind) + k * MetricsSize) :
                     i \in Ends(n), k \in Copies(kind)}

-----------------------------------------------------------------------------
(* The client's parser: the offsets it has.                                *)

parseHeader == {Get(Only("header"), "magic", 0, 1, "host"), Get(Only("header"), "version", 1, 1, "host"),
                Get(Only("header"), "type", 2, 1, "host"), Get(Only("header"), "length", 3, 2, "net"),
                Get(Only("header"), "timestamp", 5, 4, "net")}

parseMetrics(part, o) ==
  {Get(part, "timestamp", o, 8, "host"), Get(part, "cpu", o + 8, 2, "host"),
   Get(part, "mem", o + 10, 2, "host"), Get(part, "rx", o + 12, 4, "host"),
   Get(part, "tx", o + 16, 4, "host"), Get(part, "load1", o + 20, 2, "host"),
   Get(part, "load5", o + 22, 2, "host"), Get(part, "load15", o + 24, 2, "host"),
   Get(part, "running", o + 26, 4, "host"), Get(part, "total", o + 30, 4, "host"),
   Get(part, "disk", o + 34, 2, "host"), Get(part, "duTotal", o + 36, 8, "host"),
   Get(part, "duFree", o + 44, 8, "host")}

parseConfig(o) == {Get(Only("config"), "interval", o, 4, "net"), Get(Only("config"), "alerts", o + 4, 1, "host")}
parseAck(o) == {Get(Only("ack"), "cmd", o, 1, "host"), Get(Only("ack"), "status", o + 1, 1, "host")}

\* 25 bytes for each ring, as the comments have it (a mutant of RingStatAt)
RingStatAtPacked(l) == (l - 1) * 25
RingStatAt(l) == (l - 1) * 29

parseRingStat(part, o) ==
  {Get(part, "level", o, 1, "host"), Get(part, "capacity", o + 1, 4, "net"),
   Get(part, "head", o + 5, 4, "net"), Get(part, "filled", o + 9, 4, "net"),
   Get(part, "first", o + 13, 8, "host"), Get(part, "last", o + 21, 8, "host")}
parseStats(o) == UNION {parseRingStat(<<"ring", l, 0>>, o + RingStatAt(l)) : l \in 1..3}

parseSysInfo(o) ==
  {Get(Only("info"), "hostname", o, 64, "host"), Get(Only("info"), "osType", o + 64, 64, "host"),
   Get(Only("info"), "uptime", o + 128, 8, "net"), Get(Only("info"), "slotsL1", o + 136, 4, "net"),
   Get(Only("info"), "slotsL2", o + 140, 4, "net"), Get(Only("info"), "slotsL3", o + 144, 4, "net"),
   Get(Only("info"), "interval", o + 148, 4, "net"), Get(Only("info"), "aggL2", o + 152, 4, "net"),
   Get(Only("info"), "aggL3", o + 156, 4, "net")}

parseHistoryResp(kind, n, o) ==
  {Get(Only("history"), "level", o, 1, "host"), Get(Only("history"), "count", o + 1, 2, "net"),
   Get(Only("history"), "flags", o + 3, 1, "host")}
  \cup UNION {IF kind = "agg"
              THEN UNION {parseMetrics(<<"entry", i, k>>, o + 4 + i * 156 + k * 52) : k \in 0..2}
              ELSE parseMetrics(<<"entry", i, 0>>, o + 4 + i * 52) : i \in Ends(n)}

\* The switch of onmessage has no case for an alert.
PlainParsed(kind) ==
  CASE kind = "metrics" -> parseMetrics(Only("sample"), 10) [] kind = "config" -> parseConfig(10)
    [] kind = "ack" -> parseAck(10) [] kind = "stats" -> parseStats(10)
    [] kind = "sysinfo" -> parseSysInfo(10) [] kind \in {"alert", "auth_req"} -> {}
Parsed(kind, n) ==
  parseHeader \cup IF kind \in Kinds THEN PlainParsed(kind) ELSE parseHistoryResp(kind, n, 10)

-----------------------------------------------------------------------------
(* Commands.                                                               *)

\* The builders of the client, with the payload length they state
buildHeader == parseHeader \cup {Get(Only("header"), "checksum", 9, 1, "host")}
buildCmd == [size |-> 9, put |-> {Get(Only("cmd"), "cmd", 10, 1, "host"), Get(Only("cmd"), "arg", 11, 4, "net")}]
buildHistoryReq ==
  [size |-> 19, put |-> {Get(Only("req"), "level", 10, 1, "host"), Get(Only("req"), "from", 11, 8, "net"),
                         Get(Only("req"), "to", 19, 8, "net"), Get(Only("req"), "max", 27, 2, "net")}]
buildSubscribe ==
  [size |-> 6, put |-> {Get(Only("sub"), "level", 10, 1, "host"), Get(Only("sub"), "interval", 11, 4, "net"),
                        Get(Only("sub"), "reserved", 15, 1, "host")}]
buildAuth ==
  [size |-> 65, put |-> {Get(Only("auth"), "cmd", 10, 1, "host"), Get(Only("auth"), "token", 11, 64, "host")}]

Built(kind) == CASE kind \in {"cmd", "set_alerts"} -> buildCmd [] kind = "history_req" -> buildHistoryReq
                 [] kind = "subscribe" -> buildSubscribe [] kind = "auth" -> buildAuth

\* What the gateway reads of a command, and the payload it must have
Used(kind) ==
  CASE kind = "cmd" -> {g \in Laid(Only("cmd"), CmdStruct, HeaderSize) : g[2] \in {"cmd", "arg"}}
    [] kind = "set_alerts" ->
         {g \in Laid(Only("cmd"), SetAlertsStruct, HeaderSize) : g[2] \in {"cmd", "arg"}}
    [] kind = "history_req" ->
         {g \in Laid(Only("req"), HistoryReqStruct, HeaderSize) : g[2] \in {"level", "max"}}
    [] kind = "subscribe" ->
         {g \in Laid(Only("sub"), SubscribeStruct, HeaderSize) : g[2] \in {"level", "interval"}}
    [] kind = "auth" -> Laid(Only("auth"), AuthStruct, HeaderSize)
Needed(kind) == CASE kind \in {"cmd", "set_alerts"} -> SizeOf(CmdStruct) [] kind = "history_req" -> SizeOf(HistoryReqStruct)
                  [] kind = "subscribe" -> SizeOf(SubscribeStruct) [] kind = "auth" -> SizeOf(AuthStruct)

\* "cmd" is any of the structure's commands but CMD_SET_ALERTS.
Commanded == {"cmd", "set_alerts", "history_req", "subscribe", "auth"}

-----------------------------------------------------------------------------

WireTypeOK ==
  /\ stock \in Fills
  /\ depth \in 1..3 /\ remaining \in 0..(10 * BatchMax)
  /\ frame \in Kinds \cup {"raw", "agg"} /\ count \in 0..BatchMax
  /\ HeaderSize + PayloadSize(frame, count) <= BufferSize
  /\ command \in Commanded /\ read \in BOOLEAN /\ ended \in BOOLEAN

WireInit ==
  /\ stock \in Fills /\ depth = 1 /\ remaining = 0
  /\ frame = "config" /\ count = 0 /\ command = "auth" /\ read = FALSE /\ ended = TRUE

\* The daemon writes, between two batches as well: a level that wraps is found
\* with fewer entries, never empty again.
Stocked(n) ==
  /\ stock > 0 => n > 0
  /\ stock' = n /\ UNCHANGED <<depth, remaining, frame, count, command, read, ended>>

\* Any frame but history, and any command but its request
Reply(kind) ==
  /\ remaining = 0 /\ frame' = kind /\ count' = 0
  /\ UNCHANGED <<stock, depth, remaining, command, read, ended>>
SendCommand(kind) ==
  /\ remaining = 0 /\ command' = kind
  /\ UNCHANGED <<stock, depth, remaining, frame, count, read, ended>>

\* send_history begins: no limit, or more than ten batches, is ten batches.
AskHistory(level, max) ==
  /\ remaining = 0 /\ command' = "history_req"
  /\ depth' = level
  /\ remaining' = IF max = 0 \/ max > 10 * BatchMax THEN 10 * BatchMax ELSE max
  /\ read' = FALSE /\ ended' = FALSE /\ UNCHANGED <<stock, frame, count>>

AtMostOf(a, b) == IF a <= b THEN a ELSE b

\* One round of its loop.  ttg_proto_build makes nothing of a payload that does
\* not fit into the buffer.
SendBatch ==
  LET batch == AtMostOf(remaining, BatchMax)
      got   == AtMostOf(batch, stock)
      kind  == HistoryKind(depth)
      fits  == HeaderSize + PayloadSize(kind, got) <= BufferSize
      last  == remaining = got \/ got < batch
  IN /\ remaining > 0 /\ UNCHANGED <<stock, depth, command>>
     /\ remaining' = IF got = 0 THEN 0 ELSE remaining - got
     /\ read' = (read \/ got > 0)
     /\ IF got > 0 /\ fits
        THEN frame' = kind /\ count' = got /\ ended' = (ended \/ last)
        ELSE UNCHANGED <<frame, count, ended>>

WireNext ==
  \/ SendBatch
  \/ \E n \in Fills : Stocked(n)
  \/ \E kind \in Kinds : Reply(kind)
  \/ \E kind \in Commanded \ {"history_req"} : SendCommand(kind)
  \/ \E level \in 1..3, max \in Wishes : AskHistory(level, max)

WireSpec == WireInit /\ [][WireNext]_wireVars

-----------------------------------------------------------------------------
(* Properties.                                                             *)

FrameUnderstood(kind, n) ==
  /\ Parsed(kind, n) \subseteq Written(kind, n)
  /\ \A g \in Parsed(kind, n) : g[3] + g[4] <= HeaderSize + PayloadSize(kind, n)
PayloadRead(kind, n) == Written(kind, n) \ HeaderWritten \subseteq Parsed(kind, n)
CommandUnderstood(kind) ==
  /\ HeaderWritten \subseteq buildHeader
  /\ Used(kind) \subseteq Built(kind).put /\ Built(kind).size >= Needed(kind)
CommandsUnderstood == {kind \in Commanded : CommandUnderstood(kind)}

\* What the client reads of a frame the gateway has put there, at this offset, as
\* wide, in the order of bytes it was put in and inside the payload that the header
\* states, for both ends of a batch of any length; and it reads all of the payload,
\* but of an alert, of which it reads the header alone.  What the gateway uses of a
\* command the client has put there in the same way, but for CMD_SET_ALERTS: of it
\* the gateway takes one byte, and the client has written four.
FramesAreUnderstood ==
  /\ FrameUnderstood(frame, count)
  /\ PayloadRead(frame, count) <=> frame # "alert"
  /\ command \in CommandsUnderstood <=> command # "set_alerts"

\* What the protocol says of HISTORY_FLAG_LAST: "Set on the final frame of a
\* batch".  A request for which entries were read has ended with such a frame.
HistoryAnswered == remaining = 0 /\ read => ended
=============================================================================
