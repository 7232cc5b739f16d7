----------------------------- MODULE SerdesUtils -----------------------------
(***************************************************************************)
(* The wire codec of IRATI messages (common/serdes-utils.c): strings,      *)
(* names and flow specs, and the layout-driven message functions           *)
(* serialize_irati_msg, deserialize_irati_msg and irati_msg_serlen.        *)
(*                                                                         *)
(* Bytes are numbers below 2^ByteBits (8 in the build); a uint16_t is two  *)
(* bytes in host (little-endian) order, so string lengths are capped at     *)
(* 2^(2*ByteBits) - 1, the 65535 of string_prlen.  String contents are      *)
(* non-zero bytes (strlen stops at the first zero).  A flow spec is its     *)
(* 38 serialized bytes.  A message is its type, its names (each four       *)
(* strings), its strings and its flow specs; the rest of its copylen        *)
(* prefix is opaque zero bytes after the two bytes of msg_type.             *)
(*                                                                         *)
(* The driver sends one message: the sender serializes it, the receiver    *)
(* gets the first rcvLen bytes of the buffer (truncated, whole, or with     *)
(* trailing bytes) and decodes them.  The memory after the receive buffer  *)
(* holds JunkLen arbitrary bytes, which the decoder reads if it runs past  *)
(* the end; reading beyond them is recorded as a fault.                     *)
(***************************************************************************)
EXTENDS Integers, Sequences, FiniteSets, TLC, RinaNames

CONSTANTS
    ByteBits,       \* bits per byte
    Layouts,        \* numtables: type -> [copylen and the section counts]
    NumEntries,     \* num_entries of numtables
    Strings,        \* strings messages carry (byte sequences, or Null)
    JunkLen,        \* bytes of memory past the receive buffer
    PolicyStrings,  \* strings policy names, versions and parameters take
    MaxPolicyParams,\* most parameters a policy has
    DtcpConfigs     \* DTCP configs messages carry

Byte == 0..(2^ByteBits - 1)
U16Max == 2^(2 * ByteBits) - 1
FlowSpecLen == 8 * 4 + 4 + 2     \* flow_spec_serlen: 8 uint32, 1 int32, 2 bool
\* The fixed fields of a dtp_config: four bools, an int, a timeout_t and a
\* seq_num_t (both 32-bit; their typedefs are outside this file).
DtpFixedLen == 4 * 1 + 4 + 4 + 4

\* Mutant: the length is stored in one byte cell instead of two bytes.
U16NoSplit(v) == << v, 0 >>

\* serialize_obj(p, uint16_t, v) and deserialize_obj(p, uint16_t, r).
U16(v) == << v % 2^ByteBits, (v \div 2^ByteBits) % 2^ByteBits >>
U16At(mem, pos) == mem[pos] + mem[pos + 1] * 2^ByteBits

Zeros(n) == [i \in 1..n |-> 0]

\* string_prlen: strlen, 0 for NULL, capped at 65535.
StringPrlen(s) == IF s = Null THEN 0 ELSE IF Len(s) > U16Max THEN U16Max ELSE Len(s)

\* serialize_string: the capped length, then that many bytes of s.
SerializeString(s) ==
    U16(StringPrlen(s)) \o (IF s = Null THEN <<>> ELSE SubSeq(s, 1, StringPrlen(s)))

\* serialize_rina_name: its four strings in order.
SerializeRinaName(nm) ==
    SerializeString(nm[1]) \o SerializeString(nm[2]) \o SerializeString(nm[3]) \o SerializeString(nm[4])

\* Mutant: rina_name_serlen forgets the four length fields.
RinaNameSerlenNoPrefix(nm) ==
    StringPrlen(nm[1]) + StringPrlen(nm[2]) + StringPrlen(nm[3]) + StringPrlen(nm[4])

\* rina_name_serlen: four length fields plus the four capped lengths.
RinaNameSerlen(nm) ==
    4 * 2 + StringPrlen(nm[1]) + StringPrlen(nm[2]) + StringPrlen(nm[3]) + StringPrlen(nm[4])

RECURSIVE ConcatMap(_, _)
\* op applied to each element of seq, the results concatenated.
ConcatMap(Op(_), seq) == IF seq = <<>> THEN <<>> ELSE Op(Head(seq)) \o ConcatMap(Op, Tail(seq))

RECURSIVE SumMap(_, _)
SumMap(Op(_), seq) == IF seq = <<>> THEN 0 ELSE Op(Head(seq)) + SumMap(Op, Tail(seq))

\* policy_parm_serlen: two length fields and the two capped strings.
PolicyParmSerlen(prm) == 2 * 2 + StringPrlen(prm.name) + StringPrlen(prm.value)

\* serialize_policy_parm (called with its cursor, as intended).
SerializePolicyParm(prm) == SerializeString(prm.name) \o SerializeString(prm.value)

\* policy_serlen: name and version with their length fields, the count,
\* and every parameter.
PolicySerlen(p) ==
    2 * 2 + StringPrlen(p.name) + StringPrlen(p.version) + 2 + SumMap(PolicyParmSerlen, p.params)

\* serialize_policy: name, version, the number of parameters as a
\* uint16_t (counted in the list walk, so it wraps), then each parameter.
SerializePolicy(p) ==
    SerializeString(p.name) \o SerializeString(p.version)
        \o U16(Len(p.params) % 2^(2 * ByteBits)) \o ConcatMap(SerializePolicyParm, p.params)

\* dtp_config_serlen
DtpConfigSerlen(c) == DtpFixedLen + PolicySerlen(c.dtp_ps)

\* serialize_dtp_config: the fixed fields (opaque here), then dtp_ps.
SerializeDtpConfig(c) == Zeros(DtpFixedLen) \o SerializePolicy(c.dtp_ps)

(***************************************************************************)
(* DTCP configs.  A uint32_t field is four bytes, opaque here; a bool is  *)
(* one byte and its value is kept, as it decides which nested configs      *)
(* follow.  An absent nested config is Null.                               *)
(***************************************************************************)

U32Len == 4
BoolBytes(b) == << IF b THEN 1 ELSE 0 >>
SerializePolicies(ps) == ConcatMap(SerializePolicy, ps)
PoliciesSerlen(ps) == SumMap(PolicySerlen, ps)

\* The policies of each config, in the order its serializer writes them.
WindowPolicies(w) == << w.rcvr_flow_control, w.tx_control >>
RatePolicies(r) == << r.no_override_default_peak, r.no_rate_slow_down, r.rate_reduction >>
FctrlPolicies(f) == << f.closed_window, f.receiving_flow_control, f.reconcile_flow_conflict >>
RxctrlPolicies(x) ==
    << x.rcvr_ack, x.rcvr_control_ack, x.receiving_ack_list,
       x.retransmission_timer_expiry, x.sender_ack, x.sending_ack >>
DtcpPolicies(c) == << c.dtcp_ps, c.lost_control_pdu, c.rtt_estimator >>

\* window_fctrl_config_serlen and serialize_window_fctrl_config:
\* initial_credit, max_closed_winq_length, then the two policies.
WindowFctrlConfigSerlen(w) == 2 * U32Len + PoliciesSerlen(WindowPolicies(w))
SerializeWindowFctrlConfig(w) == Zeros(2 * U32Len) \o SerializePolicies(WindowPolicies(w))

\* Mutant: the policies written in the order rate_fctrl_config_serlen
\* lists them, not the order the decoder reads them.
SerializeRateFctrlConfigSerlenOrder(r) ==
    Zeros(2 * U32Len) \o SerializePolicies(<< r.rate_reduction, r.no_rate_slow_down, r.no_override_default_peak >>)

\* rate_fctrl_config_serlen and serialize_rate_fctrl_config: sending_rate,
\* time_period, then the three policies.
RateFctrlConfigSerlen(r) == 2 * U32Len + PoliciesSerlen(RatePolicies(r))
SerializeRateFctrlConfig(r) == Zeros(2 * U32Len) \o SerializePolicies(RatePolicies(r))

\* dtcp_fctrl_config_serlen and serialize_dtcp_fctrl_config: six
\* thresholds, the two gating bools, three policies, then the window and
\* the rate configs when their bool is set.
DtcpFctrlConfigSerlen(f) ==
    6 * U32Len + 2 + PoliciesSerlen(FctrlPolicies(f))
        + (IF f.window_based_fctrl THEN WindowFctrlConfigSerlen(f.wfctrl_cfg) ELSE 0)
        + (IF f.rate_based_fctrl THEN RateFctrlConfigSerlen(f.rfctrl_cfg) ELSE 0)
SerializeDtcpFctrlConfig(f) ==
    Zeros(6 * U32Len) \o BoolBytes(f.window_based_fctrl) \o BoolBytes(f.rate_based_fctrl)
        \o SerializePolicies(FctrlPolicies(f))
        \o (IF f.window_based_fctrl THEN SerializeWindowFctrlConfig(f.wfctrl_cfg) ELSE <<>>)
        \o (IF f.rate_based_fctrl THEN SerializeRateFctrlConfig(f.rfctrl_cfg) ELSE <<>>)

\* dtcp_rxctrl_config_serlen and serialize_dtcp_rxctrl_config:
\* data_retransmit_max, initial_tr, max_time_retry, then six policies.
DtcpRxctrlConfigSerlen(x) == 3 * U32Len + PoliciesSerlen(RxctrlPolicies(x))
SerializeDtcpRxctrlConfig(x) == Zeros(3 * U32Len) \o SerializePolicies(RxctrlPolicies(x))

\* dtcp_config_serlen computes ret but has no return statement: the value
\* the caller gets is undefined.  Built without optimisation, the return
\* register holds ret after the last addition when rtx_ctrl is set, and
\* the zero-extended rtx_ctrl byte (0) after the final test when it is
\* not; these are the outcomes modelled.
DtcpConfigSerlens(c) ==
    LET ret == 2 + PoliciesSerlen(DtcpPolicies(c))
               + (IF c.flow_ctrl THEN DtcpFctrlConfigSerlen(c.fctrl_cfg) ELSE 0)
               + (IF c.rtx_ctrl THEN DtcpRxctrlConfigSerlen(c.rxctrl_cfg) ELSE 0)
    IN IF c.rtx_ctrl THEN {ret} ELSE {ret, 0}

\* serialize_dctp_config (called by serialize_irati_msg as
\* serialize_dtcp_config, and calling the nested serializers without the
\* cursor; modelled as intended): the two bools, three policies, then the
\* flow control and retransmission control configs when their bool is set.
SerializeDctpConfig(c) ==
    BoolBytes(c.flow_ctrl) \o BoolBytes(c.rtx_ctrl) \o SerializePolicies(DtcpPolicies(c))
        \o (IF c.flow_ctrl THEN SerializeDtcpFctrlConfig(c.fctrl_cfg) ELSE <<>>)
        \o (IF c.rtx_ctrl THEN SerializeDtcpRxctrlConfig(c.rxctrl_cfg) ELSE <<>>)

\* The copylen prefix of a message: msg_type, then the opaque fields.
Prefix(m) == U16(m.type) \o Zeros(Layouts[m.type].copylen - 2)

\* serialize_irati_msg: the prefix, then the names, strings, flow specs,
\* DTP configs and DTCP configs in layout order (the dif config and buffer
\* sections are empty in the layouts checked here).
SerializeIratiMsg(m) ==
    Prefix(m) \o ConcatMap(SerializeRinaName, m.names)
              \o ConcatMap(SerializeString, m.strings)
              \o ConcatMap(LAMBDA f : f, m.fspecs)
              \o ConcatMap(SerializeDtpConfig, m.dtps)
              \o ConcatMap(SerializeDctpConfig, m.dtcps)

RECURSIVE DtcpSectionSerlens(_)
\* The sums the dtcp_configs loop of irati_msg_serlen may add up.
DtcpSectionSerlens(cs) ==
    IF cs = <<>> THEN {0}
    ELSE {a + b : a \in DtcpConfigSerlens(Head(cs)), b \in DtcpSectionSerlens(Tail(cs))}

\* irati_msg_serlen: the values it may return (one, unless the message
\* carries a DTCP config).
IratiMsgSerlens(m) ==
    LET fixed == Layouts[m.type].copylen + SumMap(RinaNameSerlen, m.names)
                 + SumMap(LAMBDA s : 2 + StringPrlen(s), m.strings)
                 + FlowSpecLen * Len(m.fspecs)
                 + SumMap(DtpConfigSerlen, m.dtps)
    IN {fixed + d : d \in DtcpSectionSerlens(m.dtcps)}

(***************************************************************************)
(* Decoding.  mem is the receive buffer followed by the junk bytes; pos is *)
(* the 1-based index of the next byte to read; hi the last index read.     *)
(***************************************************************************)

Fault(pos, hi) == [st |-> "fault", pos |-> pos, vals |-> <<>>, hi |-> hi]
\* A write through a NULL pointer: the decoder crashes.
Crash(hi) == [st |-> "crash", pos |-> 0, vals |-> <<>>, hi |-> hi]
Higher(a, b) == IF a > b THEN a ELSE b
Ok(pos, val, hi) == [st |-> "ok", pos |-> pos, val |-> val, hi |-> hi]

\* deserialize_string: a zero length yields NULL; otherwise that many bytes
\* are copied, with no check against the end of the buffer.  (Each step of
\* a decoder hands its result to the next as an argument.)
StringOfLength(mem, pos, hi, n) ==
    IF n = 0 THEN Ok(pos + 2, Null, Higher(hi, pos + 1))
    ELSE IF pos + 1 + n > Len(mem) THEN Fault(pos, Len(mem) + 1)
    ELSE Ok(pos + 2 + n, SubSeq(mem, pos + 2, pos + 1 + n), Higher(hi, pos + 1 + n))

DeserializeString(mem, pos, hi) ==
    IF pos + 1 > Len(mem) THEN Fault(pos, Len(mem) + 1)
    ELSE StringOfLength(mem, pos, hi, U16At(mem, pos))

\* deserialize_policy_parm: its name, then its value.
ParmDone(nm, v) ==
    IF v.st # "ok" THEN v ELSE Ok(v.pos, [name |-> nm.val, value |-> v.val], v.hi)
ParmValue(mem, nm) ==
    IF nm.st # "ok" THEN nm ELSE ParmDone(nm, DeserializeString(mem, nm.pos, nm.hi))
DeserializePolicyParm(mem, pos, hi) == ParmValue(mem, DeserializeString(mem, pos, hi))

RECURSIVE DecodeParams(_, _, _, _, _, _), ParamAdded(_, _, _, _, _)
\* The parameter loop of deserialize_policy: each parameter is allocated,
\* decoded and list_add_tail'ed onto policy->params.  headInit says whether
\* that list head is a valid empty list; list_add_tail on a zeroed head
\* writes through its NULL prev pointer.
DecodeParams(mem, pos, hi, n, acc, headInit) ==
    IF n = 0 THEN Ok(pos, acc, hi)
    ELSE ParamAdded(mem, n, acc, headInit, DeserializePolicyParm(mem, pos, hi))
ParamAdded(mem, n, acc, headInit, prm) ==
    IF prm.st # "ok" THEN prm
    ELSE IF ~headInit THEN Crash(prm.hi)
    ELSE DecodeParams(mem, prm.pos, prm.hi, n - 1, Append(acc, prm.val), headInit)

\* deserialize_policy: memset(policy, 0) first, which zeroes the params
\* list head its caller had just initialised; then name, version, the
\* uint16_t count and the parameters.
PolicyDone(nm, ver, ps) ==
    IF ps.st # "ok" THEN ps
    ELSE Ok(ps.pos, [name |-> nm.val, version |-> ver.val, params |-> ps.val], ps.hi)
PolicyParams(mem, nm, ver) ==
    IF ver.st # "ok" THEN ver
    ELSE IF ver.pos + 1 > Len(mem) THEN Fault(ver.pos, Len(mem) + 1)
    ELSE PolicyDone(nm, ver, DecodeParams(mem, ver.pos + 2, Higher(ver.hi, ver.pos + 1),
                                          U16At(mem, ver.pos), <<>>, FALSE))
PolicyVersion(mem, nm) ==
    IF nm.st # "ok" THEN nm ELSE PolicyParams(mem, nm, DeserializeString(mem, nm.pos, nm.hi))
DeserializePolicy(mem, pos, hi) == PolicyVersion(mem, DeserializeString(mem, pos, hi))

\* deserialize_dtp_config: the fixed fields, then a new policy whose list
\* head is initialised before deserialize_policy is called on it.
DtpDone(p) == IF p.st # "ok" THEN p ELSE Ok(p.pos, [dtp_ps |-> p.val], p.hi)
DeserializeDtpConfig(mem, pos, hi) ==
    IF pos + DtpFixedLen - 1 > Len(mem) THEN Fault(pos, Len(mem) + 1)
    ELSE DtpDone(DeserializePolicy(mem, pos + DtpFixedLen, Higher(hi, pos + DtpFixedLen - 1)))

RECURSIVE DecodePolicies(_, _, _, _, _), PolicyDecoded(_, _, _, _)
\* n policies in a row, each allocated, list head initialised and decoded
\* by deserialize_policy; the first failure is returned.
DecodePolicies(mem, pos, hi, n, acc) ==
    IF n = 0 THEN Ok(pos, acc, hi)
    ELSE PolicyDecoded(mem, n, acc, DeserializePolicy(mem, pos, hi))
PolicyDecoded(mem, n, acc, p) ==
    IF p.st # "ok" THEN p ELSE DecodePolicies(mem, p.pos, p.hi, n - 1, Append(acc, p.val))

\* deserialize_obj of a bool: its byte.
BoolAt(mem, pos) == mem[pos] # 0

\* The policies of a config decoded after k fixed bytes.
FixedThenPolicies(mem, pos, hi, k, n) ==
    IF pos + k - 1 > Len(mem) THEN Fault(pos, Len(mem) + 1)
    ELSE DecodePolicies(mem, pos + k, Higher(hi, pos + k - 1), n, <<>>)

\* deserialize_window_fctrl_config: two uint32_t, two policies.
WindowDone(ps) ==
    IF ps.st # "ok" THEN ps
    ELSE Ok(ps.pos, [rcvr_flow_control |-> ps.val[1], tx_control |-> ps.val[2]], ps.hi)
DeserializeWindowFctrlConfig(mem, pos, hi) == WindowDone(FixedThenPolicies(mem, pos, hi, 2 * U32Len, 2))

\* deserialize_rate_fctrl_config: two uint32_t, three policies.
RateDone(ps) ==
    IF ps.st # "ok" THEN ps
    ELSE Ok(ps.pos, [no_override_default_peak |-> ps.val[1], no_rate_slow_down |-> ps.val[2],
                     rate_reduction |-> ps.val[3]], ps.hi)
DeserializeRateFctrlConfig(mem, pos, hi) == RateDone(FixedThenPolicies(mem, pos, hi, 2 * U32Len, 3))

\* deserialize_dtcp_fctrl_config: six uint32_t and the two gating bools,
\* three policies, then the window config if window_based_fctrl and the
\* rate config if rate_based_fctrl.
FctrlDone(wb, rb, ps, w, r) ==
    IF r.st # "ok" THEN r
    ELSE Ok(r.pos, [window_based_fctrl |-> wb, rate_based_fctrl |-> rb,
                    closed_window |-> ps[1], receiving_flow_control |-> ps[2],
                    reconcile_flow_conflict |-> ps[3], wfctrl_cfg |-> w, rfctrl_cfg |-> r.val], r.hi)
FctrlRate(mem, wb, rb, ps, w) ==
    IF w.st # "ok" THEN w
    ELSE FctrlDone(wb, rb, ps, w.val,
                   IF rb THEN DeserializeRateFctrlConfig(mem, w.pos, w.hi) ELSE Ok(w.pos, Null, w.hi))
FctrlWindow(mem, wb, rb, ps) ==
    IF ps.st # "ok" THEN ps
    ELSE FctrlRate(mem, wb, rb, ps.val,
                   IF wb THEN DeserializeWindowFctrlConfig(mem, ps.pos, ps.hi) ELSE Ok(ps.pos, Null, ps.hi))
DeserializeDtcpFctrlConfig(mem, pos, hi) ==
    LET b == pos + 6 * U32Len IN
    IF b + 1 > Len(mem) THEN Fault(pos, Len(mem) + 1)
    ELSE FctrlWindow(mem, BoolAt(mem, b), BoolAt(mem, b + 1),
                     DecodePolicies(mem, b + 2, Higher(hi, b + 1), 3, <<>>))

\* deserialize_dtcp_rxctrl_config: three uint32_t, six policies.
RxctrlDone(ps) ==
    IF ps.st # "ok" THEN ps
    ELSE Ok(ps.pos, [rcvr_ack |-> ps.val[1], rcvr_control_ack |-> ps.val[2],
                     receiving_ack_list |-> ps.val[3], retransmission_timer_expiry |-> ps.val[4],
                     sender_ack |-> ps.val[5], sending_ack |-> ps.val[6]], ps.hi)
DeserializeDtcpRxctrlConfig(mem, pos, hi) == RxctrlDone(FixedThenPolicies(mem, pos, hi, 3 * U32Len, 6))

\* deserialize_dtcp_config: flow_ctrl and rtx_ctrl, three policies, then
\* the flow control config if flow_ctrl and the retransmission control
\* config if rtx_ctrl.
DtcpDone(fc, rc, ps, f, x) ==
    IF x.st # "ok" THEN x
    ELSE Ok(x.pos, [flow_ctrl |-> fc, rtx_ctrl |-> rc, dtcp_ps |-> ps[1],
                    lost_control_pdu |-> ps[2], rtt_estimator |-> ps[3],
                    fctrl_cfg |-> f, rxctrl_cfg |-> x.val], x.hi)
DtcpRxctrl(mem, fc, rc, ps, f) ==
    IF f.st # "ok" THEN f
    ELSE DtcpDone(fc, rc, ps, f.val,
                  IF rc THEN DeserializeDtcpRxctrlConfig(mem, f.pos, f.hi) ELSE Ok(f.pos, Null, f.hi))
DtcpFctrl(mem, fc, rc, ps) ==
    IF ps.st # "ok" THEN ps
    ELSE DtcpRxctrl(mem, fc, rc, ps.val,
                    IF fc THEN DeserializeDtcpFctrlConfig(mem, ps.pos, ps.hi) ELSE Ok(ps.pos, Null, ps.hi))
DeserializeDtcpConfig(mem, pos, hi) ==
    IF pos + 1 > Len(mem) THEN Fault(pos, Len(mem) + 1)
    ELSE DtcpFctrl(mem, BoolAt(mem, pos), BoolAt(mem, pos + 1),
                   DecodePolicies(mem, pos + 2, Higher(hi, pos + 1), 3, <<>>))

\* The elements the layout of type t makes deserialize_irati_msg read, in
\* order: four strings per name, the strings, the flow specs, the DTP
\* configs, the DTCP configs.
Plan(t) ==
    [i \in 1..(4 * Layouts[t].names + Layouts[t].strings) |-> "string"]
        \o [i \in 1..Layouts[t].flow_specs |-> "flow_spec"]
        \o [i \in 1..Layouts[t].dtp_configs |-> "dtp_config"]
        \o [i \in 1..Layouts[t].dtcp_configs |-> "dtcp_config"]

RECURSIVE DecodeItems(_, _, _, _, _), ItemDecoded(_, _, _, _)
\* The decode loops of deserialize_irati_msg.  deserialize_flow_spec reads
\* FlowSpecLen bytes, field by field.  The return values of
\* deserialize_dtp_config and deserialize_dtcp_config are not looked at.
DecodeItems(mem, pos, plan, acc, hi) ==
    IF plan = <<>> THEN [st |-> "ok", pos |-> pos, vals |-> acc, hi |-> hi]
    ELSE IF Head(plan) = "flow_spec" THEN
        IF pos + FlowSpecLen - 1 > Len(mem) THEN Fault(pos, Len(mem) + 1)
        ELSE DecodeItems(mem, pos + FlowSpecLen, Tail(plan),
                         Append(acc, SubSeq(mem, pos, pos + FlowSpecLen - 1)), Higher(hi, pos + FlowSpecLen - 1))
    ELSE ItemDecoded(mem, plan, acc,
                     CASE Head(plan) = "string"     -> DeserializeString(mem, pos, hi)
                       [] Head(plan) = "dtp_config" -> DeserializeDtpConfig(mem, pos, hi)
                       [] OTHER                     -> DeserializeDtcpConfig(mem, pos, hi))
ItemDecoded(mem, plan, acc, d) ==
    IF d.st # "ok" THEN d ELSE DecodeItems(mem, d.pos, Tail(plan), Append(acc, d.val), d.hi)

\* The message a successful decode of type t rebuilds from its elements.
Rebuild(t, vals) ==
    LET nn == Layouts[t].names
        ns == Layouts[t].strings
        nf == Layouts[t].flow_specs
    IN [type    |-> t,
        names   |-> [i \in 1..nn |-> [j \in 1..4 |-> vals[4 * (i - 1) + j]]],
        strings |-> [i \in 1..ns |-> vals[4 * nn + i]],
        fspecs  |-> [i \in 1..nf |-> vals[4 * nn + ns + i]],
        dtps    |-> [i \in 1..Layouts[t].dtp_configs |-> vals[4 * nn + ns + nf + i]],
        dtcps   |-> [i \in 1..Layouts[t].dtcp_configs |->
                        vals[4 * nn + ns + nf + Layouts[t].dtp_configs + i]]]

\* Mutant: the final check of the cursor against serbuf_len is missing.
DeserializeIratiMsgNoLenCheck(mem, len) ==
    IF Len(mem) < 2 THEN [ret |-> -1, fault |-> TRUE, hi |-> Len(mem) + 1, msg |-> Null]
    ELSE LET t == U16At(mem, 1) IN
    IF t >= NumEntries THEN [ret |-> -1, fault |-> FALSE, hi |-> 2, msg |-> Null]
    ELSE IF Layouts[t].copylen > Len(mem) THEN [ret |-> -1, fault |-> TRUE, hi |-> Len(mem) + 1, msg |-> Null]
    ELSE LET d == DecodeItems(mem, Layouts[t].copylen + 1, Plan(t), <<>>, Layouts[t].copylen) IN
         IF d.st # "ok" THEN [ret |-> -1, fault |-> TRUE, hi |-> d.hi, msg |-> Null]
         ELSE [ret   |-> 0,
               fault |-> FALSE,
               hi    |-> d.hi,
               msg |-> Rebuild(t, d.vals)]

\* deserialize_irati_msg(serbuf, serbuf_len): msg_type is read from the
\* buffer before anything is checked; a type at or past num_entries gives
\* -1; copylen bytes are copied; the elements are decoded; the result is 0
\* only if the cursor ends exactly at serbuf_len.  ret is the return value;
\* fault says the decoder ran past the junk bytes too (its outcome is then
\* unknown), hi is the last byte index read.
DeserializeIratiMsg(mem, len) ==
    IF Len(mem) < 2 THEN [ret |-> -1, fault |-> TRUE, hi |-> Len(mem) + 1, msg |-> Null]
    ELSE LET t == U16At(mem, 1) IN
    IF t >= NumEntries THEN [ret |-> -1, fault |-> FALSE, hi |-> 2, msg |-> Null]
    ELSE IF Layouts[t].copylen > Len(mem) THEN [ret |-> -1, fault |-> TRUE, hi |-> Len(mem) + 1, msg |-> Null]
    ELSE LET d == DecodeItems(mem, Layouts[t].copylen + 1, Plan(t), <<>>, Layouts[t].copylen) IN
         IF d.st # "ok" THEN [ret |-> -1, fault |-> TRUE, hi |-> d.hi, msg |-> Null]
         ELSE [ret   |-> IF d.pos - 1 = len THEN 0 ELSE -1,
               fault |-> FALSE,
               hi    |-> d.hi,
               msg |-> Rebuild(t, d.vals)]

(***************************************************************************)
(* The driver: one message sent and received.                              *)
(***************************************************************************)

\* DTP configs: their policy's name, version and parameters.
Policies ==
    [name : PolicyStrings, version : PolicyStrings,
     params : UNION {[1..k -> [name : PolicyStrings, value : PolicyStrings]] : k \in 0..MaxPolicyParams}]
DtpConfigs == [dtp_ps : Policies]

\* The messages a sender may pass: a valid type, and per section as many
\* elements as its layout says.
Messages ==
    UNION { [type : {t}, names : [1..Layouts[t].names -> [1..4 -> Strings]],
             strings : [1..Layouts[t].strings -> Strings],
             fspecs : [1..Layouts[t].flow_specs -> {Zeros(FlowSpecLen)}],
             dtps : [1..Layouts[t].dtp_configs -> DtpConfigs],
             dtcps : [1..Layouts[t].dtcp_configs -> DtcpConfigs]]
          : t \in 0..(NumEntries - 1) }

VARIABLES
    msg,      \* the message sent
    serlen,   \* irati_msg_serlen of it: the size of the sender's buffer
    serbuf,   \* the bytes serialize_irati_msg wrote
    rcvLen,   \* serbuf_len at the receiver
    mem,      \* the receive buffer and the memory after it
    out,      \* the result of deserialize_irati_msg
    phase     \* "idle", "sent", "received"

vars == <<msg, serlen, serbuf, rcvLen, mem, out, phase, call>>

Init ==
    /\ msg = CHOOSE m \in Messages : TRUE
    /\ serlen = 0
    /\ serbuf = <<>> /\ rcvLen = 0 /\ mem = <<>>
    /\ out = [ret |-> 0, fault |-> FALSE, hi |-> 0, msg |-> Null]
    /\ phase = "idle"
    /\ CallInit

\* The sender serializes a message into a buffer of irati_msg_serlen bytes.
Send(m) ==
    /\ phase = "idle" /\ call = NoCall
    /\ msg' = m
    /\ serlen' \in IratiMsgSerlens(m)
    /\ serbuf' = SerializeIratiMsg(m)
    /\ phase' = "sent"
    /\ UNCHANGED <<rcvLen, mem, out, call>>

\* The receiver gets the first len bytes of the buffer (extra bytes past its
\* end are arbitrary) and deserializes them.
Receive(len, junk) ==
    /\ phase = "sent"
    /\ LET m2 == IF len <= Len(serbuf) THEN SubSeq(serbuf, 1, len) \o junk
                 ELSE serbuf \o junk
       IN /\ rcvLen' = len
          /\ mem' = m2
          /\ out' = DeserializeIratiMsg(m2, len)
    /\ phase' = "received"
    /\ UNCHANGED <<msg, serlen, serbuf, call>>

\* The receiver frees the message and the next one can be sent.
Reset ==
    /\ phase = "received"
    /\ msg' = CHOOSE m \in Messages : TRUE
    /\ serlen' = 0
    /\ serbuf' = <<>> /\ rcvLen' = 0 /\ mem' = <<>>
    /\ out' = [ret |-> 0, fault |-> FALSE, hi |-> 0, msg |-> Null]
    /\ phase' = "idle"
    /\ UNCHANGED call

\* Between messages, a caller uses the name helpers of the same file.
NameHelpers ==
    /\ phase = "idle"
    /\ \/ call = NoCall /\ \E c \in Calls : CallNameHelper(c)
       \/ NameHelperReturns
    /\ UNCHANGED <<msg, serlen, serbuf, rcvLen, mem, out, phase>>

Next ==
    \/ \E m \in Messages : Send(m)
    \/ \E len \in 0..(Len(serbuf) + 1), junk \in [1..JunkLen -> Byte] : Receive(len, junk)
    \/ Reset
    \/ NameHelpers

Spec == Init /\ [][Next]_vars

(***************************************************************************)
(* Properties                                                              *)
(***************************************************************************)

\* What a string becomes on the wire and back: NULL and "" both come back
\* as NULL, a string longer than 65535 bytes comes back cut to 65535.
NormString(s) == IF s = Null \/ s = <<>> THEN Null ELSE SubSeq(s, 1, StringPrlen(s))
NormPolicy(p) ==
    [name |-> NormString(p.name), version |-> NormString(p.version),
     params |-> [i \in DOMAIN p.params |-> [name |-> NormString(p.params[i].name),
                                             value |-> NormString(p.params[i].value)]]]
\* A decoded DTCP config: policies as above, and a nested config only
\* where its gating bool is set.
NormPolicyFields(r, F) == [k \in DOMAIN r |-> IF k \in F THEN NormPolicy(r[k]) ELSE r[k]]
NormFctrl(f) ==
    [NormPolicyFields(f, {"closed_window", "receiving_flow_control", "reconcile_flow_conflict"})
     EXCEPT !["wfctrl_cfg"] = IF f.window_based_fctrl
                              THEN NormPolicyFields(@, {"rcvr_flow_control", "tx_control"}) ELSE Null,
            !["rfctrl_cfg"] = IF f.rate_based_fctrl
                              THEN NormPolicyFields(@, {"no_override_default_peak", "no_rate_slow_down",
                                                         "rate_reduction"}) ELSE Null]
NormDtcp(c) ==
    [NormPolicyFields(c, {"dtcp_ps", "lost_control_pdu", "rtt_estimator"})
     EXCEPT !["fctrl_cfg"] = IF c.flow_ctrl THEN NormFctrl(@) ELSE Null,
            !["rxctrl_cfg"] = IF c.rtx_ctrl
                              THEN NormPolicyFields(@, {"rcvr_ack", "rcvr_control_ack", "receiving_ack_list",
                                                         "retransmission_timer_expiry", "sender_ack",
                                                         "sending_ack"}) ELSE Null]
Normalize(m) ==
    [m EXCEPT !.names   = [i \in DOMAIN @ |-> [j \in 1..4 |-> NormString(@[i][j])]],
              !.strings = [i \in DOMAIN @ |-> NormString(@[i])],
              !.dtps    = [i \in DOMAIN @ |-> [dtp_ps |-> NormPolicy(@[i].dtp_ps)]],
              !.dtcps   = [i \in DOMAIN @ |-> NormDtcp(@[i])]]

TypeOK ==
    /\ msg \in Messages
    /\ serlen \in Nat
    /\ serbuf \in Seq(Byte) /\ mem \in Seq(Byte)
    /\ rcvLen \in Nat
    /\ out.ret \in {0, -1} /\ out.fault \in BOOLEAN
    /\ phase \in {"idle", "sent", "received"}
    /\ call \in Calls \cup {NoCall}

\* irati_msg_serlen, by which the sender sizes its buffer, is exactly the
\* number of bytes serialize_irati_msg writes, for every message whose
\* irati_msg_serlen is defined: one with a DTCP config gets the undefined
\* value of dtcp_config_serlen.
SerlenMatches == phase = "sent" /\ msg.dtcps = <<>> => Len(serbuf) = serlen

\* Round trip: the whole buffer decodes (result 0) to the message sent, up
\* to the NULL/"" and 65535-byte rules of the string encoding.
RoundTrip ==
    phase = "received" /\ rcvLen = Len(serbuf) =>
        ~out.fault /\ out.ret = 0 /\ out.msg = Normalize(msg)

\* A buffer that is cut short or has trailing bytes is never accepted
\* (spec: strict length matching).
WrongLengthRejected ==
    phase = "received" /\ rcvLen # Len(serbuf) => out.fault \/ out.ret # 0

\* deserialize_irati_msg never reads past serbuf_len (spec: decoding fails
\* with TruncatedInput instead of reading past the end of the input).
NoReadPastEnd == phase = "received" => out.hi <= rcvLen
=============================================================================
