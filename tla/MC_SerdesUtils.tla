--------------------------- MODULE MC_SerdesUtils ---------------------------
EXTENDS SerdesUtils

\* Four message types: one carrying a name, one carrying two strings and
\* a flow spec, one carrying a DTP config, one carrying a DTCP config.
\* Strings: NULL, "", one byte, and one longer than the cap.
MCLayouts ==
    (0 :> [copylen |-> 4, names |-> 1, strings |-> 0, flow_specs |-> 0, dtp_configs |-> 0, dtcp_configs |-> 0]) @@
    (1 :> [copylen |-> 2, names |-> 0, strings |-> 2, flow_specs |-> 1, dtp_configs |-> 0, dtcp_configs |-> 0]) @@
    (2 :> [copylen |-> 2, names |-> 0, strings |-> 0, flow_specs |-> 0, dtp_configs |-> 1, dtcp_configs |-> 0]) @@
    (3 :> [copylen |-> 2, names |-> 0, strings |-> 0, flow_specs |-> 0, dtp_configs |-> 0, dtcp_configs |-> 1])
MCStrings == {Null, <<>>, <<1>>, <<1, 1, 1, 1>>}
MCPolicyStrings == {Null, <<1>>}

\* DTCP configs: every combination of the gating bools, with all 17
\* policies the same except at most one, so that a policy written or read
\* in the wrong place shows.
PlainPolicy == [name |-> Null, version |-> Null, params |-> <<>>]
MarkedPolicy == [name |-> <<1>>, version |-> Null, params |-> <<>>]
MCDtcpConfig(fc, rc, wb, rb, k) ==
    LET P(i) == IF i = k THEN MarkedPolicy ELSE PlainPolicy IN
    [flow_ctrl |-> fc, rtx_ctrl |-> rc, dtcp_ps |-> P(1), lost_control_pdu |-> P(2), rtt_estimator |-> P(3),
     fctrl_cfg |-> IF ~fc THEN Null ELSE
        [window_based_fctrl |-> wb, rate_based_fctrl |-> rb,
         closed_window |-> P(4), receiving_flow_control |-> P(5), reconcile_flow_conflict |-> P(6),
         wfctrl_cfg |-> IF wb THEN [rcvr_flow_control |-> P(7), tx_control |-> P(8)] ELSE Null,
         rfctrl_cfg |-> IF rb THEN [no_override_default_peak |-> P(9), no_rate_slow_down |-> P(10),
                                    rate_reduction |-> P(11)] ELSE Null],
     rxctrl_cfg |-> IF ~rc THEN Null ELSE
        [rcvr_ack |-> P(12), rcvr_control_ack |-> P(13), receiving_ack_list |-> P(14),
         retransmission_timer_expiry |-> P(15), sender_ack |-> P(16), sending_ack |-> P(17)]]
MCDtcpConfigs ==
    {MCDtcpConfig(fc, rc, fc /\ wb, fc /\ rb, k) : fc, rc, wb, rb \in BOOLEAN, k \in 0..17}
=============================================================================
