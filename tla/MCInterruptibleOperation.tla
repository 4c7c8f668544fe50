--------------------- MODULE MCInterruptibleOperation -----------------------
EXTENDS InterruptibleOperation

(* promptDeterministicAgent, and generateDeterministicAgentCode with one   *)
(* repair turn.                                                            *)
ClientPrograms == {<<"send", "wait">>, <<"poll", "send", "poll", "poll", "send", "poll">>}
=============================================================================
