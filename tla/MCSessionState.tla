--------------------------- MODULE MCSessionState ---------------------------
(* Small sessions: what the bridge persists with one call is a single event, *)
(* persist_runtime_turn_events also takes several.                           *)
EXTENDS SessionState, TLC

Several == {<<"work">>, <<"compact">>, <<"work", "compact">>, <<"compact", "work">>}
AnyPrompt == {"user", "queued"}
=============================================================================
