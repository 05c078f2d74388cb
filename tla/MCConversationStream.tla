------------------------ MODULE MCConversationStream ------------------------
(* One client of a session to which a turn and a child's report append.      *)
EXTENDS ConversationStream

CONSTANT turnTask, report

TwoWriters == {turnTask, report}
=============================================================================
