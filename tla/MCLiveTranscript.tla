--------------------------- MODULE MCLiveTranscript ---------------------------
(* Instance of LiveTranscript.  The second text begins with the first.       *)
EXTENDS LiveTranscript

SmallTexts == {<<>>, <<"a">>, <<"a", "b">>}
SmallDrafts == {<<>>, <<"b">>}
SmallBatches == {<<>>, <<"shown">>, <<"plan">>}
Sizes == {1}

\* Behaviours are followed up to the first loss, after which the properties say
\* nothing.
Followed == lost \subseteq {"late"}
=============================================================================
