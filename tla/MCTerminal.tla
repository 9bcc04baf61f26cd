------------------------------ MODULE MCTerminal ------------------------------
(* Terminal on files like .env.example and a few values. *)
EXTENDS Terminal

CONSTANTS Fees, Levels, Urls, MaxEvents

EnteredFees == [k \in {"SERVICE_FEE_PPM"} |-> Fees]
EnteredAll == [k \in {"SERVICE_FEE_PPM", "LOG_LEVEL", "MINT_URL"} |->
    CASE k = "SERVICE_FEE_PPM" -> Fees
      [] k = "LOG_LEVEL" -> Levels
      [] k = "MINT_URL" -> Urls]
DefaultAll == [k \in {"SERVICE_FEE_PPM", "LOG_LEVEL"} |->
    IF k = "LOG_LEVEL" THEN <<"info">> ELSE <<"0">>]

Comment(k, t) == [Line(k, t) EXCEPT !.on = FALSE]

\* .env.example with a mint and a passphrase filled in.
Example == <<Line("MINT_URL", <<"home">>), Comment("SERVICE_FEE_PPM", <<"0">>),
             Comment("MINT_URLS", <<"mint1", "mint2">>), Comment("SEED", <<>>),
             Comment("LOG_LEVEL", <<"info">>)>>
\* What the setup wizard writes.
Wizard == <<Line("MINT_URL", <<"home">>)>>

LevelTexts == {<<"debug">>}
FeeTexts == {<<"1">>, <<"2">>}
FeeTextsBad == {<<"1">>, <<"-1">>}
FeeTextsBlank == {<<"1">>, <<>>}
NoTexts == {}
Bad == {<<"-1">>}

\* Edits, stops and wizards count against one bound, with keys against a greater one;
\* with a wizard, or with two edits or stops, there is no key and not yet a frame.
Together ==
    /\ edits + stops + wizards <= MaxEvents
    /\ edits + stops + presses <= MaxEvents + 1
    /\ (wizards = 0 /\ edits < 2 /\ stops < 2) \/ (presses = 0 /\ again = Later)
=============================================================================
