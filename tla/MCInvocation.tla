---------------------------- MODULE MCInvocation ----------------------------
(* TLC instance of Invocation.                                             *)
EXTENDS Invocation, TLC

CONSTANTS f1, f2, v, zero, r1, r2, Token, token, Agent, secret, noon, done, oops

MCFields == {f1, f2}
MCValues == {v, zero}
MCIds == {r1, r2}

\* One header in two spellings and another.
MCNames == {Token, token, Agent}
MCCanonical == (Token :> Token) @@ (token :> Token) @@ (Agent :> Agent)
MCTokens == {secret}
MCTimes == {noon}
MCResults == {done}
MCTexts == {oops}
=============================================================================
