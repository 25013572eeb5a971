------------------------------ MODULE AuthClaims ------------------------------
(***************************************************************************)
(* What the README and the code's comments say of refresh tokens and      *)
(* AuthService, the code, does not keep when requests overlap.             *)
(***************************************************************************)
EXTENDS AuthService

\* README.md:93, "all tokens revoked on suspicious activity": a refresh that
\* has met a token outside the list ends with no token left.
ReuseRevokes ==
    [][\A r \in Sessions :
          /\ requests[r] # Idle
          /\ requests[r].op = "revoke"
          /\ Save(r)
          => tokens' = <<>>]_vars

\* User.js:61, "Keep only the last 5 refresh tokens", README.md:659, "max 5": the
\* list in the database never holds more than Limit tokens.
AtMostFive == Len(tokens) <= Limit
=============================================================================
