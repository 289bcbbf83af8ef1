---------------------------- MODULE MCOidcKeySet ----------------------------
(***************************************************************************)
(* A small instance of OidcKeySet: each key has an ID of its own.           *)
(***************************************************************************)
EXTENDS OidcKeySetProps

MCKeyID ==
  CHOOSE f \in [Keys -> KeyIDs] : \A k, l \in Keys : k # l => f[k] # f[l]

=============================================================================
