---------------------------- MODULE JoseObjects ----------------------------
(***************************************************************************)
(* The two kinds of objects of package jose under the names the modules    *)
(* that use them share: JWS for signing.go and jws.go, JWE for crypter.go  *)
(* and jwe.go.  A time.Time is a number of milliseconds since the epoch.   *)
(***************************************************************************)
EXTENDS Jose

\* time.Unix(n, 0), of a claim that is a number of seconds.
UnixTime(n) == 1000 * n

JWS == INSTANCE JoseSign
JWE == INSTANCE JoseCrypt
=============================================================================
