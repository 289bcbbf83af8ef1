----------------------------- MODULE JsonCache -----------------------------
(***************************************************************************)
(* The encoderCache of jose/json/encode.go: goroutines that call Marshal   *)
(* build the encoder of a type and of the types it is made of, sharing     *)
(* them through the cache.  Recursive types make a goroutine meet a type   *)
(* it is still building, and two goroutines may build the same type.       *)
(*                                                                         *)
(* A build is one run of typeEncoder past the lookup: its type, the        *)
(* encoders of the element types found so far, and done once wg.Done has   *)
(* been called.  An encoder is [build, wait]: with wait it is the indirect *)
(* func that waits for the build, without it the func itself.  A locked    *)
(* section of the code is one step.                                        *)
(***************************************************************************)
EXTENDS Naturals, Sequences

CONSTANTS Goroutines, Types,
          Elems,       \* Elems[t]: the types whose encoders that of t is made of
          MaxDepth,    \* how deep the values handed to Marshal are
          MaxBuilds    \* bound on the builds started

ASSUME ElemsAssumption == Elems \in [Types -> Seq(Types)] /\ MaxDepth \in Nat

VARIABLES encoderCache,  \* m: what is cached for a type, a sequence of none or one encoder
          builds,
          go             \* where each goroutine is

encoderVars == <<encoderCache, builds, go>>

CacheInit ==
  /\ encoderCache = [t \in Types |-> <<>>]
  /\ builds = <<>>
  /\ go = [p \in Goroutines |-> [pc |-> "idle", type |-> CHOOSE t \in Types : TRUE, stack |-> <<>>,
                                 enc |-> [build |-> 0, wait |-> FALSE], depth |-> 0]]

Go(p, pc) == [go EXCEPT ![p].pc = pc]
Building(p) == go[p].stack[Len(go[p].stack)]

\* typeEncoder returns enc, to Marshal or to the newTypeEncoder that asked.
returnTo(p, stack, enc, bs) ==
  IF stack = <<>>
  THEN /\ go' = [go EXCEPT ![p] = [@ EXCEPT !.pc = "call", !.stack = stack, !.enc = enc]]
       /\ builds' = bs
  ELSE /\ go' = [go EXCEPT ![p] = [@ EXCEPT !.pc = "build", !.stack = stack]]
       /\ builds' = [bs EXCEPT ![stack[Len(stack)]].elems = Append(@, enc)]

marshal(p, t) ==
  /\ go[p].pc = "idle" /\ Len(builds) < MaxBuilds
  /\ go' = [go EXCEPT ![p] = [@ EXCEPT !.pc = "lookup", !.type = t, !.depth = MaxDepth]]
  /\ UNCHANGED <<encoderCache, builds>>

\* A plausible slip: the lookup of a type still being built waits for it.
LookupWaits(p) ==
  /\ go[p].pc = "lookup" /\ UNCHANGED encoderCache
  /\ LET hit == encoderCache[go[p].type]
     IN  IF hit = <<>> THEN go' = Go(p, "insert") /\ UNCHANGED builds
         ELSE /\ hit[1].wait => builds[hit[1].build].done
              /\ returnTo(p, go[p].stack, hit[1], builds)

\* The lookup under RLock.
Lookup(p) ==
  /\ go[p].pc = "lookup" /\ UNCHANGED encoderCache
  /\ LET hit == encoderCache[go[p].type]
     IN  IF hit = <<>> THEN go' = Go(p, "insert") /\ UNCHANGED builds
         ELSE returnTo(p, go[p].stack, hit[1], builds)

\* A plausible slip: what is put into the cache does not wait.
InsertDirect(p) ==
  /\ go[p].pc = "insert"
  /\ builds' = Append(builds, [type |-> go[p].type, elems |-> <<>>, done |-> FALSE])
  /\ encoderCache' = [encoderCache EXCEPT ![go[p].type] = <<[build |-> Len(builds'), wait |-> FALSE]>>]
  /\ go' = [go EXCEPT ![p] = [@ EXCEPT !.pc = "build", !.stack = Append(go[p].stack, Len(builds'))]]

\* Under Lock, whatever another goroutine has cached since the lookup.
Insert(p) ==
  LET b == Len(builds) + 1
  IN  /\ go[p].pc = "insert"
      /\ builds' = Append(builds, [type |-> go[p].type, elems |-> <<>>, done |-> FALSE])
      /\ encoderCache' = [encoderCache EXCEPT ![go[p].type] = <<[build |-> b, wait |-> TRUE]>>]
      /\ go' = [go EXCEPT ![p] = [@ EXCEPT !.pc = "build", !.stack = Append(go[p].stack, b)]]

\* newTypeEncoder asks for the encoder of the next element type, or is done: f is
\* assigned and wg.Done called.
Build(p) ==
  LET b == Building(p)
      elems == Elems[builds[b].type]
      n == Len(builds[b].elems)
  IN  /\ go[p].pc = "build" /\ UNCHANGED encoderCache
      /\ IF n < Len(elems)
         THEN /\ go' = [go EXCEPT ![p] = [@ EXCEPT !.pc = "lookup", !.type = elems[n + 1]]]
              /\ UNCHANGED builds
         ELSE /\ go' = Go(p, "publish")
              /\ builds' = [builds EXCEPT ![b].done = TRUE]

Publish(p) ==
  LET b == Building(p)
      enc == [build |-> b, wait |-> FALSE]
  IN  /\ go[p].pc = "publish"
      /\ encoderCache' = [encoderCache EXCEPT ![builds[b].type] = <<enc>>]
      /\ returnTo(p, SubSeq(go[p].stack, 1, Len(go[p].stack) - 1), enc, builds)

\* The encoder is called on a value, and calls those of some part of it.
Call(p) ==
  LET b == go[p].enc.build
  IN  /\ go[p].pc = "call"
      /\ go[p].enc.wait => builds[b].done
      /\ IF go[p].depth = 0 \/ builds[b].elems = <<>> THEN go' = Go(p, "idle")
         ELSE \E i \in 1..Len(builds[b].elems) :
                go' = [go EXCEPT ![p] = [@ EXCEPT !.enc = builds[b].elems[i], !.depth = go[p].depth - 1]]
      /\ UNCHANGED <<encoderCache, builds>>

Work(p) == Lookup(p) \/ Insert(p) \/ Build(p) \/ Publish(p) \/ Call(p)

CacheNext == \E p \in Goroutines : Work(p) \/ \E t \in Types : marshal(p, t)

CacheSpec == CacheInit /\ [][CacheNext]_encoderVars
CacheFair == \A p \in Goroutines : WF_encoderVars(Work(p))

-----------------------------------------------------------------------------
\* encoder e serves type t: it exists, belongs to t, and if it does not wait its
\* build is complete.
Serves(e, t) ==
  /\ e.build \in 1..Len(builds)
  /\ builds[e.build].type = t
  /\ ~e.wait => builds[e.build].done

\* Whatever goroutines build at the same time and however types recurse, the
\* encoder cached for a type, the encoders inside an encoder and the one being
\* called belong to the right types, and one that is called without waiting has
\* all its parts: no call goes through a nil func (encode.go:336).
EncodersServe ==
  /\ \A t \in Types : \A i \in 1..Len(encoderCache[t]) : Serves(encoderCache[t][i], t)
  /\ \A b \in 1..Len(builds) :
       LET elems == Elems[builds[b].type]
       IN  /\ Len(builds[b].elems) <= Len(elems)
           /\ builds[b].done => Len(builds[b].elems) = Len(elems)
           /\ \A i \in 1..Len(builds[b].elems) : Serves(builds[b].elems[i], elems[i])
  /\ \A p \in Goroutines : go[p].pc = "call" => \E t \in Types : Serves(go[p].enc, t)

\* Every Marshal returns: the waits of the indirect funcs (encode.go:337) never
\* close a circle.
MarshalEnds == \A p \in Goroutines : (go[p].pc # "idle") ~> (go[p].pc = "idle")
=============================================================================
