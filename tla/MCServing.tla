------------------------------ MODULE MCServing ------------------------------
(***************************************************************************)
(* Instances of Serving for TLC.                                           *)
(*                                                                         *)
(* MCServing.cfg: two requests, of all four kinds between them, over a    *)
(*   pool that holds both, and a third that is too long to be let in;      *)
(*   queues, jobs and batch steps interleave in all ways.                  *)
(* MCServingLive.cfg: a stream against a completion or an exclusive stream,*)
(*   over a pool with room for one, so that one waits for the other.       *)
(* MCServingPlaces.cfg: three completions and room for one in flight.      *)
(* MCServingAbandoned.cfg: two streams.                                    *)
(***************************************************************************)
EXTENDS Serving

CONSTANTS r1, r2, r3

MCReqs == {r1, r2}
MCThreeReqs == {r1, r2, r3}
MCThreeIds == 0 .. 2
MCSeqIds == 0 .. 1
MCComplete == [r \in MCThreeReqs |-> {"complete"}]
MCOnes == [r \in MCThreeReqs |-> 1]
MCStreams == [r \in MCReqs |-> {"stream"}]
MCMixedKinds ==
    r1 :> {"complete", "excl"} @@ r2 :> {"stream", "exclstream"}
    @@ r3 :> {"complete"}
MCLiveKinds == r1 :> {"stream"} @@ r2 :> {"complete", "exclstream"}
MCPromptLen == r1 :> 1 @@ r2 :> 1 @@ r3 :> 8
MCMaxNew == r1 :> 1 @@ r2 :> 2 @@ r3 :> 1
MCShortPrompts == r1 :> 1 @@ r2 :> 1
MCOneNew == r1 :> 1 @@ r2 :> 1

=============================================================================
