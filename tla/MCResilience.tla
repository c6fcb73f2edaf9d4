---------------------------- MODULE MCResilience ----------------------------
(***************************************************************************)
(* Two methods of one service; the chain of createDefaultInterceptors(),   *)
(* whole and in parts, and a filter that guards a service with a bulkhead  *)
(* and retries one of its methods.                                         *)
(***************************************************************************)
EXTENDS Resilience, TLC

Options(errorHandler, timeout, bulkhead, circuitBreaker, retry, fallback) ==
  [errorHandler |-> errorHandler, timeout |-> timeout, bulkhead |-> bulkhead, circuitBreaker |-> circuitBreaker,
   retry |-> retry, fallback |-> fallback]

Filters(all, service, get, put) == ("*" :> all) @@ ("shop" :> service) @@ ("get" :> get) @@ ("put" :> put)
NoFilters == Filters(<<>>, <<>>, <<>>, <<>>)

Config(methods, options, filters, predicate, streams) ==
  [methods |-> methods, options |-> options, filters |-> filters, predicate |-> predicate, streams |-> streams]

Picky == [failures |-> {"not_found"}, throws |-> {"unavailable"}]

Get == <<"shop", "get">>
Put == <<"shop", "put">>
Permutation == Permutations(Request)

MCConfiguration ==
  {Config({Get}, Options("unset", "object", "true", "true", "object", "true"), NoFilters, Undefined, {FALSE}),
   Config({Get}, Options("true", "false", "unset", "true", "true", "object"), NoFilters, Picky, {FALSE}),
   Config({Get}, Options("false", "false", "false", "object", "false", "false"), NoFilters, Picky, {FALSE, TRUE}),
   Config({Get, Put}, Options("object", "false", "false", "false", "unset", "false"),
          Filters(<<>>, <<"bulkhead">>, <<"retry">>, <<"fallback">>), Undefined, {FALSE, TRUE})}

\* What the proofs ask of the filters holds here.
ASSUME FiltersAssumption == BulkheadInside /\ BreakerOutside
=============================================================================
