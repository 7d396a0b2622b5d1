---------------------------- MODULE MCWorkCycle ----------------------------
(* Small instances of WorkCycle. *)
EXTENDS WorkCycle

CONSTANTS t1

MCMode ==
  [r \in BridgeTypes \X {t1} |->
     CASE r[1] = "Publisher"  -> "Auto"
       [] r[1] = "Subscriber" -> "LazyAuto"
       [] r[1] = "Service"    -> "Disabled"
       [] r[1] = "Client"     -> "LazyAuto"]

\* An eager and a lazy resource that each side may have, and a remote service,
\* whose client is bridged although its mode is lazy.
MCLocal == {<<"Publisher", t1>>, <<"Subscriber", t1>>}

MCRemote == {<<"Subscriber", t1>>, <<"Publisher", t1>>, <<"Service", t1>>}

\* An eager resource that each side may have, a disabled one that each side may
\* have, and a remote service.
MCLocalAuto == {<<"Publisher", t1>>, <<"Service", t1>>}

MCRemoteAuto == {<<"Subscriber", t1>>, <<"Client", t1>>, <<"Service", t1>>}

\* A single eager resource.
MCLocalOne == {<<"Publisher", t1>>}

MCRemoteOne == {<<"Subscriber", t1>>}

=============================================================================
