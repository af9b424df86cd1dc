---------------------------- MODULE MCOdinBuilds ----------------------------
(***************************************************************************)
(* Small instances of OdinBuilds for TLC.                                  *)
(***************************************************************************)
EXTENDS OdinBuilds

CONSTANTS h1

\* BuildHosts of two slots: all local, all on one host, the second on a host.
SlotLayouts == {<<Local, Local>>, <<h1, h1>>, <<Local, h1>>}
RemoteLayout == {<<h1, h1>>}

\* Free process numbers are alike: a new child takes the lowest.
LowestPid == \A p \in FreePids : proc'[p] # proc[p] => \A q \in FreePids : p <= q

\* No step reads hit or orphans.  A build runs once, so of those OnlyAbortedHit
\* has found in order nothing more depends.
View == <<serverVars, toClient, toServer, clientVars, remote, toHost, bytes, running,
          hit \ (aborted \cup {b.n : b \in orphans})>>
=============================================================================
