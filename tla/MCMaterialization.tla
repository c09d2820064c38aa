-------------------------- MODULE MCMaterialization --------------------------
(***************************************************************************)
(* An instance of Materialization for TLC: two calls, of an object of two  *)
(* blocks and one of a single block, into one file, and as streams, with   *)
(* descriptors that prefer another mode or name a path, and requests and   *)
(* references that are refused.                                            *)
(***************************************************************************)
EXTENDS Materialization

CONSTANTS m1, m2, f, a, b, k1, k2, k3, name, path

MCCalls == {m1, m2}
MCFiles == {f}
MCBytes == {a, b}
MCKeys == {k1, k2, k3}
MCFileNames == {name}
MCTexts == {name, path}
MCHint(mode, filename) == [preferredMode |-> mode, visibility |-> "public",
                           placementClass |-> path, filenameHint |-> filename]
MCObjects == [k \in MCKeys |->
    CASE k = k1 -> [payload |-> <<a, a>>, hints |-> MCHint("stream", None)]
      [] k = k2 -> [payload |-> <<b>>, hints |-> MCHint("mirror", name)]
      [] k = k3 -> [payload |-> <<b>>, hints |-> MCHint(None, path)]]

MCReference(key) == [family |-> "hypercore_immutable", key |-> key, descriptorHash |-> None]
MCRequest(mode, filename) ==
    [reference |-> None, targetClass |-> name, mode |-> mode, filenameOverride |-> filename]
MCCall(key, request, dest, signal, timed) ==
    [reference |-> MCReference(key), request |-> request, destination |-> dest,
     signal |-> signal, timed |-> timed]

MCOptions ==
    {MCCall(k, MCRequest("cache", None), f, s, t) : k \in {k1, k2}, s, t \in BOOLEAN}
    \cup {MCCall(k2, MCRequest(mode, None), None, s, TRUE) :
             mode \in {None, "mirror"}, s \in BOOLEAN}
    \cup {MCCall(k2, MCRequest(None, path), None, FALSE, FALSE),
          MCCall(k3, MCRequest("stream", None), None, FALSE, TRUE),
          MCCall(name, MCRequest(None, None), None, FALSE, FALSE)}
==============================================================================
