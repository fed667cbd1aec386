----------------------------- MODULE MCJumpList -----------------------------
(* Instances of JumpList for TLC: streams as Windows writes them, cut at any
   byte, with a header that may be wrong, and some whose lengths are junk.    *)
EXTENDS JumpList, FiniteSets

MCFixed(version) == IF version = 1 THEN 112 ELSE 128
MCTail(version) == IF version = 4 THEN 4 ELSE 0

\* The offsets of entries with paths of these lengths, and the end of the last.
MCOffsets(version, paths) ==
  LET o[i \in 1 .. Len(paths) + 1] ==
        IF i = 1 THEN Header
        ELSE o[i - 1] + MCFixed(version) + 2 + 2 * paths[i - 1] + MCTail(version)
  IN  [i \in 1 .. Len(paths) + 1 |-> o[i]]

MCPaths == {<< >>, <<3>>, <<1, 4>>, <<4, 2>>}

(* A stream is its version, the path lengths of the entries written to it, its
   length, the number its header declares, and what every other path length
   that is read from it would be.  A shorter length cuts it, a longer one is
   slack behind the last entry.  Offsets are even, so an odd length reads as
   the even one below it.                                                    *)
MCStreams ==
  [version : {1, 2, 3, 4}, paths : MCPaths, length : {2 * l : l \in 0 .. 220},
   declared : {0, 1, 2, 3}, junk : {0, 6}]

MCLength(s) == s.length
MCVersion(s) == s.version
MCDeclared(s) == s.declared
MCWritten(s) == LET at == MCOffsets(s.version, s.paths)
                IN  [i \in 1 .. Len(s.paths) |-> at[i]]
MCPathLength(s, o) ==
  LET at == MCOffsets(s.version, s.paths)
      here == {i \in 1 .. Len(s.paths) : at[i] + MCFixed(s.version) = o}
  IN  IF here = {} THEN s.junk ELSE s.paths[CHOOSE i \in here : TRUE]

\* Entries numbered 10, 11 and 12, whose LNK streams are "a", "b" and "c".
MCNumber(s, o) == 9 + Cardinality({i \in DOMAIN MCWritten(s) : MCWritten(s)[i] + 88 <= o})
MCLinks == {10, 11}

\* One entry, numbered 10, in a file that also has the LNK stream of entry 16.
MCOneStream ==
  [version : {4}, paths : {<<3>>}, length : {172}, declared : {1}, junk : {0}]
MCTen(s, o) == 10
MCTwoLinks == {10, 16}
=============================================================================
