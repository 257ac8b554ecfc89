SPECIFICATION PortableSpec
CONSTANTS
  Heard = {u1, t1}
  FromTools = {t1}
  Beliefs = {b1, b2}
  Wiki = {k1, k2}
  Names = {n1, n2}
  Files = {f1, f2}
  Chunked = {f1}
  NoBelief = NoBelief
  NoWiki = NoWiki
  Nothing = Nothing
  MaxWritten = 3
  MaxWrites = 4
CHECK_DEADLOCK FALSE
INVARIANT ExportsCanBeImported
