\* Every interleaving of the whole builder interface on four nodes: enough to
\* move a first, middle, last or only child within its list and between lists.
\* Beside it every tree of four nodes the parser's own calls can build.
SPECIFICATION BuilderRuns
CONSTANTS
  MaxNodes = 4
  SourceLen = 0
  Kinds = {"syntax", "custom"}
  Fields = {"custom"}
INVARIANTS LinkInv WalkIsNested ParsedIsRooted WholeTreeIsWalked
PROPERTY ImplementsTree
CHECK_DEADLOCK FALSE
