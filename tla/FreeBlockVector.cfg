SPECIFICATION Spec
CONSTANTS
  W = 3
  NumWords = 3
  MetaBlocks <- MCMeta
  NoBlock = NoBlock
INVARIANTS TypeOK BitsMatchHolders
PROPERTIES FreshBlock ImplementsPool
