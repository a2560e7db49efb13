SPECIFICATION Spec
CONSTANTS
  Vectors <- SomeVectors
  MaxDepth = 3
INVARIANTS TypeOK ContextDescribesTrap FrameDescribesTrap
 
