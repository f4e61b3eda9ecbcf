SPECIFICATION BuildSpec
CONSTANTS
  Collections <- BuildCollections
  MaxText = 5
INVARIANTS BuildTypeOK NavAligned NavMarksStructure NavMarksOutside ThrowsInLiteral
  ParensFollowBrackets IndexEncodesTrees BalancedAtDocumentEnds
PROPERTIES BuildEnds WellFormedIsBuilt
CHECK_DEADLOCK FALSE
