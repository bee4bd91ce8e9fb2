SPECIFICATION FairSpec
CONSTANT
  Texts <- MCTexts

  
PROPERTIES
  Terminates
