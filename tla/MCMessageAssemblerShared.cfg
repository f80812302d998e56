CONSTANTS
  RingBufferLength = 3
  MaxLength = 2
  MaxSentences = 2
SPECIFICATION AssemblerSpec
INVARIANT TimeOfSentence
