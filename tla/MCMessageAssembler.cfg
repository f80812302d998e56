CONSTANTS
  RingBufferLength = 3
  MaxLength = 3
  MaxSentences = 5
SPECIFICATION AssemblerSpec
INVARIANTS
  AssemblerTypeOK
  RingKeeps
  TimesInOrder
  PromptIsExact
