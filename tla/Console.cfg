SPECIFICATION Spec
CONSTANTS
  INPUT_BUF_SIZE = 2
  UART_TX_BUF_SIZE = 2
  W = 4
  TW = 4
  N = 2
  Chars <- MCChars
  None = None
VIEW MCView
INVARIANT InputIsTyped EofOnce NothingForgotten LocksMaskInterrupts FifoFits
PROPERTY OutputInOrder
