\* A ring of three slots, starting as in tty_init at an arbitrary index.
CONSTANTS
  Chars = {"a", "b"}
  NoChar = "-"
  Size = 3
  Base = 1
SPECIFICATION Spec
PROPERTY ReceiveServed
