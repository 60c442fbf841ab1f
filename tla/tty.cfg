\* A ring of three slots, starting as in tty_init at an arbitrary index; both builds.
CONSTANTS
  Chars = {"a", "b"}
  NoChar = "-"
  Size = 3
  Base = 1
SPECIFICATION Spec
INVARIANTS TypeOK RingConsistent NoSpuriousChar CountBounded
PROPERTIES ImplementsQueue BufferDrains
