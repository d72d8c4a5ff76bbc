SPECIFICATION Spec
CONSTANTS
  Scripts <- AllScripts
  LineMax = 6
  MaxSize = 64
INVARIANTS TypeOK ReplyExact LinksExact CookieSent
PROPERTY EventuallyAnswered
