SPECIFICATION FairSpec
CONSTANTS
  Tasks = {httpd, main}
  Server = httpd
  Size = 3
  LineMax = 3
  httpd = httpd
  main = main
INVARIANTS
  LinesWhole
PROPERTIES
  ImplementsWindow
  MutexReturned
