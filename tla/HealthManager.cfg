SPECIFICATION HealthSpec
CONSTANTS
  w1 = w1
  Absent = Absent
  Name = {"shop.Shop", "mail.Mail", "Plain", "process"}
  Dotted = {"shop.Shop", "mail.Mail"}
  Servers <- MCServers
  Watcher = {w1}
  Overall = ""
INVARIANT
  ServingIsTrue
PROPERTY
  WatchersLearn
