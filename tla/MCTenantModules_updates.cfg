\* Two modules, two updates with every body, provisioning, every fault.
SPECIFICATION Spec
CONSTANTS
  Modules = {leads, projects}
  Requests = {r1, r2}
SYMMETRY Symmetry
INVARIANT TypeOK
INVARIANT SerialUpdatesAgree
PROPERTY AllOrNothing
