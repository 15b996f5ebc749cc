\* Two saves of the settings, the overrides and the status, another administrator, every order of fetches and answers.
SPECIFICATION Spec
CONSTANTS
  Live = {"settings", "status", "overrides"}
  Saves = {1, 2}
  Others = {9}
INVARIANT FreshMeansTrue
INVARIANT NoPhantomSettings
PROPERTY NoSilentRevert
